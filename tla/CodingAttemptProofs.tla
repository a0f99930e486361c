------------------------ MODULE CodingAttemptProofs ------------------------
(***************************************************************************)
(* The records of a coding lane keep their types, no attempt both failed   *)
(* and has a result (TypeOK), and no byte staged at a holder is orphaned   *)
(* (BytesOwned), for any coordinators, placements, attempts and faults.    *)
(***************************************************************************)
EXTENDS CodingAttempt, TLAPS

-----------------------------------------------------------------------------
(* The inductive invariant.                                                *)

Coordinators == UNION {Both(p) : p \in Pairs}

Plans ==
    [coder : Coordinators, verifier : Coordinators, geometry : Geometries,
     epoch : Nat, initial : BOOLEAN]

MaybeIds == Ids \cup {None}

Dbs ==
    [launch : SUBSET Ids, dispatched : SUBSET Ids, info : SUBSET Ids,
     staged : SUBSET Ids, retry : SUBSET Ids, complete : SUBSET Ids,
     terminal : SUBSET Ids, child : [Ids -> MaybeIds],
     parent : [Ids -> MaybeIds], act : SUBSET Ids, done : SUBSET Ids,
     replan : SUBSET Ids, retired : SUBSET Ids, renewed : SUBSET Ids,
     bound : [Geometries -> MaybeIds]]

RetryPcs ==
    {"retryStart", "retryDrop", "retryPick", "retryRenew", "retryReplan",
     "retryPrepare", "retryUpload", "retryDelegate", "retryFinish"}
LaunchPcs ==
    {"launchAbandon", "launchRenew", "launchUpload", "launchDelegate",
     "launchFinish"}
ActPcs ==
    {"actMark", "actComplete", "actActivate", "actSign", "actCommit",
     "actFinish"}
Pcs == {"idle", "dead", "abort"} \cup RetryPcs \cup LaunchPcs \cup ActPcs

Workers ==
    [pc : Pcs, a : MaybeIds, c : MaybeIds, t : MaybeIds, next : Pcs,
     policy : {"fenced", "stale", "strict"}, e : SUBSET Geometries,
     ok : BOOLEAN]

(* The variables' types, as records and functions. *)
Typed ==
    /\ plans \in Seq(Plans)
    /\ expired \in SUBSET Ids
    /\ guild \in [epoch : Nat, placed : SUBSET Geometries, locked : MaybeIds,
                  group : [Geometries -> {"absent", "active", "retired"}]]
    /\ db \in Dbs
    /\ job \in [Ids -> JobStates]
    /\ finding \in [Ids -> {"none", "verified", "invalid"}]
    /\ hold \in [bytes : SUBSET Ids, ready : SUBSET Ids, owed : SUBSET Ids]
    /\ w \in Workers
    /\ open \in BOOLEAN

(* The bounds of the behaviour stay those of one of the budgets. *)
Budgeted ==
    /\ budget \in [kinds : SUBSET FaultKinds, faults : Nat, attempts : Ids,
                   epochs : Nat, placed : SUBSET Geometries]
    /\ \E b \in Budgets : /\ budget.faults \in 0 .. b.faults
                          /\ budget.kinds = b.kinds

(* Records are about attempts that were signed. *)
Known ==
    /\ Signed \subseteq Ids /\ expired \subseteq Signed
    /\ guild.locked \in Signed \cup {None}
    /\ db.launch \subseteq Signed /\ db.info \subseteq Signed
    /\ db.retry \subseteq Signed /\ db.act \subseteq Signed
    /\ db.retired \subseteq Signed /\ db.renewed \subseteq Signed
    /\ \A r \in Ids : db.child[r] \in Signed \cup {None}
    /\ w.a \in Signed \cup {None} /\ w.c \in Signed \cup {None}
    /\ w.t \in Signed \cup {None}

(* How the records of one attempt go together. *)
Shape ==
    /\ db.dispatched \subseteq db.launch /\ db.staged \subseteq db.info
    /\ db.terminal \subseteq db.retry /\ db.complete \subseteq db.retry
    /\ db.replan \subseteq db.act \ db.done /\ db.done \subseteq db.act
    /\ db.launch \cap db.retry = {}
    /\ hold.ready \subseteq hold.bytes

(* A coder reports a failure or submits a result, never both, and works on *)
(* an attempt no more when it did.                                         *)
Reported ==
    /\ \A a \in db.act : job[a] \in {"Submitting", "Complete"}
    /\ \A a \in db.retry : job[a] \in {"ReportingFailure", "Complete"}
    /\ db.act \cap db.retry = {}

(* A retry closed for good but not yet complete has a submitted child. *)
Closed ==
    \A r \in db.terminal \ db.complete : Submitted(db.child[r])

(* What will release or activate the bytes of an attempt apart from its    *)
(* launch and from the retry that prepared it.                             *)
Alive == {"Pending", "Running", "Staged", "Cleanup", "Submitting"}
Settled(a) ==
    \/ a \in hold.owed \/ job[a] \in Alive
    \/ a \in db.act \ db.done \/ a \in db.retry \ db.complete
    \/ a \in hold.ready \cap db.done

Named(a) ==
    \/ a \in db.launch
    \/ \E r \in db.retry \ db.terminal : db.child[r] = a /\ ~Submitted(a)
    \/ \E r \in db.retry \ db.complete : db.child[r] = a

Stored ==
    \A a \in hold.bytes :
       /\ Settled(a) \/ Named(a)
       /\ a \in db.done => a \in hold.ready \cup hold.owed
       /\ a \in db.complete => a \in hold.owed

(* The worker's position: where it goes on after an abort. *)
At == IF w.pc = "abort" THEN w.next ELSE w.pc

(* The worker's job is the one it claimed. *)
Claimed ==
    /\ At \in RetryPcs =>
         /\ w.a \in db.retry
         /\ w.a \in db.complete => At = "retryFinish" /\ db.child[w.a] = None
         /\ w.ok => At = "retryFinish"
    /\ At \in {"retryStart", "retryDrop", "retryPick", "retryRenew"} =>
         w.c = db.child[w.a]
    /\ At \in LaunchPcs => w.a # None
    /\ At \in ActPcs => w.a \in db.act \ db.done
    /\ At \in {"launchUpload", "launchDelegate"} =>
         /\ w.a \in db.launch \cup db.act \cup db.retry
         /\ w.a \notin db.done \cup db.complete
    /\ At = "retryRenew" =>
         w.c # None /\ w.c \in db.retired /\ ~Submitted(w.c)
    /\ At \in {"retryUpload", "retryDelegate"} =>
         /\ w.t # None /\ w.t = db.child[w.a] /\ w.t # w.a
         /\ w.t \notin db.done \cup db.complete

(* An abort is of the claimed attempt or of the retry's child. *)
Aborts ==
    w.pc = "abort" =>
      \/ /\ w.next \in {"retryDrop", "retryPick", "launchAbandon", "launchRenew"}
         /\ w.t = w.a /\ w.policy = "fenced"
      \/ /\ w.next \in {"retryFinish", "retryRenew"}
         /\ w.t = w.c /\ w.policy = "fenced"
         /\ w.c # None /\ w.c = db.child[w.a]
      \/ w.next = "actComplete" /\ w.t = w.a

(* What is left at the holders of an attempt the worker aborted. *)
Aborted ==
    /\ (At \in RetryPcs /\ At # "retryStart"
          /\ (w.pc = "abort" => w.next \in {"retryFinish", "retryRenew"})) =>
         (w.a \in hold.bytes => w.a \in hold.owed)
    /\ w.pc = "retryRenew" => (w.c \in hold.bytes => Settled(w.c))
    /\ w.pc = "retryFinish" /\ w.ok =>
         (db.child[w.a] \in hold.bytes => Settled(db.child[w.a]))
    /\ w.pc \in {"launchAbandon", "launchRenew"} =>
         (w.a \in hold.bytes => Settled(w.a))
    /\ w.pc = "actComplete" => (w.a \in hold.bytes => w.a \in hold.owed)
    /\ w.pc \in {"actSign", "actCommit", "actFinish"} =>
         (w.a \in hold.bytes => w.a \in hold.ready \cup hold.owed)

IInv ==
    /\ Typed /\ Budgeted /\ Known /\ Shape /\ Reported /\ Closed /\ Stored
    /\ Claimed /\ Aborts /\ Aborted

-----------------------------------------------------------------------------
(* The operators the actions are built from.                               *)

Holds == [bytes : SUBSET Ids, ready : SUBSET Ids, owed : SUBSET Ids]

(* None is not an attempt. *)
LEMMA NoneIsNoId == None \notin Ids /\ Ids \subseteq Nat
  BY CodingAssumption DEF None, Ids

(* Fault takes one of the remaining faults and leaves the other bounds. *)
LEMMA BudgetKept ==
    ASSUME Budgeted, budget' = budget \/ \E kind \in FaultKinds : Fault(kind)
    PROVE  Budgeted'
<1>1. CASE budget' = budget
  BY <1>1, Zenon DEF Budgeted
<1>2. ASSUME NEW kind \in FaultKinds, Fault(kind) PROVE Budgeted'
  <2>1. /\ budget.faults > 0 /\ budget' = [budget EXCEPT !.faults = @ - 1]
    BY <1>2, Zenon DEF Fault
  <2>2. PICK b \in Budgets : budget.faults \in 0 .. b.faults /\ budget.kinds = b.kinds
    BY Zenon DEF Budgeted
  <2>3. b.faults \in Nat
    BY CodingAssumption
  <2>4. /\ budget \in [kinds : SUBSET FaultKinds, faults : Nat, attempts : Ids,
                       epochs : Nat, placed : SUBSET Geometries]
    BY Zenon DEF Budgeted
  <2>5. budget'.faults \in 0 .. b.faults /\ budget'.kinds = b.kinds
    BY <2>1, <2>2, <2>3, <2>4
  <2>6. budget' \in [kinds : SUBSET FaultKinds, faults : Nat, attempts : Ids,
                     epochs : Nat, placed : SUBSET Geometries]
    BY <2>1, <2>4
  <2> QED BY <2>5, <2>6, Zenon DEF Budgeted
<1> QED BY <1>1, <1>2, Zenon

(* sign_coding_attempt_plan names a new attempt and keeps the others. *)
LEMMA SignAdds ==
    ASSUME Typed, Budgeted, NEW p \in Pairs, NEW g, NEW i \in BOOLEAN, Sign(p, g, i)
    PROVE  /\ New \in Ids /\ New \notin Signed
           /\ plans' \in Seq(Plans) /\ Signed' = Signed \cup {New}
           /\ \A a \in Signed : plans'[a] = plans[a]
           /\ Signed' \subseteq Ids
<1> DEFINE new == [coder |-> p[1], verifier |-> p[2], geometry |-> g,
                   epoch |-> guild.epoch, initial |-> i]
<1>1. plans \in Seq(Plans) /\ guild.epoch \in Nat /\ guild.placed \subseteq Geometries
  BY DEF Typed
<1>2. New <= budget.attempts /\ g \in guild.placed /\ plans' = Append(plans, new)
  BY Zenon DEF Sign
<1>3. budget.attempts \in Ids
  BY DEF Budgeted
<1>4. p[1] \in Coordinators /\ p[2] \in Coordinators
  BY DEF Coordinators, Both
<1>5. new \in Plans
  BY <1>1, <1>2, <1>4 DEF Plans
<1> HIDE DEF new
<1>6. Len(plans) \in Nat /\ Signed = 1 .. Len(plans)
  BY <1>1 DEF Signed
<1>7. New \in Ids /\ New \notin Signed
  BY <1>2, <1>3, <1>6, CodingAssumption DEF New, Ids
<1>8. plans' \in Seq(Plans) /\ Signed' = 1 .. (Len(plans) + 1)
  BY <1>1, <1>2, <1>5 DEF Signed
<1>9. Signed' = Signed \cup {New}
  BY <1>6, <1>8 DEF New
<1>10. \A a \in Signed : plans'[a] = plans[a]
  BY <1>1, <1>2, <1>5, <1>6
<1>11. Signed' \subseteq Ids
  BY <1>2, <1>3, <1>8, <1>6, CodingAssumption DEF New, Ids
<1> QED BY <1>7, <1>8, <1>9, <1>10, <1>11, Zenon

(* discard_coding_attempt touches one attempt: its bytes are gone, or they *)
(* are owed a removal.                                                     *)
Cleaned(h, k, t) ==
    /\ k \in Holds /\ k.ready \subseteq k.bytes
    /\ k.bytes \subseteq h.bytes
    /\ \A a \in Ids \ {t} :
         /\ a \in k.bytes <=> a \in h.bytes
         /\ a \in k.ready <=> a \in h.ready
         /\ a \in k.owed <=> a \in h.owed
    /\ t \in k.bytes => t \in k.owed

LEMMA DiscardCleans ==
    ASSUME NEW h \in Holds, h.ready \subseteq h.bytes, NEW t \in Ids
    PROVE  Cleaned(h, Discard(h, t), t)
<1>1. CASE t \in h.ready /\ guild.group[G(t)] # "absent"
  <2>1. Discard(h, t) = [h EXCEPT !.owed = @ \cup {t}]
    BY <1>1, Zenon DEF Discard
  <2> QED BY <2>1 DEF Cleaned, Holds
<1>2. CASE ~(t \in h.ready /\ guild.group[G(t)] # "absent")
  <2>1. Discard(h, t) = [bytes |-> h.bytes \ {t}, ready |-> h.ready \ {t},
                         owed |-> h.owed \ {t}]
    BY <1>2, Zenon DEF Discard
  <2> QED BY <2>1 DEF Cleaned, Holds
<1> QED BY <1>1, <1>2, Zenon

-----------------------------------------------------------------------------
(* Steps of others than the worker.                                        *)

(* What a step of the planner, a coder, a holder, the guild or the clock   *)
(* may do: it submits an attempt or gives up its launch for a retry, and   *)
(* leaves no bytes behind that nothing accounts for.                       *)
DbCalm ==
    /\ db'.child = db.child /\ db'.complete = db.complete
    /\ db'.done = db.done
    /\ db.act \subseteq db'.act /\ db.retry \subseteq db'.retry
    /\ db.launch \subseteq db'.launch \cup db'.retry
    /\ db.retired \subseteq db'.retired
    /\ \A a \in db.retired : Submitted(a)' => Submitted(a)
    /\ \A r \in db'.terminal : r \in db.terminal \/ Submitted(db.child[r])'

Calm ==
    /\ DbCalm
    /\ \A a \in hold'.bytes :
         /\ (a \in hold.bytes => Settled(a)) => Settled(a)'
         /\ a \in db.act \cup db.retry /\ (a \in hold.bytes => a \in hold.owed)
              => a \in hold'.owed
         /\ a \in db.act /\ (a \in hold.bytes => a \in hold.ready \cup hold.owed)
              => a \in hold'.ready \cup hold'.owed

(* Steps of others keep the bytes accounted for. *)
LEMMA CalmStored ==
    ASSUME Shape, Closed, Stored, Calm
    PROVE  Closed' /\ Stored'
<1>1. Closed'
  BY Zenon DEF Closed, Calm, DbCalm, Submitted
<1>2. ASSUME NEW a \in hold'.bytes PROVE Settled(a)' \/ Named(a)'
  <2>1. CASE a \notin hold.bytes \/ Settled(a)
    BY <2>1, Zenon DEF Calm, DbCalm
  <2>2. CASE a \in hold.bytes /\ Named(a)
    <3>1. CASE a \in db.launch
      <4>1. a \notin db.complete
        BY <3>1, Zenon DEF Shape
      <4> QED BY <3>1, <4>1, Zenon DEF Calm, DbCalm, Named, Settled
    <3>2. ASSUME NEW r \in db.retry \ db.terminal, db.child[r] = a, ~Submitted(a)
          PROVE  Settled(a)' \/ Named(a)'
      <4>1. CASE Submitted(a)'
        <5>1. a \notin db.done /\ a \notin db.complete
          BY <3>2, Zenon DEF Shape, Submitted
        <5> QED BY <4>1, <5>1, Zenon DEF Calm, DbCalm, Submitted, Settled
      <4>2. CASE ~Submitted(a)'
        BY <3>2, <4>2, Zenon DEF Calm, DbCalm, Named
      <4> QED BY <4>1, <4>2, Zenon
    <3>3. ASSUME NEW r \in db.retry \ db.complete, db.child[r] = a
          PROVE  Named(a)'
      BY <3>3, Zenon DEF Calm, DbCalm, Named
    <3> QED BY <2>2, <3>1, <3>2, <3>3, Zenon DEF Named
  <2> QED BY <2>1, <2>2, Zenon DEF Stored
<1>3. ASSUME NEW a \in hold'.bytes
      PROVE  /\ a \in db'.done => a \in hold'.ready \cup hold'.owed
             /\ a \in db'.complete => a \in hold'.owed
  <2>1. a \in db.done => a \in db.act
    BY Zenon DEF Shape
  <2>2. a \in db.complete => a \in db.retry
    BY Zenon DEF Shape
  <2> QED BY <2>1, <2>2, Zenon DEF Calm, DbCalm, Stored
<1> QED BY <1>1, <1>2, <1>3, Zenon DEF Stored

(* Steps of others keep what the worker relies on. *)
LEMMA CalmClaimed ==
    ASSUME Claimed, Aborts, Aborted, Shape, Calm, w' = w
    PROVE  Claimed' /\ Aborts' /\ Aborted'
<1>1. At' = At /\ w' = w
  BY Zenon DEF At, Calm, DbCalm
<1>2. Claimed'
  <2>1. At \in RetryPcs => /\ w.a \in db'.retry
                           /\ w.a \in db'.complete => At = "retryFinish" /\ db'.child[w.a] = None
                           /\ w.ok => At = "retryFinish"
    BY Zenon DEF Claimed, Calm, DbCalm
  <2>2. At \in {"retryStart", "retryDrop", "retryPick", "retryRenew"} => w.c = db'.child[w.a]
    BY Zenon DEF Claimed, Calm, DbCalm
  <2>3. /\ At \in LaunchPcs => w.a # None
        /\ At \in ActPcs => w.a \in db'.act \ db'.done
    BY Zenon DEF Claimed, Calm, DbCalm
  <2>4. At \in {"launchUpload", "launchDelegate"} =>
          /\ w.a \in db'.launch \cup db'.act \cup db'.retry
          /\ w.a \notin db'.done \cup db'.complete
    BY Zenon DEF Claimed, Calm, DbCalm
  <2>5. At = "retryRenew" => w.c # None /\ w.c \in db'.retired /\ ~Submitted(w.c)'
    BY <1>1, Zenon DEF Claimed, Calm, DbCalm, Submitted
  <2>6. At \in {"retryUpload", "retryDelegate"} =>
          /\ w.t # None /\ w.t = db'.child[w.a] /\ w.t # w.a
          /\ w.t \notin db'.done \cup db'.complete
    BY Zenon DEF Claimed, Calm, DbCalm
  <2> QED BY <1>1, <2>1, <2>2, <2>3, <2>4, <2>5, <2>6, Zenon DEF Claimed
<1>3. Aborts'
  BY <1>1, Zenon DEF Aborts, Calm, DbCalm
<1>4. Aborted'
  <2>1. (At \in RetryPcs /\ At # "retryStart"
           /\ (w.pc = "abort" => w.next \in {"retryFinish", "retryRenew"})) =>
         (w.a \in hold'.bytes => w.a \in hold'.owed)
    BY Zenon DEF Aborted, Claimed, Calm, DbCalm
  <2>2. w.pc = "retryRenew" => (w.c \in hold'.bytes => Settled(w.c)')
    BY <1>1, Zenon DEF Aborted, Calm, DbCalm, Settled
  <2>3. w.pc = "retryFinish" /\ w.ok =>
          (db'.child[w.a] \in hold'.bytes => Settled(db.child[w.a])')
    BY <1>1, Zenon DEF Aborted, Calm, DbCalm, Settled
  <2>4. w.pc \in {"launchAbandon", "launchRenew"} => (w.a \in hold'.bytes => Settled(w.a)')
    BY <1>1, Zenon DEF Aborted, Calm, DbCalm, Settled
  <2>5. /\ w.pc = "actComplete" => (w.a \in hold'.bytes => w.a \in hold'.owed)
        /\ w.pc \in {"actSign", "actCommit", "actFinish"} =>
             (w.a \in hold'.bytes => w.a \in hold'.ready \cup hold'.owed)
    <3>1. w.pc \in {"actComplete", "actSign", "actCommit", "actFinish"} => w.a \in db.act
      BY Zenon DEF Claimed, At, ActPcs
    <3> QED BY <3>1, Zenon DEF Aborted, Calm, DbCalm
  <2> QED BY <1>1, <2>1, <2>2, <2>3, <2>4, <2>5, ZenonT(30) DEF Aborted, Calm, DbCalm, Settled
<1> QED BY <1>2, <1>3, <1>4, Zenon

(* A step that keeps the types and is calm keeps the invariant. *)
LEMMA CalmStep ==
    ASSUME IInv, Typed', Budgeted', Known', Shape', Reported', Calm, w' = w
    PROVE  IInv'
  BY CalmStored, CalmClaimed, Zenon DEF IInv

(* A step that leaves jobs and holders alone. *)
LEMMA SameHoldCalm ==
    ASSUME DbCalm, hold' = hold, job' = job
    PROVE  Calm
  BY Zenon DEF Calm, DbCalm, Settled

(* A step that leaves the delegator's records alone. *)
LEMMA SameDbCalm ==
    ASSUME db' = db
    PROVE  DbCalm
  BY Zenon DEF DbCalm, Submitted

(* A step that cleans up the bytes of one attempt. *)
LEMMA CleanCalm ==
    ASSUME Typed, NEW a \in Ids, DbCalm, Cleaned(hold, hold', a),
           \A b \in Ids \ {a} : job'[b] = job[b]
    PROVE  Calm
<1>1. ASSUME NEW b \in hold'.bytes
      PROVE  /\ (b \in hold.bytes => Settled(b)) => Settled(b)'
             /\ b \in db.act \cup db.retry /\ (b \in hold.bytes => b \in hold.owed)
                  => b \in hold'.owed
             /\ b \in db.act /\ (b \in hold.bytes => b \in hold.ready \cup hold.owed)
                  => b \in hold'.ready \cup hold'.owed
  <2>1. b \in Ids /\ b \in hold.bytes
    <3>1. hold' \in Holds /\ hold'.bytes \subseteq hold.bytes
      BY Zenon DEF Cleaned
    <3>2. hold'.bytes \subseteq Ids
      BY <3>1 DEF Holds
    <3> QED BY <3>1, <3>2, Zenon
  <2>2. CASE b = a
    BY <2>2, Zenon DEF Cleaned, Settled
  <2>3. CASE b # a
    BY <2>1, <2>3, Zenon DEF Cleaned, Settled, DbCalm
  <2> QED BY <2>2, <2>3, Zenon
<1> QED BY <1>1, Zenon DEF Calm

(* A recorded cleanup accounts for the bytes. *)
LEMMA OwedCleans ==
    ASSUME NEW h \in Holds, h.ready \subseteq h.bytes, NEW t \in Ids
    PROVE  Cleaned(h, [h EXCEPT !.owed = @ \cup {t}], t)
  BY DEF Cleaned, Holds

(* Cleaning up twice is cleaning up. *)
LEMMA CleanedTwice ==
    ASSUME NEW h, NEW k, NEW l, NEW t, Cleaned(h, k, t), Cleaned(k, l, t)
    PROVE  Cleaned(h, l, t)
<1>1. l.bytes \subseteq h.bytes
  BY Zenon DEF Cleaned
<1>2. ASSUME NEW a \in Ids \ {t}
      PROVE  /\ a \in l.bytes <=> a \in h.bytes
             /\ a \in l.ready <=> a \in h.ready
             /\ a \in l.owed <=> a \in h.owed
  BY Zenon DEF Cleaned
<1> QED BY <1>1, <1>2, Zenon DEF Cleaned

(* What the invariant says of an attempt and of the holders. *)
LEMMA Facts ==
    ASSUME IInv
    PROVE  /\ hold \in Holds /\ hold.ready \subseteq hold.bytes
           /\ Signed \subseteq Ids /\ db \in Dbs /\ w \in Workers
  BY Zenon DEF IInv, Typed, Known, Shape, Holds

(* queue_variable_coding_lanes signs and queues an attempt, or finds one. *)
LEMMA EnqueueKeeps ==
    ASSUME IInv, Enqueue
    PROVE  IInv'
<1> USE DEF IInv
<1>1. ASSUME NEW g \in Geometries, NEW p \in Pairs, EnqueueNew(g, p)
      PROVE  IInv'
  <2>1. /\ UNCHANGED <<expired, guild, job, finding, hold, w, budget>>
        /\ db' = [db EXCEPT !.launch = @ \cup {New}, !.info = @ \cup {New}]
        /\ Sign(p, g, InitialIds(g) = {}) /\ open' = TRUE
    BY <1>1, Zenon DEF EnqueueNew
  <2>2. /\ New \in Ids /\ New \notin Signed /\ plans' \in Seq(Plans)
        /\ Signed' = Signed \cup {New} /\ Signed' \subseteq Ids
    BY <2>1, SignAdds, Zenon
  <2>3. /\ db' \in Dbs
        /\ db'.launch = db.launch \cup {New} /\ db'.info = db.info \cup {New}
        /\ \A f \in {"dispatched", "staged", "retry", "complete", "terminal", "child", "act",
                     "done", "replan", "retired", "renewed"} : db'[f] = db[f]
    BY <2>1, <2>2, Zenon DEF Typed, Dbs
  <2>4. /\ db'.dispatched = db.dispatched /\ db'.staged = db.staged /\ db'.retry = db.retry
        /\ db'.complete = db.complete /\ db'.terminal = db.terminal /\ db'.child = db.child
        /\ db'.act = db.act /\ db'.done = db.done /\ db'.replan = db.replan
        /\ db'.retired = db.retired /\ db'.renewed = db.renewed
    BY <2>3, Zenon
  <2>5. Typed'
    BY <2>1, <2>2, <2>3, Zenon DEF Typed
  <2>6. Budgeted'
    BY <2>1, BudgetKept, Zenon
  <2>7. Known'
    BY <2>1, <2>2, <2>3, <2>4, SMTT(30) DEF Known
  <2>8. Shape'
    BY <2>1, <2>2, <2>3, <2>4, ZenonT(30) DEF Shape, Known
  <2>9. Reported'
    BY <2>1, <2>4, Zenon DEF Reported
  <2>10. DbCalm
    BY <2>1, <2>3, <2>4, Zenon DEF DbCalm, Submitted
  <2> QED BY <2>1, <2>5, <2>6, <2>7, <2>8, <2>9, <2>10, SameHoldCalm, CalmStep, Zenon
<1>2. ASSUME NEW g \in Geometries, EnqueueCoalesced(g)
      PROVE  IInv'
  <2>1. /\ UNCHANGED <<plans, expired, guild, job, finding, hold, w, budget>>
        /\ db' = [db EXCEPT !.launch =
                    @ \ (InitialIds(g) \cap (db.retry \ db.retired))]
        /\ open' = TRUE
    BY <1>2, Zenon DEF EnqueueCoalesced
  <2>2. db' = [db EXCEPT !.launch = db.launch]
    BY <2>1 DEF Shape
  <2>3. db' = db
    BY <2>2 DEF Typed, Dbs
  <2>4. Typed' /\ Known' /\ Shape' /\ Reported'
    BY <2>1, <2>3, ZenonT(30) DEF Typed, Known, Shape, Reported, Signed
  <2>5. Budgeted'
    BY <2>1, BudgetKept, Zenon
  <2> QED BY <2>1, <2>3, <2>4, <2>5, SameDbCalm, SameHoldCalm, CalmStep, Zenon
<1> QED BY <1>1, <1>2, Zenon DEF Enqueue

(* Guild events and the clock touch no record of the lane. *)
LEMMA GuildKeeps ==
    ASSUME IInv, Guild \/ ChangeMembership \/ \E a \in Signed : Expire(a)
    PROVE  IInv'
<1> USE DEF IInv
<1>1. UNCHANGED <<plans, db, job, finding, hold, w>>
  BY Zenon DEF Guild, RetireGroup, ForgetGroup, ChangeMembership, Expire
<1>2. budget' = budget \/ \E kind \in FaultKinds : Fault(kind)
  BY Zenon DEF Guild, RetireGroup, ForgetGroup, ChangeMembership, Expire, FaultKinds
<1>7. /\ guild \in [epoch : Nat, placed : SUBSET Geometries, locked : MaybeIds,
                    group : [Geometries -> {"absent", "active", "retired"}]]
      /\ None \in MaybeIds
  BY Zenon DEF Typed, MaybeIds
<1>3. /\ guild' \in [epoch : Nat, placed : SUBSET Geometries, locked : MaybeIds,
                     group : [Geometries -> {"absent", "active", "retired"}]]
      /\ guild'.locked \in {guild.locked, None}
  <2>1. ASSUME NEW g \in Geometries, RetireGroup(g) \/ ForgetGroup(g)
        PROVE  <1>3
    <3>1. PICK x \in {"absent", "retired"} :
            guild' = [guild EXCEPT !.group[g] = x, !.locked = None]
      BY <2>1, Zenon DEF RetireGroup, ForgetGroup
    <3> QED BY <3>1, <1>7, Zenon
  <2>2. CASE ChangeMembership
    <3>1. PICK P \in SUBSET Geometries :
            guild' = [guild EXCEPT !.epoch = @ + 1, !.placed = P, !.locked = None]
      BY <2>2, Zenon DEF ChangeMembership
    <3>2. guild.epoch + 1 \in Nat
      BY <1>7
    <3>3. /\ guild'.epoch = guild.epoch + 1 /\ guild'.placed = P /\ guild'.locked = None
          /\ guild'.group = guild.group
          /\ guild' = [epoch |-> guild'.epoch, placed |-> guild'.placed,
                       locked |-> guild'.locked, group |-> guild'.group]
      BY <3>1, <1>7, Zenon
    <3> QED BY <3>2, <3>3, <1>7
  <2>3. ASSUME NEW a \in Signed, Expire(a)
        PROVE  guild' = guild
    BY <2>3, Zenon DEF Expire
  <2> QED BY <1>7, <2>1, <2>2, <2>3, Zenon DEF Guild
<1>4. expired' \in SUBSET Ids /\ expired' \subseteq Signed /\ open' \in BOOLEAN
  BY Zenon DEF Guild, RetireGroup, ForgetGroup, ChangeMembership, Expire, Typed, Known
<1>5. Typed' /\ Known' /\ Shape' /\ Reported'
  BY <1>1, <1>3, <1>4, Zenon DEF Typed, Known, Shape, Reported, Signed
<1>6. Budgeted'
  BY <1>2, BudgetKept, Zenon
<1> QED BY <1>1, <1>5, <1>6, SameDbCalm, SameHoldCalm, CalmStep, Zenon

-----------------------------------------------------------------------------
(* The coder and the holders.                                              *)

(* A coder's step on a job it has not reported is one on an attempt that   *)
(* neither failed nor has a result.                                        *)
LEMMA Unreported ==
    ASSUME Reported, NEW a, job[a] \in {"none", "Pending", "Running", "Staged", "Cleanup"}
    PROVE  a \notin db.act /\ a \notin db.retry
  BY DEF Reported

(* The coder takes up, verifies or drops work, and the records stay. *)
LEMMA JobMoves ==
    ASSUME IInv, NEW a \in Signed, NEW s \in Alive,
           job[a] \in {"Pending", "Running", "Staged", "Cleanup"},
           job' = [job EXCEPT ![a] = s],
           finding' \in [Ids -> {"none", "verified", "invalid"}],
           UNCHANGED <<plans, expired, guild, db, hold, w, open>>,
           budget' = budget \/ \E kind \in FaultKinds : Fault(kind)
    PROVE  IInv'
<1> USE DEF IInv
<1>1. a \in Ids /\ Alive \subseteq JobStates /\ job \in [Ids -> JobStates]
  BY DEF Known, Alive, JobStates, Typed
<1>2. job' \in [Ids -> JobStates] /\ job'[a] = s /\ \A b \in Ids \ {a} : job'[b] = job[b]
  BY <1>1
<1>3. Typed' /\ Known' /\ Shape'
  BY <1>2, Zenon DEF Typed, Known, Shape, Signed
<1>4. Budgeted'
  BY BudgetKept, Zenon
<1>5. db.act \subseteq Ids /\ db.retry \subseteq Ids /\ hold.bytes \subseteq Ids
  BY DEF Typed, Dbs
<1>6. Reported'
  BY <1>2, <1>5, Unreported, Zenon DEF Reported
<1>7. job[a] \in Alive
  BY DEF Alive
<1>8. Calm
  BY <1>2, <1>5, <1>7, SameDbCalm, Zenon DEF Calm, Settled
<1> QED BY <1>3, <1>4, <1>6, <1>8, CalmStep, Zenon

(* process_delegated_coding_job up to the verdict. *)
LEMMA CoderWorks ==
    ASSUME IInv, NEW a \in Signed, CoderStart(a) \/ CoderVerdict(a) \/ CoderInterrupt(a)
    PROVE  IInv'
<1>1. a \in Ids /\ finding \in [Ids -> {"none", "verified", "invalid"}]
  BY Zenon DEF IInv, Known, Typed
<1>2. CASE CoderStart(a)
  <2>1. \E s \in Alive : job' = [job EXCEPT ![a] = s]
    BY <1>2, Zenon DEF CoderStart, Become, Alive
  <2>2. /\ job[a] \in {"Pending", "Running", "Staged", "Cleanup"}
        /\ UNCHANGED <<plans, expired, guild, db, hold, w, open>>
        /\ finding' = finding /\ budget' = budget
    BY <1>2, Zenon DEF CoderStart
  <2> QED BY <1>1, <2>1, <2>2, JobMoves, Zenon
<1>3. CASE CoderVerdict(a)
  <2>1. \E s \in Alive : job' = [job EXCEPT ![a] = s]
    BY <1>3, Zenon DEF CoderVerdict, Become, Alive
  <2>2. /\ job[a] \in {"Pending", "Running", "Staged", "Cleanup"}
        /\ UNCHANGED <<plans, expired, guild, db, hold, w, open>>
        /\ budget' = budget \/ Fault("invalid")
        /\ \E v \in {"verified", "invalid"} : finding' = [finding EXCEPT ![a] = v]
    BY <1>3, Zenon DEF CoderVerdict
  <2>3. finding' \in [Ids -> {"none", "verified", "invalid"}]
    BY <1>1, <2>2
  <2>4. "invalid" \in FaultKinds
    BY DEF FaultKinds
  <2> QED BY <2>1, <2>2, <2>3, <2>4, JobMoves, Zenon
<1>4. CASE CoderInterrupt(a)
  <2>1. \E s \in Alive : job' = [job EXCEPT ![a] = s]
    BY <1>4, Zenon DEF CoderInterrupt, Become, Alive
  <2>2. /\ job[a] \in {"Pending", "Running", "Staged", "Cleanup"}
        /\ UNCHANGED <<plans, expired, guild, db, hold, w, open>>
        /\ finding' = finding /\ Fault("crash")
    BY <1>4, Zenon DEF CoderInterrupt
  <2>3. "crash" \in FaultKinds
    BY DEF FaultKinds
  <2> QED BY <1>1, <2>1, <2>2, <2>3, JobMoves, Zenon
<1> QED BY <1>2, <1>3, <1>4, Zenon

(* execute_delegated_coding stages bytes that the running job answers for. *)
LEMMA CoderUploadKeeps ==
    ASSUME IInv, NEW a \in Signed, CoderUpload(a)
    PROVE  IInv'
<1> USE DEF IInv
<1>1. /\ job[a] = "Running" /\ hold' = [hold EXCEPT !.bytes = @ \cup {a}]
      /\ job' = [job EXCEPT ![a] = "Staged"]
      /\ UNCHANGED <<plans, expired, guild, db, finding, w, budget, open>>
  BY Zenon DEF CoderUpload, Become
<1>2. a \in Ids /\ hold \in Holds /\ hold.ready \subseteq hold.bytes
  BY Facts
<1>3. hold' \in Holds /\ hold'.bytes = hold.bytes \cup {a} /\ hold'.ready = hold.ready /\ hold'.owed = hold.owed
  BY <1>1, <1>2 DEF Holds
<1>4. /\ job' \in [Ids -> JobStates] /\ job'[a] = "Staged" /\ \A b \in Ids \ {a} : job'[b] = job[b]
  BY <1>1, <1>2 DEF Typed, JobStates
<1>5. Typed' /\ Known' /\ Shape'
  BY <1>1, <1>2, <1>3, <1>4, Zenon DEF Typed, Known, Shape, Signed, Holds
<1>6. Budgeted'
  BY <1>1, BudgetKept, Zenon
<1>7. db.act \subseteq Ids /\ db.retry \subseteq Ids /\ hold'.bytes \subseteq Ids
  BY <1>3 DEF Typed, Dbs, Holds
<1>8. a \notin db.act /\ a \notin db.retry
  BY <1>1, Unreported
<1>9. Reported'
  BY <1>1, <1>4, <1>7, <1>8, Zenon DEF Reported
<1>10. Settled(a)'
  BY <1>4 DEF Settled, Alive
<1>11. ASSUME NEW b \in hold'.bytes, b # a
       PROVE  b \in hold.bytes /\ b \in Ids /\ (Settled(b) => Settled(b)')
  BY <1>1, <1>3, <1>4, <1>7, <1>11, Zenon DEF Settled
<1>13. ASSUME NEW b \in hold'.bytes
       PROVE  /\ (b \in hold.bytes => Settled(b)) => Settled(b)'
              /\ b \in db.act \cup db.retry /\ (b \in hold.bytes => b \in hold.owed)
                   => b \in hold'.owed
              /\ b \in db.act /\ (b \in hold.bytes => b \in hold.ready \cup hold.owed)
                   => b \in hold'.ready \cup hold'.owed
  <2>1. CASE b = a
    BY <1>8, <1>10, <2>1, Zenon
  <2>2. CASE b # a
    BY <1>3, <1>11, <2>2, Zenon
  <2> QED BY <2>1, <2>2, Zenon
<1>12. Calm
  BY <1>1, <1>13, SameDbCalm, Zenon DEF Calm
<1> QED BY <1>1, <1>5, <1>6, <1>9, <1>12, CalmStep, Zenon

(* A cleanup at the holders, whatever became of the job. *)
LEMMA CleanKeeps ==
    ASSUME IInv, NEW a \in Signed, Cleaned(hold, hold', a),
           \A b \in Ids \ {a} : job'[b] = job[b], job' \in [Ids -> JobStates],
           Reported', DbCalm, Typed', Known', Shape', w' = w,
           budget' = budget \/ \E kind \in FaultKinds : Fault(kind)
    PROVE  IInv'
<1>1. a \in Ids /\ Typed /\ Budgeted
  BY Zenon DEF IInv, Known
<1>2. Budgeted'
  BY <1>1, BudgetKept, Zenon
<1> QED BY <1>1, <1>2, CleanCalm, CalmStep, Zenon

(* A cleanup that leaves the delegator's records alone. *)
LEMMA CleanTyped ==
    ASSUME IInv, NEW a \in Signed, Cleaned(hold, hold', a),
           job' \in [Ids -> JobStates],
           UNCHANGED <<plans, expired, guild, db, finding, w, open>>
    PROVE  Typed' /\ Known' /\ Shape' /\ DbCalm
<1>1. hold' \in Holds /\ hold'.ready \subseteq hold'.bytes
  BY Zenon DEF Cleaned
<1>2. Typed' /\ Known' /\ Shape'
  BY <1>1, Zenon DEF IInv, Typed, Known, Shape, Signed, Holds
<1> QED BY <1>2, SameDbCalm, Zenon

(* process_coding_holder_cleanup_job. *)
LEMMA HolderKeeps ==
    ASSUME IInv, NEW a \in Signed, HolderCleanup(a)
    PROVE  IInv'
<1>1. /\ hold' = Discard(hold, a)
      /\ UNCHANGED <<plans, expired, guild, db, job, finding, w, budget, open>>
  BY Zenon DEF HolderCleanup
<1>2. a \in Ids /\ Cleaned(hold, hold', a)
  BY <1>1, Facts, DiscardCleans, Zenon
<1>3. Reported' /\ job' \in [Ids -> JobStates]
  BY <1>1, Zenon DEF IInv, Reported, Typed
<1> QED BY <1>1, <1>2, <1>3, CleanTyped, CleanKeeps, Zenon

(* A coder that gives up discards its bytes before it reports. *)
LEMMA CoderGivesUp ==
    ASSUME IInv, NEW a \in Signed, CoderFail(a) \/ CoderCleanup(a)
    PROVE  IInv'
<1>1. a \in Ids /\ Cleaned(hold, Discard(hold, a), a) /\ job \in [Ids -> JobStates]
  BY Facts, DiscardCleans, Zenon DEF IInv, Typed
<1>2. /\ UNCHANGED <<plans, expired, guild, db, finding, w, open>>
      /\ job[a] \in {"Pending", "Running", "Staged", "Cleanup"}
      /\ budget' = budget \/ Fault("fail") \/ Fault("unreachable")
      /\ \/ hold' = Discard(hold, a) /\ job' = [job EXCEPT ![a] = "ReportingFailure"]
         \/ hold' = hold /\ job' = [job EXCEPT ![a] = "Cleanup"]
  BY Zenon DEF CoderFail, CoderCleanup, Become
<1>3. "fail" \in FaultKinds /\ "unreachable" \in FaultKinds /\ "Cleanup" \in Alive
  BY DEF FaultKinds, Alive
<1>4. CASE hold' = hold /\ job' = [job EXCEPT ![a] = "Cleanup"]
  <2>1. finding' \in [Ids -> {"none", "verified", "invalid"}]
    BY <1>2, Zenon DEF IInv, Typed
  <2> QED BY <1>2, <1>3, <1>4, <2>1, JobMoves, Zenon
<1>5. CASE hold' = Discard(hold, a) /\ job' = [job EXCEPT ![a] = "ReportingFailure"]
  <2>1. /\ job' \in [Ids -> JobStates] /\ \A b \in Ids \ {a} : job'[b] = job[b]
        /\ job'[a] = "ReportingFailure"
    BY <1>1, <1>5 DEF JobStates
  <2>2. a \notin db.act /\ a \notin db.retry
    BY <1>2, Unreported DEF IInv
  <2>3. db.act \subseteq Ids /\ db.retry \subseteq Ids
    BY Facts DEF Dbs
  <2>4. Reported'
    BY <1>2, <2>1, <2>2, <2>3, Zenon DEF IInv, Reported
  <2> QED BY <1>1, <1>2, <1>3, <1>5, <2>1, <2>4, CleanTyped, CleanKeeps, Zenon
<1> QED BY <1>2, <1>4, <1>5, Zenon

(* accept_coding_failure makes a retry of an attempt, once. *)
LEMMA CoderReportKeeps ==
    ASSUME IInv, NEW a \in Signed, CoderReport(a)
    PROVE  IInv'
<1> DEFINE parents == {r \in db.retry : db.child[r] = a}
<1> USE DEF IInv
<1>1. /\ job[a] = "ReportingFailure" /\ db' = AcceptFailure(a)
      /\ job' = [job EXCEPT ![a] = "Complete"] \/ job' = job
      /\ budget' = budget \/ Fault("lost")
      /\ UNCHANGED <<plans, expired, guild, finding, hold, w, open>>
  BY Zenon DEF CoderReport, Become
<1>2. a \in Ids /\ db \in Dbs /\ job \in [Ids -> JobStates]
  BY Facts, Zenon DEF Typed
<1>3. /\ job' \in [Ids -> JobStates] /\ \A b \in Ids \ {a} : job'[b] = job[b]
      /\ job'[a] \in {"ReportingFailure", "Complete"}
  BY <1>1, <1>2 DEF JobStates
<1>4. a \notin db.act
  BY <1>1 DEF Reported
<1>5. Budgeted'
  BY <1>1, BudgetKept DEF FaultKinds
<1>6. ASSUME NEW b
      PROVE  Settled(b) /\ b \in Ids /\ db.act \ db.done \subseteq db'.act \ db'.done
             /\ db.retry \ db.complete \subseteq db'.retry \ db'.complete
             /\ db'.done = db.done => Settled(b)'
  <2>1. job[a] \notin Alive
    BY <1>1 DEF Alive
  <2> QED BY <1>1, <1>3, <2>1, Zenon DEF Settled
<1>7. CASE a \in db.retired \cup db.retry
  <2>1. db' = db
    BY <1>1, <1>7, Zenon DEF AcceptFailure
  <2>2. Typed' /\ Known' /\ Shape'
    BY <1>1, <1>3, <2>1, SMTT(30) DEF Typed, Known, Shape, Signed
  <2>3. db.act \subseteq Ids /\ db.retry \subseteq Ids /\ hold.bytes \subseteq Ids
    BY Facts DEF Dbs, Holds
  <2>4. Reported'
    BY <1>3, <1>4, <2>1, <2>3, Zenon DEF Reported
  <2>5. Calm
    BY <1>1, <1>6, <2>1, <2>3, SameDbCalm, Zenon DEF Calm
  <2> QED BY <1>1, <1>5, <2>2, <2>4, <2>5, CalmStep, Zenon
<1>8. CASE a \notin db.retired \cup db.retry
  <2> HIDE DEF parents
  <2>1. db' = [db EXCEPT !.retry = @ \cup {a}, !.launch = @ \ {a},
                       !.dispatched = @ \ {a}, !.terminal = @ \cup parents,
                       !.info = @ \ parents, !.staged = @ \ (parents \cup {a})]
    BY <1>1, <1>8, Zenon DEF AcceptFailure, parents
  <2>2. /\ parents \subseteq db.retry /\ \A r \in parents : db.child[r] = a
        /\ parents \subseteq Ids
    BY <1>2 DEF parents, Dbs
  <2>3. /\ db' \in Dbs /\ db'.retry = db.retry \cup {a} /\ db'.launch = db.launch \ {a}
        /\ db'.dispatched = db.dispatched \ {a} /\ db'.terminal = db.terminal \cup parents
        /\ db'.info = db.info \ parents /\ db'.staged = db.staged \ (parents \cup {a})
        /\ db'.complete = db.complete /\ db'.child = db.child
    BY <1>2, <2>1, <2>2, Zenon DEF Dbs
  <2>4. /\ db'.act = db.act /\ db'.done = db.done /\ db'.replan = db.replan
        /\ db'.retired = db.retired /\ db'.renewed = db.renewed
    BY <1>2, <2>1 DEF Dbs
  <2>5. Typed'
    BY <1>1, <1>3, <2>3, Zenon DEF Typed
  <2>6. Known'
    BY <1>1, <2>3, <2>4, SMTT(30) DEF Known, Signed
  <2>7. Shape'
    BY <1>1, <2>2, <2>3, <2>4, SMTT(30) DEF Shape
  <2>8. db.act \subseteq Ids /\ db.retry \subseteq Ids /\ hold.bytes \subseteq Ids
    BY Facts DEF Dbs, Holds
  <2>9. Reported'
    BY <1>3, <1>4, <2>3, <2>4, <2>8, SMTT(30) DEF Reported
  <2>10. DbCalm
    <3>1. /\ db.launch \subseteq db'.launch \cup db'.retry /\ db.retry \subseteq db'.retry
      BY <2>3
    <3>2. \A b \in db.retired : Submitted(b)' => Submitted(b)
      BY <1>8, <2>3, <2>4 DEF Submitted
    <3>3. \A r \in db'.terminal : r \in db.terminal \/ Submitted(db.child[r])'
      BY <2>2, <2>3 DEF Submitted
    <3> QED BY <1>1, <2>3, <2>4, <3>1, <3>2, <3>3, Zenon DEF DbCalm
  <2>11. \A b \in hold'.bytes : Settled(b) => Settled(b)'
    <3>1. db.retry \ db.complete \subseteq db'.retry \ db'.complete
      BY <2>3
    <3> QED BY <1>1, <1>6, <2>4, <2>8, <3>1, Zenon
  <2>12. Calm
    BY <1>1, <2>10, <2>11, Zenon DEF Calm
  <2> QED BY <1>1, <1>5, <2>5, <2>6, <2>7, <2>9, <2>12, CalmStep, Zenon
<1> QED BY <1>7, <1>8, Zenon

(* abort_stale_delegated_coding discards the bytes or records the cleanup. *)
LEMMA StaleCleans ==
    ASSUME IInv, NEW a \in Ids, DiscardStale(a)
    PROVE  Cleaned(hold, hold', a)
<1>1. hold \in Holds /\ hold.ready \subseteq hold.bytes
  BY Facts, Zenon
<1>2. CASE hold' = Discard(hold, a)
  BY <1>1, <1>2, DiscardCleans, Zenon
<1>3. CASE hold' = [hold EXCEPT !.owed = @ \cup {a}]
  BY <1>1, <1>3, OwedCleans, Zenon
<1> QED BY <1>2, <1>3, Zenon DEF DiscardStale

(* accept_coding_transcript records a result, once, unless the attempt was *)
(* retired; then its bytes are discarded or their removal is recorded.     *)
LEMMA CoderSubmitKeeps ==
    ASSUME IInv, NEW a \in Signed, CoderSubmit(a)
    PROVE  IInv'
<1> USE DEF IInv
<1>1. a \in Ids /\ db \in Dbs /\ job \in [Ids -> JobStates] /\ hold \in Holds
      /\ hold.ready \subseteq hold.bytes
  BY Facts, Zenon DEF Typed
<1>2. /\ job[a] = "Submitting" /\ (job' = [job EXCEPT ![a] = "Complete"] \/ job' = job)
      /\ UNCHANGED <<plans, expired, guild, finding, w, open>>
      /\ budget' = budget \/ Fault("lost") \/ Fault("unreachable")
  BY Zenon DEF CoderSubmit, Become, DiscardStale
<1>3. /\ job' \in [Ids -> JobStates] /\ \A b \in Ids \ {a} : job'[b] = job[b]
      /\ job'[a] \in {"Submitting", "Complete"} /\ job[a] = "Submitting"
  BY <1>1, <1>2, Zenon DEF CoderSubmit, JobStates, Become
<1>4. a \notin db.retry
  BY <1>3 DEF Reported
<1>5. Budgeted'
  BY <1>2, BudgetKept DEF FaultKinds
<1>6. db.act \subseteq Ids /\ db.retry \subseteq Ids /\ hold.bytes \subseteq Ids
  BY <1>1 DEF Dbs, Holds
<1>7. CASE /\ a \notin db.retired /\ db' = [db EXCEPT !.act = @ \cup {a}]
           /\ hold' = hold
  <2>1. /\ db' \in Dbs /\ db'.act = db.act \cup {a} /\ db'.launch = db.launch
        /\ db'.dispatched = db.dispatched /\ db'.info = db.info /\ db'.staged = db.staged
        /\ db'.retry = db.retry /\ db'.complete = db.complete /\ db'.terminal = db.terminal
        /\ db'.child = db.child
    BY <1>1, <1>7, Zenon DEF Dbs
  <2>2. /\ db'.done = db.done /\ db'.replan = db.replan /\ db'.retired = db.retired
        /\ db'.renewed = db.renewed
    BY <1>1, <1>7 DEF Dbs
  <2>3. Typed'
    BY <1>2, <1>3, <1>7, <2>1, Zenon DEF Typed
  <2>4. Known'
    BY <1>2, <2>1, <2>2, SMTT(30) DEF Known, Signed
  <2>5. Shape'
    BY <1>7, <2>1, <2>2, SMTT(30) DEF Shape
  <2>6. Reported'
    BY <1>3, <1>4, <1>6, <2>1, SMTT(30) DEF Reported
  <2>7. DbCalm
    <3>1. \A b \in db.retired : Submitted(b)' => Submitted(b)
      BY <1>7, <2>1, <2>2 DEF Submitted
    <3> QED BY <1>2, <2>1, <2>2, <3>1, SMTT(30) DEF DbCalm
  <2>8. ASSUME NEW b \in hold'.bytes, Settled(b)
        PROVE  Settled(b)'
    <3>1. CASE b = a
      <4>1. a \in db.done => a \in hold.ready \cup hold.owed
        BY <1>7, <3>1, Zenon DEF Stored
      <4> QED BY <1>7, <2>1, <2>2, <3>1, <4>1 DEF Settled
    <3>2. CASE b # a
      BY <1>3, <1>6, <1>7, <2>1, <2>2, <2>8, <3>2, SMTT(30) DEF Settled
    <3> QED BY <3>1, <3>2, Zenon
  <2>9. Calm
    BY <1>7, <2>7, <2>8, Zenon DEF Calm
  <2> QED BY <1>2, <1>5, <2>3, <2>4, <2>5, <2>6, <2>9, CalmStep, Zenon
<1>8. CASE a \in db.retired /\ DiscardStale(a) /\ db' = db
  <2>1. Cleaned(hold, hold', a)
    BY <1>1, <1>8, StaleCleans, Zenon
  <2>2. Reported'
    BY <1>3, <1>4, <1>6, <1>8, SMTT(30) DEF Reported
  <2>3. Typed' /\ Known' /\ Shape' /\ DbCalm
    BY <1>2, <1>3, <1>8, <2>1, CleanTyped, Zenon
  <2>4. Calm
    BY <1>1, <1>3, <2>1, <2>3, CleanCalm, Zenon
  <2> QED BY <1>2, <1>5, <2>2, <2>3, <2>4, CalmStep, Zenon
<1> QED BY <1>7, <1>8, Zenon DEF CoderSubmit

(* A coder's job of an old epoch ends when its attempt is fenced and its   *)
(* bytes are discarded or owed.                                            *)
LEMMA CoderStaleKeeps ==
    ASSUME IInv, NEW a \in Signed, CoderStale(a)
    PROVE  IInv'
<1> USE DEF IInv
<1>1. a \in Ids /\ db \in Dbs /\ job \in [Ids -> JobStates] /\ hold \in Holds
      /\ hold.ready \subseteq hold.bytes
  BY Facts, Zenon DEF Typed
<1>2. /\ job[a] \in {"Pending", "Running", "Cleanup"}
      /\ job' = [job EXCEPT ![a] = "Complete"] /\ db' = Fence(db, a)
      /\ UNCHANGED <<plans, expired, guild, finding, w, open>>
      /\ DiscardStale(a) /\ (budget' = budget \/ Fault("unreachable"))
  BY Zenon DEF CoderStale, Become, DiscardStale
<1>3. /\ job' \in [Ids -> JobStates] /\ \A b \in Ids \ {a} : job'[b] = job[b]
  BY <1>1, <1>2 DEF JobStates
<1>4. a \notin db.act /\ a \notin db.retry
  BY <1>2, Unreported
<1>5. Budgeted'
  BY <1>2, BudgetKept DEF FaultKinds
<1>6. db' = [db EXCEPT !.retired = @ \cup {a}]
  BY <1>2, <1>4, Zenon DEF Fence, VerifiedResult
<1>7. /\ db' \in Dbs /\ db'.act = db.act /\ db'.launch = db.launch
      /\ db'.dispatched = db.dispatched /\ db'.info = db.info /\ db'.staged = db.staged
      /\ db'.retry = db.retry /\ db'.complete = db.complete /\ db'.terminal = db.terminal
      /\ db'.child = db.child
  BY <1>1, <1>6 DEF Dbs
<1>8. /\ db'.done = db.done /\ db'.replan = db.replan /\ db'.retired = db.retired \cup {a}
      /\ db'.renewed = db.renewed
  BY <1>1, <1>6 DEF Dbs
<1>9. Cleaned(hold, hold', a)
  BY <1>1, <1>2, StaleCleans, Zenon
<1>10. hold' \in Holds /\ hold'.ready \subseteq hold'.bytes
  BY <1>9, Zenon DEF Cleaned
<1>11. Typed'
  BY <1>2, <1>3, <1>7, <1>10, Zenon DEF Typed, Holds
<1>12. Known'
  BY <1>2, <1>7, <1>8, SMTT(30) DEF Known, Signed
<1>13. Shape'
  BY <1>7, <1>8, <1>10, Zenon DEF Shape
<1>14. Reported'
  <2>1. db.act \subseteq Ids /\ db.retry \subseteq Ids
    BY <1>1 DEF Dbs
  <2> QED BY <1>3, <1>4, <1>7, <2>1, Zenon DEF Reported
<1>15. DbCalm
  BY <1>2, <1>7, <1>8, Zenon DEF DbCalm, Submitted
<1>16. Calm
  BY <1>1, <1>3, <1>9, <1>15, CleanCalm, Zenon
<1> QED BY <1>2, <1>5, <1>11, <1>12, <1>13, <1>14, <1>16, CalmStep, Zenon

(* Every step of a coder. *)
LEMMA CoderKeeps ==
    ASSUME IInv, NEW a \in Signed, Coder(a)
    PROVE  IInv'
<1>1. CASE CoderStart(a) \/ CoderVerdict(a) \/ CoderInterrupt(a)
  BY <1>1, CoderWorks, Zenon
<1>2. CASE CoderUpload(a)
  BY <1>2, CoderUploadKeeps, Zenon
<1>3. CASE CoderFail(a) \/ CoderCleanup(a)
  BY <1>3, CoderGivesUp, Zenon
<1>4. CASE CoderReport(a)
  BY <1>4, CoderReportKeeps, Zenon
<1>5. CASE CoderSubmit(a)
  BY <1>5, CoderSubmitKeeps, Zenon
<1>6. CASE CoderStale(a)
  BY <1>6, CoderStaleKeeps, Zenon
<1> QED BY <1>1, <1>2, <1>3, <1>4, <1>5, <1>6, Zenon DEF Coder

-----------------------------------------------------------------------------
(* The worker's steps that only move it on.                                *)

CoreSame ==
    /\ db'.launch = db.launch /\ db'.retry = db.retry
    /\ db'.complete = db.complete /\ db'.terminal = db.terminal
    /\ db'.child = db.child /\ db'.act = db.act /\ db'.done = db.done

Quiet == CoreSame /\ hold' = hold /\ job' = job

(* What a quiet step keeps. *)
LEMMA QuietStored ==
    ASSUME IInv, Quiet
    PROVE  /\ Reported' /\ Closed' /\ Stored'
           /\ \A a : Settled(a)' <=> Settled(a)
           /\ \A a : Submitted(a)' <=> Submitted(a)
<1>1. \A a : Submitted(a)' <=> Submitted(a)
  BY Zenon DEF Quiet, CoreSame, Submitted
<1>2. \A a : Settled(a)' <=> Settled(a)
  BY Zenon DEF Quiet, CoreSame, Settled
<1>3. \A a : Named(a)' <=> Named(a)
  BY <1>1, Zenon DEF Quiet, CoreSame, Named
<1>4. Reported'
  BY Zenon DEF IInv, Reported, Quiet, CoreSame
<1>5. Closed'
  BY <1>1, Zenon DEF IInv, Closed, Quiet, CoreSame
<1>6. Stored'
  BY <1>2, <1>3, Zenon DEF IInv, Stored, Quiet, CoreSame
<1> QED BY <1>1, <1>2, <1>4, <1>5, <1>6, Zenon

LEMMA QuietStep ==
    ASSUME IInv, Quiet, Typed', Known', Shape', Claimed', Aborts', Aborted',
           budget' = budget \/ \E kind \in FaultKinds : Fault(kind)
    PROVE  IInv'
<1>1. Budgeted'
  BY BudgetKept, Zenon DEF IInv
<1> QED BY <1>1, QuietStored, Zenon DEF IInv

(* A worker that is idle relies on nothing. *)
LEMMA IdleClaims ==
    ASSUME w' = Idle
    PROVE  /\ Claimed' /\ Aborts' /\ Aborted'
           /\ w' \in Workers /\ w'.a = None /\ w'.c = None /\ w'.t = None
<1>1. /\ w'.pc = "idle" /\ w'.a = None /\ w'.c = None /\ w'.t = None /\ w'.next = "idle"
  BY DEF Idle
<1>2. w' \in Workers
  BY DEF Idle, Workers, Pcs, MaybeIds
<1>3. At' = "idle"
  BY <1>1 DEF At
<1>4. Claimed'
  BY <1>3 DEF Claimed, RetryPcs, LaunchPcs, ActPcs
<1>5. Aborts' /\ Aborted'
  BY <1>1, <1>3 DEF Aborts, Aborted, RetryPcs
<1> QED BY <1>1, <1>2, <1>4, <1>5, Zenon

(* A crash of the delegator loses only the worker's place. *)
LEMMA CrashKeeps ==
    ASSUME IInv, Crash
    PROVE  IInv'
<1>1. /\ w' = Idle /\ Fault("crash")
      /\ UNCHANGED <<plans, expired, guild, db, job, finding, hold, open>>
  BY Zenon DEF Crash
<1>2. "crash" \in FaultKinds
  BY DEF FaultKinds
<1>3. Typed' /\ Known' /\ Shape'
  BY <1>1, IdleClaims, Zenon DEF IInv, Typed, Known, Shape, Signed
<1>4. Quiet
  BY <1>1, Zenon DEF Quiet, CoreSame
<1> QED BY <1>1, <1>2, <1>3, <1>4, IdleClaims, QuietStep, Zenon

(* retire_coding_retry_plan changes the retired attempts alone. *)
LEMMA Fenced ==
    ASSUME db \in Dbs, NEW t \in Ids, db' = Fence(db, t)
    PROVE  /\ db' \in Dbs /\ CoreSame
           /\ db'.dispatched = db.dispatched /\ db'.info = db.info
           /\ db'.staged = db.staged /\ db'.replan = db.replan
           /\ db'.renewed = db.renewed /\ db.retired \subseteq db'.retired
           /\ db'.retired \subseteq db.retired \cup {t}
           /\ t \notin db.act => t \in db'.retired
<1>1. CASE VerifiedResult(t)
  <2>1. db' = db /\ t \in db.act
    BY <1>1, Zenon DEF Fence, VerifiedResult
  <2> QED BY <2>1, Zenon DEF CoreSame
<1>2. CASE ~VerifiedResult(t)
  <2>1. db' = [db EXCEPT !.retired = @ \cup {t}]
    BY <1>2, Zenon DEF Fence
  <2> QED BY <2>1 DEF Dbs, CoreSame
<1> QED BY <1>1, <1>2, Zenon

(* A worker's step that fences an attempt keeps the types. *)
LEMMA FencedTyped ==
    ASSUME IInv, NEW t \in Signed, db' = Fence(db, t), w' \in Workers,
           w'.a \in Signed \cup {None}, w'.c \in Signed \cup {None},
           w'.t \in Signed \cup {None},
           UNCHANGED <<plans, expired, guild, job, finding, hold, open>>
    PROVE  Typed' /\ Known' /\ Shape' /\ Quiet
<1>1. t \in Ids /\ db \in Dbs
  BY Facts, Zenon
<1>2. /\ db' \in Dbs /\ CoreSame
      /\ db'.dispatched = db.dispatched /\ db'.info = db.info
      /\ db'.staged = db.staged /\ db'.replan = db.replan
      /\ db'.renewed = db.renewed /\ db'.retired \subseteq db.retired \cup {t}
  BY <1>1, Fenced, Zenon
<1>3. Typed'
  BY <1>2, Zenon DEF IInv, Typed
<1>4. db'.retired \subseteq Signed
  BY <1>2, Zenon DEF IInv, Known
<1>5. Known'
  BY <1>2, <1>4, Zenon DEF IInv, Known, Signed, CoreSame
<1>6. Shape'
  BY <1>2, Zenon DEF IInv, Shape, CoreSame
<1> QED BY <1>2, <1>3, <1>5, <1>6, Zenon DEF Quiet

(* The same for a step that writes nothing. *)
LEMMA SilentTyped ==
    ASSUME IInv, db' = db, w' \in Workers,
           w'.a \in Signed \cup {None}, w'.c \in Signed \cup {None},
           w'.t \in Signed \cup {None},
           UNCHANGED <<plans, expired, guild, job, finding, hold, open>>
    PROVE  Typed' /\ Known' /\ Shape' /\ Quiet
<1>1. Typed' /\ Shape'
  BY Zenon DEF IInv, Typed, Shape
<1>2. Known'
  BY Zenon DEF IInv, Known, Signed
<1> QED BY <1>1, <1>2, Zenon DEF Quiet, CoreSame

-----------------------------------------------------------------------------
(* The worker's retries.                                                   *)

(* The worker on its way into abort_delegated_coding_with_policy. *)
LEMMA AbortingWorker ==
    ASSUME w \in Workers, NEW t \in MaybeIds, NEW next \in Pcs,
           NEW policy \in {"fenced", "stale", "strict"},
           NEW k, k = Aborting(t, policy, next)
    PROVE  /\ k \in Workers /\ k.pc = "abort" /\ k.t = t /\ k.next = next
           /\ k.policy = policy /\ k.a = w.a /\ k.c = w.c /\ k.ok = w.ok
           /\ k.e = w.e
  BY Zenon DEF Aborting, Workers, Pcs

(* cleanup_coding_retry_plan fences the failed parent first. *)
LEMMA RetryStartKeeps ==
    ASSUME IInv, RetryStart
    PROVE  IInv'
<1> USE DEF IInv
<1>1. /\ w.pc = "retryStart" /\ db' = Fence(db, w.a)
      /\ UNCHANGED <<plans, expired, guild, job, finding, hold, budget, open>>
      /\ \E x \in {"retryDrop", "retryPick"} : w' = Aborting(w.a, "fenced", x)
  BY DEF RetryStart
<1>2. PICK x \in {"retryDrop", "retryPick"} : w' = Aborting(w.a, "fenced", x)
  BY <1>1, Zenon
<1>3. x \in Pcs /\ w \in Workers /\ w.a \in MaybeIds
  BY Facts DEF Pcs, RetryPcs, Workers
<1>4. /\ w' \in Workers /\ w'.pc = "abort" /\ w'.t = w.a /\ w'.next = x
      /\ w'.policy = "fenced" /\ w'.a = w.a /\ w'.c = w.c /\ w'.ok = w.ok
  BY <1>2, <1>3, AbortingWorker
<1>5. At = "retryStart" /\ At' = x
  BY <1>1, <1>4 DEF At
<1>6. /\ w.a \in db.retry /\ w.a \notin db.complete /\ ~w.ok /\ w.c = db.child[w.a]
  BY <1>5 DEF Claimed, RetryPcs
<1>7. w.a \in Signed /\ w.c \in Signed \cup {None}
  BY <1>6, Zenon DEF Known
<1>8. Typed' /\ Known' /\ Shape' /\ Quiet
  BY <1>1, <1>4, <1>7, FencedTyped, Zenon
<1>9. Claimed'
  BY <1>4, <1>5, <1>6, <1>8 DEF Claimed, Quiet, CoreSame, RetryPcs, LaunchPcs, ActPcs
<1>10. Aborts' /\ Aborted'
  BY <1>4, <1>5 DEF Aborts, Aborted
<1> QED BY <1>1, <1>8, <1>9, <1>10, QuietStep, Zenon

(* A replaced or stale retry aborts its child, unless the child has a      *)
(* verified result.                                                        *)
LEMMA RetryDropKeeps ==
    ASSUME IInv, RetryDrop
    PROVE  IInv'
<1> USE DEF IInv
<1>1. /\ w.pc = "retryDrop" /\ db' = IF w.c = None THEN db ELSE Fence(db, w.c)
      /\ UNCHANGED <<plans, expired, guild, job, finding, hold, budget, open>>
      /\ \/ /\ w.c = None \/ VerifiedResult(w.c)
            /\ w' = [w EXCEPT !.pc = "retryFinish", !.ok = w.c = None]
         \/ /\ w.c # None
            /\ w' = [Aborting(w.c, "fenced", "retryFinish") EXCEPT !.ok = TRUE]
  BY Zenon DEF RetryDrop
<1>2. w \in Workers /\ At = "retryDrop" /\ w.c \in MaybeIds /\ "retryFinish" \in Pcs
  BY <1>1, Facts DEF At, Workers, Pcs, RetryPcs
<1>3. /\ w.a \in db.retry /\ w.a \notin db.complete /\ ~w.ok /\ w.c = db.child[w.a]
  BY <1>2 DEF Claimed, RetryPcs
<1>4. w.a \in Signed /\ w.c \in Signed \cup {None}
  BY <1>3, Zenon DEF Known
<1>5. w.a \in hold.bytes => w.a \in hold.owed
  BY <1>1, <1>2 DEF Aborted, RetryPcs
<1>6. CASE /\ w.c = None \/ VerifiedResult(w.c)
           /\ w' = [w EXCEPT !.pc = "retryFinish", !.ok = w.c = None]
  <2>1. /\ w' \in Workers /\ w'.pc = "retryFinish" /\ w'.a = w.a /\ w'.c = w.c
        /\ w'.t = w.t /\ (w'.ok <=> w.c = None) /\ At' = "retryFinish"
    BY <1>2, <1>6, Zenon DEF Workers, Pcs, RetryPcs, At
  <2>2. db' = db
    BY <1>1, <1>6, Zenon DEF Fence
  <2>3. Typed' /\ Known' /\ Shape' /\ Quiet
    BY <1>1, <1>4, <2>1, <2>2, SilentTyped, Zenon DEF Known
  <2>4. Claimed'
    BY <1>3, <2>1, <2>2 DEF Claimed, RetryPcs, LaunchPcs, ActPcs
  <2>5. None \notin hold.bytes
    BY Facts, NoneIsNoId DEF Holds
  <2>6. Aborts' /\ Aborted'
    BY <1>1, <1>3, <1>5, <2>1, <2>2, <2>5, Zenon DEF Aborts, Aborted
  <2> QED BY <1>1, <2>3, <2>4, <2>6, QuietStep, Zenon
<1>7. CASE /\ w.c # None
           /\ w' = [Aborting(w.c, "fenced", "retryFinish") EXCEPT !.ok = TRUE]
  <2> DEFINE k == Aborting(w.c, "fenced", "retryFinish")
  <2>1. /\ k \in Workers /\ k.pc = "abort" /\ k.t = w.c /\ k.next = "retryFinish"
        /\ k.policy = "fenced" /\ k.a = w.a /\ k.c = w.c
    BY <1>2, AbortingWorker
  <2> HIDE DEF k
  <2>2. /\ w' \in Workers /\ w'.pc = "abort" /\ w'.t = w.c /\ w'.next = "retryFinish"
        /\ w'.policy = "fenced" /\ w'.a = w.a /\ w'.c = w.c /\ w'.ok
    <3>1. w' = [k EXCEPT !.ok = TRUE]
      BY <1>7, Zenon DEF k
    <3> QED BY <2>1, <3>1, ZenonT(30) DEF Workers
  <2>3. At' = "retryFinish" /\ w.c \in Signed
    BY <1>4, <1>7, <2>2 DEF At
  <2>4. Typed' /\ Known' /\ Shape' /\ Quiet
    BY <1>1, <1>4, <1>7, <2>2, <2>3, FencedTyped, Zenon
  <2>5. Claimed'
    BY <1>3, <2>2, <2>3, <2>4 DEF Claimed, Quiet, CoreSame, RetryPcs, LaunchPcs, ActPcs
  <2>6. Aborts' /\ Aborted'
    BY <1>1, <1>3, <1>5, <1>7, <2>2, <2>3, <2>4, Zenon DEF Aborts, Aborted, Quiet, CoreSame
  <2> QED BY <1>1, <2>4, <2>5, <2>6, QuietStep, Zenon
<1> QED BY <1>1, <1>6, <1>7, Zenon

(* abort_delegated_coding_with_policy goes on only when the bytes are gone *)
(* or their removal is recorded, or the activation's holder answered.      *)
LEMMA AbortKeeps ==
    ASSUME IInv, Abort
    PROVE  IInv'
<1> DEFINE Proceed == [w EXCEPT !.pc = w.next, !.t = None, !.next = "idle",
                                !.policy = "fenced"]
<1> USE DEF IInv
<1>1. /\ w.pc = "abort" /\ (budget' = budget \/ Fault("unreachable"))
      /\ UNCHANGED <<plans, expired, guild, db, job, finding, open>>
      /\ \/ hold' = Discard(hold, w.t) /\ w' = Proceed
         \/ /\ w.policy = "fenced" /\ w' = Proceed
            /\ \E h \in {hold, Discard(hold, w.t)} : hold' = [h EXCEPT !.owed = @ \cup {w.t}]
         \/ /\ w.policy # "fenced" /\ w' = Proceed
            /\ \E h \in {hold, Discard(hold, w.t)} : hold' = [h EXCEPT !.owed = @ \cup {w.t}]
         \/ hold' \in {hold, Discard(hold, w.t)} /\ w' = Idle
  BY Zenon DEF Abort
<1> HIDE DEF Proceed
<1>2. w \in Workers /\ hold \in Holds /\ hold.ready \subseteq hold.bytes
  BY Facts, Zenon
<1>17. w.pc = "abort" /\ db' = db
  BY <1>1, Zenon
<1>3. /\ At = w.next
      /\ w.next \in {"retryDrop", "retryPick", "launchAbandon", "launchRenew",
                     "retryFinish", "retryRenew", "actComplete"}
  BY <1>17 DEF At, Aborts
<1>4. w.t \in Signed /\ w.t \in Ids
  <2>1. CASE w.next \in {"retryDrop", "retryPick"}
    BY <1>17, <1>3, <2>1, ZenonT(30) DEF Aborts, Claimed, Known, RetryPcs
  <2>2. CASE w.next \in {"launchAbandon", "launchRenew"}
    BY <1>17, <1>3, <2>2 DEF Aborts, Claimed, Known, LaunchPcs
  <2>3. CASE w.next \in {"retryFinish", "retryRenew"}
    BY <1>17, <1>3, <2>3 DEF Aborts, Known
  <2>4. CASE w.next = "actComplete"
    BY <1>17, <1>3, <2>4 DEF Aborts, Claimed, Known, ActPcs
  <2> QED BY <1>3, <2>1, <2>2, <2>3, <2>4
<1>5. Cleaned(hold, Discard(hold, w.t), w.t)
  BY <1>2, <1>4, DiscardCleans, Zenon
<1>6. Discard(hold, w.t) \in Holds /\ Discard(hold, w.t).ready \subseteq Discard(hold, w.t).bytes
  BY <1>5, Zenon DEF Cleaned
<1>7. ASSUME NEW h \in {hold, Discard(hold, w.t)}
      PROVE  Cleaned(hold, [h EXCEPT !.owed = @ \cup {w.t}], w.t)
  <2>1. Cleaned(h, [h EXCEPT !.owed = @ \cup {w.t}], w.t)
    BY <1>2, <1>4, <1>6, OwedCleans, Zenon
  <2> QED BY <1>5, <2>1, CleanedTwice, SMTT(30)
<1>8. Cleaned(hold, hold', w.t) \/ (hold' = hold /\ w' = Idle)
  BY <1>1, <1>5, <1>7, Zenon
<1>9. Reported' /\ job' \in [Ids -> JobStates]
  BY <1>1, Zenon DEF Reported, Typed
<1>10. Budgeted'
  BY <1>1, BudgetKept DEF FaultKinds
<1>11. DbCalm
  BY <1>1, SameDbCalm, Zenon
<1>12. Calm
  BY <1>1, <1>2, <1>4, <1>8, <1>11, CleanCalm, SameHoldCalm, Zenon
<1>13. Closed' /\ Stored'
  BY <1>12, CalmStored, Zenon
<1>14. hold' \in Holds /\ hold'.ready \subseteq hold'.bytes
  BY <1>2, <1>8, Zenon DEF Cleaned
<1>15. CASE w' = Idle
  <2>1. Typed' /\ Known' /\ Shape'
    BY <1>1, <1>14, <1>15, IdleClaims, Zenon DEF Typed, Known, Shape, Signed, Holds
  <2> QED BY <1>9, <1>10, <1>13, <1>15, <2>1, IdleClaims, Zenon
<1>16. CASE Cleaned(hold, hold', w.t) /\ w' = Proceed
  <2>1. /\ w' \in Workers /\ w'.pc = w.next /\ w'.a = w.a /\ w'.c = w.c /\ w'.t = None
        /\ w'.ok = w.ok
    BY <1>2, <1>3, <1>16, ZenonT(30) DEF Proceed, Workers, Pcs, RetryPcs, LaunchPcs, ActPcs, MaybeIds
  <2>2. At' = w.next /\ w'.pc # "abort"
    BY <1>3, <2>1 DEF At
  <2>3. Typed' /\ Known' /\ Shape'
    BY <1>1, <1>14, <2>1, Zenon DEF Typed, Known, Shape, Signed, Holds
  <2>4. Claimed'
    BY <1>17, <1>3, <2>1, <2>2 DEF Claimed, RetryPcs, LaunchPcs, ActPcs, Submitted
  <2>5. Aborts'
    BY <2>2, Zenon DEF Aborts
  <2>6. w.t \in hold'.bytes => w.t \in hold'.owed
    BY <1>16, Zenon DEF Cleaned
  <2>7. ASSUME w.next \in {"retryFinish", "retryRenew"}, w.a \in hold'.bytes
        PROVE  w.a \in hold'.owed
    <3>1. w.a \in db.retry /\ w.a \in Ids
      BY <1>3, <2>7 DEF Claimed, RetryPcs, Known
    <3>2. w.a \in hold.bytes => w.a \in hold.owed
      BY <1>17, <1>3, <2>7 DEF Aborted, RetryPcs
    <3> QED BY <1>16, <2>6, <2>7, <3>1, <3>2, Zenon DEF Cleaned
  <2>8. ASSUME NEW x, x = w.t, x \in hold'.bytes PROVE Settled(x)'
    BY <2>6, <2>8, Zenon DEF Settled
  <2>9. Aborted'
    <3>1. CASE w.next \in {"retryDrop", "retryPick"}
      BY <1>17, <2>1, <2>2, <2>6, <3>1 DEF Aborts, Aborted
    <3>2. CASE w.next \in {"launchAbandon", "launchRenew"}
      <4>1. w.t = w.a
        BY <1>17, <3>2 DEF Aborts
      <4>2. w'.a \in hold'.bytes => Settled(w.a)'
        BY <2>1, <2>8, <4>1
      <4> QED BY <2>1, <2>2, <3>2, <4>2 DEF Aborted, RetryPcs
    <3>3. CASE w.next \in {"retryFinish", "retryRenew"}
      <4>1. w.t = w.c /\ w.c = db.child[w.a] /\ db'.child = db.child
        BY <1>17, <3>3 DEF Aborts
      <4>2. /\ w'.c \in hold'.bytes => Settled(w.c)'
            /\ db'.child[w'.a] \in hold'.bytes => Settled(db.child[w.a])'
        BY <2>1, <2>8, <4>1
      <4> QED BY <2>1, <2>2, <2>7, <3>3, <4>1, <4>2 DEF Aborted
    <3>4. CASE w.next = "actComplete"
      BY <1>17, <2>1, <2>2, <2>6, <3>4 DEF Aborts, Aborted, RetryPcs
    <3> QED BY <1>3, <3>1, <3>2, <3>3, <3>4
  <2> QED BY <1>9, <1>10, <1>13, <2>3, <2>4, <2>5, <2>9, Zenon
<1> QED BY <1>1, <1>5, <1>7, <1>15, <1>16, Zenon

(* The claim of a retry reopens it and the recoverable ones passed on the  *)
(* way, and closes those whose child took over.                            *)
LEMMA ClaimRetryKeeps ==
    ASSUME IInv, NEW r \in Signed, ClaimRetry(r)
    PROVE  IInv'
<1> USE DEF IInv
<1>1. PICK seen \in SUBSET {b \in db.retry : Recoverable(b) \/ HandedOver(b)} :
        db' = [db EXCEPT !.complete = @ \ ({r} \cup {b \in seen : Recoverable(b)}),
                         !.terminal = @ \cup {b \in seen : HandedOver(b)}]
  BY Zenon DEF ClaimRetry
<1> DEFINE R == {b \in seen : Recoverable(b)}
           H == {b \in seen : HandedOver(b)}
<1>2. /\ r \in db.retry /\ (r \notin db.complete \/ Recoverable(r))
      /\ w' = [Idle EXCEPT !.pc = "retryStart", !.a = r, !.c = db.child[r]]
      /\ UNCHANGED <<plans, expired, guild, job, finding, hold, budget, open>>
  BY Zenon DEF ClaimRetry
<1>3. db \in Dbs /\ hold \in Holds
  BY Facts, Zenon
<1>4. R \subseteq db.retry /\ H \subseteq db.retry
  BY <1>1
<1>5. \A b : Recoverable(b) => b \notin db.terminal /\ ~Submitted(db.child[b])
  BY Zenon DEF Recoverable, WentStale
<1>6. \A b \in H : Submitted(db.child[b]) /\ b \in db.complete
  BY Zenon DEF HandedOver, WentStale
<1>7. \A b \in R : Recoverable(b)
  BY Zenon
<1>8. db' = [db EXCEPT !.complete = @ \ ({r} \cup R), !.terminal = @ \cup H]
  BY <1>1, Zenon
<1> HIDE DEF R, H
<1>9. /\ db' \in Dbs /\ db'.complete = db.complete \ ({r} \cup R)
      /\ db'.terminal = db.terminal \cup H
      /\ db'.launch = db.launch /\ db'.retry = db.retry /\ db'.child = db.child
      /\ db'.act = db.act /\ db'.done = db.done
  BY <1>3, <1>4, <1>8, Zenon DEF Dbs
<1>10. /\ db'.dispatched = db.dispatched /\ db'.info = db.info /\ db'.staged = db.staged
       /\ db'.replan = db.replan /\ db'.retired = db.retired /\ db'.renewed = db.renewed
  BY <1>3, <1>8 DEF Dbs
<1>11. /\ w'.pc = "retryStart" /\ w'.a = r /\ w'.c = db.child[r] /\ w'.t = None
       /\ w'.ok = FALSE /\ w' \in Workers
  <2>1. r \in Ids /\ db.child[r] \in MaybeIds
    BY <1>3, Facts DEF Dbs
  <2> QED BY <1>2, <2>1, Zenon DEF Idle, Workers, Pcs, RetryPcs, MaybeIds
<1>12. At' = "retryStart"
  BY <1>11 DEF At
<1>13. Typed'
  BY <1>2, <1>9, <1>11, Zenon DEF Typed
<1>14. Known'
  <2>1. r \in Ids /\ db.child[r] \in Signed \cup {None}
    BY Facts, Zenon DEF Known
  <2> QED BY <1>2, <1>9, <1>10, <1>11, <2>1, Zenon DEF Known, Signed
<1>15. Shape'
  BY <1>2, <1>4, <1>9, <1>10 DEF Shape
<1>16. Reported'
  BY <1>2, <1>9, Zenon DEF Reported
<1>17. \A a : Submitted(a)' <=> Submitted(a)
  BY <1>9, Zenon DEF Submitted
<1>18. Closed'
  <2>1. SUFFICES ASSUME NEW b \in db'.terminal \ db'.complete
                 PROVE  Submitted(db.child[b])
    BY <1>9, <1>17, Zenon DEF Closed
  <2>2. CASE b \in H
    BY <1>6, <2>2, Zenon
  <2>3. CASE b \in db.terminal
    BY <1>2, <1>5, <1>7, <1>9, <2>1, <2>3, Zenon DEF Closed
  <2> QED BY <1>9, <2>1, <2>2, <2>3, Zenon
<1>19. ASSUME NEW a, Settled(a) \/ Named(a)
       PROVE  Settled(a)' \/ Named(a)'
  <2>1. CASE Settled(a)
    BY <1>2, <1>9, <2>1, Zenon DEF Settled
  <2>2. CASE a \in db.launch
    BY <1>9, <2>2, Zenon DEF Named
  <2>3. ASSUME NEW q \in db.retry \ db.terminal, db.child[q] = a, ~Submitted(a)
        PROVE  Named(a)'
    <3>1. q \notin H
      BY <1>6, <2>3, Zenon
    <3> QED BY <1>9, <1>17, <2>3, <3>1, Zenon DEF Named
  <2>4. ASSUME NEW q \in db.retry \ db.complete, db.child[q] = a
        PROVE  Named(a)'
    BY <1>9, <2>4, Zenon DEF Named
  <2> QED BY <1>19, <2>1, <2>2, <2>3, <2>4, Zenon DEF Named
<1>20. Stored'
  <2>1. db'.complete \subseteq db.complete
    BY <1>9, Zenon
  <2> QED BY <1>2, <1>9, <1>19, <2>1, Zenon DEF Stored
<1>21. Claimed'
  <2>1. r \notin db'.complete
    BY <1>9, Zenon
  <2> QED BY <1>2, <1>9, <1>11, <1>12, <2>1 DEF Claimed, RetryPcs, LaunchPcs, ActPcs
<1>22. Aborts' /\ Aborted'
  BY <1>11, <1>12 DEF Aborts, Aborted
<1>23. Budgeted'
  BY <1>2, BudgetKept, Zenon
<1> QED BY <1>13, <1>14, <1>15, <1>16, <1>18, <1>20, <1>21, <1>22, <1>23, Zenon

(* defer_coding_retry leaves an open retry as it is. *)
LEMMA Deferred ==
    ASSUME IInv, At \in RetryPcs, At # "retryFinish", DeferRetry
    PROVE  db' = db /\ w' = Idle
<1>1. w.a \notin db.complete /\ db \in Dbs
  BY Facts, Zenon DEF IInv, Claimed
<1>2. db' = [db EXCEPT !.complete = db.complete]
  BY <1>1 DEF DeferRetry
<1> QED BY <1>1, <1>2 DEF Dbs, DeferRetry

(* A retry yields to its submitted child, gives the child up or goes on. *)
LEMMA RetryPickKeeps ==
    ASSUME IInv, RetryPick
    PROVE  IInv'
<1> USE DEF IInv
<1>1. w.pc = "retryPick" /\ UNCHANGED <<plans, expired, guild, job, finding, hold, open>>
  BY ZenonT(30) DEF RetryPick
<1>2. PICK E \in SUBSET guild.placed :
        /\ budget' = budget \/ Fault("unreachable")
        /\ \/ w.c # None /\ Submitted(w.c) /\ w' = [w EXCEPT !.pc = "retryFinish"] /\ db' = db
           \/ /\ w.c # None /\ ~Submitted(w.c) /\ db' = Fence(db, w.c)
              /\ w' = [Aborting(w.c, "fenced", "retryRenew") EXCEPT !.e = E]
           \/ /\ db' = db
              /\ \E x \in {"retryPrepare", "retryReplan"} : w' = [w EXCEPT !.e = E, !.pc = x]
  BY Zenon DEF RetryPick
<1>3. budget' = budget \/ \E kind \in FaultKinds : Fault(kind)
  BY <1>2 DEF FaultKinds
<1>4. w \in Workers /\ At = "retryPick" /\ w.c \in MaybeIds /\ "retryRenew" \in Pcs
      /\ E \in SUBSET Geometries
  BY <1>1, Facts DEF At, Workers, Pcs, RetryPcs, Typed
<1>5. /\ w.a \in db.retry /\ w.a \notin db.complete /\ ~w.ok /\ w.c = db.child[w.a]
  BY <1>4 DEF Claimed, RetryPcs
<1>6. w.a \in Signed /\ w.c \in Signed \cup {None} /\ w.t \in Signed \cup {None}
  BY <1>5, Zenon DEF Known
<1>7. w.a \in hold.bytes => w.a \in hold.owed
  BY <1>1, <1>4 DEF Aborted, RetryPcs
<1>8. ASSUME NEW x \in {"retryFinish", "retryPrepare", "retryReplan"}, db' = db,
             w' \in Workers, w'.pc = x, w'.a = w.a, w'.c = w.c, w'.t = w.t, w'.ok = w.ok
      PROVE  IInv'
  <2>1. At' = x
    BY <1>8 DEF At
  <2>2. Typed' /\ Known' /\ Shape' /\ Quiet
    BY <1>1, <1>6, <1>8, SilentTyped, Zenon
  <2>3. Claimed'
    BY <1>5, <1>8, <2>1, Zenon DEF Claimed, RetryPcs, LaunchPcs, ActPcs
  <2>4. Aborts' /\ Aborted'
    BY <1>1, <1>5, <1>7, <1>8, <2>1 DEF Aborts, Aborted
  <2> QED BY <1>3, <2>2, <2>3, <2>4, QuietStep, Zenon
<1>9. CASE w' = [w EXCEPT !.pc = "retryFinish"] /\ db' = db
  <2>1. /\ w' \in Workers /\ w'.pc = "retryFinish" /\ w'.a = w.a /\ w'.c = w.c /\ w'.t = w.t
        /\ w'.ok = w.ok
    BY <1>4, <1>9 DEF Workers, Pcs, RetryPcs
  <2> QED BY <1>8, <1>9, <2>1
<1>10. CASE /\ w.c # None /\ ~Submitted(w.c) /\ db' = Fence(db, w.c)
            /\ w' = [Aborting(w.c, "fenced", "retryRenew") EXCEPT !.e = E]
  <2> DEFINE k == Aborting(w.c, "fenced", "retryRenew")
  <2>1. /\ k \in Workers /\ k.pc = "abort" /\ k.t = w.c /\ k.next = "retryRenew"
        /\ k.policy = "fenced" /\ k.a = w.a /\ k.c = w.c /\ k.ok = w.ok
    BY <1>4, AbortingWorker
  <2> HIDE DEF k
  <2>2. /\ w' \in Workers /\ w'.pc = "abort" /\ w'.t = w.c /\ w'.next = "retryRenew"
        /\ w'.policy = "fenced" /\ w'.a = w.a /\ w'.c = w.c /\ w'.ok = w.ok
    <3>1. w' = [k EXCEPT !.e = E]
      BY <1>10, Zenon DEF k
    <3> QED BY <1>4, <2>1, <3>1 DEF Workers
  <2>3. At' = "retryRenew" /\ w.c \in Signed /\ w.c \in Ids /\ db \in Dbs
    BY <1>6, <1>10, <2>2, Facts DEF At
  <2>4. Typed' /\ Known' /\ Shape' /\ Quiet
    BY <1>1, <1>6, <1>10, <2>2, <2>3, FencedTyped, Zenon
  <2>5. w.c \in db'.retired
    BY <1>10, <2>3, Fenced, ZenonT(30) DEF Submitted
  <2>6. Claimed'
    BY <1>5, <1>10, <2>2, <2>3, <2>4, <2>5, Zenon
       DEF Claimed, Quiet, CoreSame, RetryPcs, LaunchPcs, ActPcs, Submitted
  <2>7. Aborts' /\ Aborted'
    BY <1>1, <1>5, <1>7, <1>10, <2>2, <2>3, <2>4, Zenon DEF Aborts, Aborted, Quiet, CoreSame
  <2> QED BY <1>3, <2>4, <2>6, <2>7, QuietStep, Zenon
<1>11. ASSUME NEW x \in {"retryPrepare", "retryReplan"}, w' = [w EXCEPT !.e = E, !.pc = x],
              db' = db
       PROVE  IInv'
  <2>1. /\ w' \in Workers /\ w'.pc = x /\ w'.a = w.a /\ w'.c = w.c /\ w'.t = w.t
        /\ w'.ok = w.ok
    BY <1>4, <1>11, Zenon DEF Workers, Pcs, RetryPcs
  <2> QED BY <1>8, <1>11, <2>1
<1> QED BY <1>2, <1>9, <1>10, <1>11, Zenon

(* renew_coding_retry_after_cleanup forgets a child whose bytes are        *)
(* settled.                                                                *)
LEMMA RetryRenewKeeps ==
    ASSUME IInv, RetryRenew
    PROVE  IInv'
<1> USE DEF IInv
<1>1. /\ w.pc = "retryRenew"
      /\ db' = [db EXCEPT !.parent[w.a] = w.c, !.child[w.a] = None,
                          !.info = @ \ {w.c}, !.staged = @ \ {w.c}]
      /\ UNCHANGED <<plans, expired, guild, job, finding, hold, budget, open>>
  BY Zenon DEF RetryRenew
<1>2. PICK x \in {"retryPrepare", "retryReplan"} : w' = [w EXCEPT !.pc = x]
  BY DEF RetryRenew
<1>3. w \in Workers /\ At = "retryRenew" /\ w.c \in MaybeIds /\ db \in Dbs /\ hold \in Holds
  BY <1>1, Facts DEF At, Workers
<1>4. /\ w.a \in db.retry /\ w.a \notin db.complete /\ ~w.ok /\ w.c = db.child[w.a]
      /\ w.c # None /\ ~Submitted(w.c)
  BY <1>3 DEF Claimed, RetryPcs
<1>5. w.a \in Signed /\ w.a \in Ids /\ w.c \in Signed /\ w.t \in Signed \cup {None}
  BY <1>4, Facts, Zenon DEF Known
<1>6. /\ w.a \in hold.bytes => w.a \in hold.owed
      /\ w.c \in hold.bytes => Settled(w.c)
  BY <1>1, <1>3 DEF Aborted, RetryPcs
<1>7. w.a \notin db.terminal
  BY <1>4, Zenon DEF Closed
<1>8. /\ w' \in Workers /\ w'.pc = x /\ w'.a = w.a /\ w'.c = w.c /\ w'.t = w.t
      /\ w'.ok = w.ok
  BY <1>2, <1>3 DEF Workers, Pcs, RetryPcs
<1>9. At' = x
  BY <1>8 DEF At
<1>10. /\ db' \in Dbs /\ db'.info = db.info \ {w.c} /\ db'.staged = db.staged \ {w.c}
       /\ db'.launch = db.launch /\ db'.retry = db.retry /\ db'.complete = db.complete
       /\ db'.terminal = db.terminal /\ db'.act = db.act /\ db'.done = db.done
  BY <1>1, <1>3, <1>5, Zenon DEF Dbs, MaybeIds
<1>11. /\ db'.dispatched = db.dispatched /\ db'.replan = db.replan
       /\ db'.retired = db.retired /\ db'.renewed = db.renewed
  BY <1>1, <1>3 DEF Dbs
<1>12. db'.child[w.a] = None /\ \A b \in Ids \ {w.a} : db'.child[b] = db.child[b]
  BY <1>1, <1>3, <1>5 DEF Dbs
<1>13. Typed'
  BY <1>1, <1>8, <1>10, Zenon DEF Typed
<1>14. Known'
  BY <1>1, <1>5, <1>8, <1>10, <1>11, <1>12, Zenon DEF Known, Signed
<1>15. Shape'
  BY <1>1, <1>10, <1>11 DEF Shape
<1>16. Reported'
  BY <1>1, <1>10, Zenon DEF Reported
<1>17. \A a : Submitted(a)' <=> Submitted(a)
  BY <1>10, Zenon DEF Submitted
<1>18. db.retry \subseteq Ids /\ db.terminal \subseteq Ids
  BY <1>3 DEF Dbs
<1>19. Closed'
  BY <1>7, <1>10, <1>12, <1>17, <1>18, Zenon DEF Closed
<1>20. \A a : Settled(a)' <=> Settled(a)
  BY <1>1, <1>10, Zenon DEF Settled
<1>21. ASSUME NEW a, a # w.c, Named(a)
       PROVE  Named(a)'
  <2>1. \A r \in db.retry : db.child[r] = a => db'.child[r] = a
    BY <1>4, <1>12, <1>18, <1>21, Zenon
  <2> QED BY <1>10, <1>17, <1>21, <2>1, Zenon DEF Named
<1>22. Stored'
  BY <1>1, <1>6, <1>10, <1>20, <1>21, ZenonT(30) DEF Stored
<1>23. Claimed'
  BY <1>4, <1>8, <1>9, <1>10 DEF Claimed, RetryPcs, LaunchPcs, ActPcs
<1>24. Aborts' /\ Aborted'
  BY <1>1, <1>6, <1>8, <1>9 DEF Aborts, Aborted
<1>25. Budgeted'
  BY <1>1, BudgetKept, Zenon
<1> QED BY <1>13, <1>14, <1>15, <1>16, <1>19, <1>22, <1>23, <1>24, <1>25, Zenon

(* replan_coding_retry_after_cleanup hands the lane to a new launch. *)
LEMMA RetryReplanKeeps ==
    ASSUME IInv, RetryReplan
    PROVE  IInv'
<1> USE DEF IInv
<1>1. w.pc = "retryReplan" /\ UNCHANGED <<expired, guild, job, finding, hold, open>>
  BY Zenon DEF RetryReplan
<1>2. /\ budget' = budget \/ Fault("unreachable")
      /\ \/ /\ \E p \in Pairs, g \in Geometries : Sign(p, g, FALSE)
            /\ db.child[w.a] = None
            /\ db' = [db EXCEPT !.complete = @ \cup {w.a}, !.renewed = @ \cup {w.a},
                                !.launch = @ \cup {New}, !.info = (@ \cup {New}) \ {w.a},
                                !.staged = @ \ {w.a}]
            /\ w' = [w EXCEPT !.pc = "retryFinish", !.ok = TRUE]
         \/ DeferRetry /\ plans' = plans
  <2>1. PICK p \in Pairs \cup {NoPair}, g \in Geometries \cup {None} :
          /\ OfferPair(w.a, p)
          /\ LET usable == (w.e \cap guild.placed) \ {G(w.a)}
                 able == /\ p # NoPair /\ usable # {} /\ w.a \in db.info
                         /\ w.a \notin db.renewed /\ db.child[w.a] = None
             IN \/ /\ able /\ g \in usable /\ Sign(p, g, FALSE)
                   /\ db' = [db EXCEPT !.complete = @ \cup {w.a},
                                       !.renewed = @ \cup {w.a},
                                       !.launch = @ \cup {New},
                                       !.info = (@ \cup {New}) \ {w.a},
                                       !.staged = @ \ {w.a}]
                   /\ w' = [w EXCEPT !.pc = "retryFinish", !.ok = TRUE]
                \/ /\ ~able /\ g = None
                   /\ DeferRetry /\ UNCHANGED plans
    BY Zenon DEF RetryReplan
  <2>2. budget' = budget \/ Fault("unreachable")
    BY <2>1, Zenon DEF OfferPair
  <2>3. guild.placed \subseteq Geometries
    BY DEF Typed
  <2> QED BY <2>1, <2>2, <2>3, Zenon
<1>3. budget' = budget \/ \E kind \in FaultKinds : Fault(kind)
  BY <1>2 DEF FaultKinds
<1>4. w \in Workers /\ At = "retryReplan" /\ db \in Dbs /\ hold \in Holds
  BY <1>1, Facts DEF At
<1>5. w.a \in db.retry /\ w.a \notin db.complete /\ ~w.ok
  BY <1>4 DEF Claimed, RetryPcs
<1>6. /\ w.a \in Signed /\ w.a \in Ids /\ w.c \in Signed \cup {None}
      /\ w.t \in Signed \cup {None}
  BY <1>5, Facts, Zenon DEF Known
<1>7. w.a \in hold.bytes => w.a \in hold.owed
  BY <1>1, <1>4 DEF Aborted, RetryPcs
<1>8. CASE DeferRetry /\ plans' = plans
  <2>1. db' = db /\ w' = Idle
    BY <1>4, <1>8, Deferred DEF RetryPcs
  <2>2. Typed' /\ Known' /\ Shape' /\ Quiet
    BY <1>1, <1>8, <2>1, IdleClaims, SilentTyped, Zenon
  <2> QED BY <1>3, <2>1, <2>2, IdleClaims, QuietStep, Zenon
<1>9. ASSUME NEW p \in Pairs, NEW g \in Geometries, Sign(p, g, FALSE), db.child[w.a] = None,
             db' = [db EXCEPT !.complete = @ \cup {w.a}, !.renewed = @ \cup {w.a},
                              !.launch = @ \cup {New}, !.info = (@ \cup {New}) \ {w.a},
                              !.staged = @ \ {w.a}],
             w' = [w EXCEPT !.pc = "retryFinish", !.ok = TRUE]
      PROVE  IInv'
  <2>1. /\ New \in Ids /\ New \notin Signed /\ plans' \in Seq(Plans)
        /\ Signed' = Signed \cup {New} /\ Signed' \subseteq Ids
    BY <1>9, SignAdds, Zenon
  <2>2. /\ w' \in Workers /\ w'.pc = "retryFinish" /\ w'.a = w.a /\ w'.c = w.c /\ w'.t = w.t
        /\ w'.ok = TRUE /\ At' = "retryFinish"
    BY <1>4, <1>9, Zenon DEF Workers, Pcs, RetryPcs, At
  <2>3. /\ db' \in Dbs /\ db'.complete = db.complete \cup {w.a}
        /\ db'.renewed = db.renewed \cup {w.a} /\ db'.launch = db.launch \cup {New}
        /\ db'.info = (db.info \cup {New}) \ {w.a} /\ db'.staged = db.staged \ {w.a}
    BY <1>4, <1>6, <1>9, <2>1, Zenon DEF Dbs
  <2>4. /\ db'.retry = db.retry /\ db'.terminal = db.terminal /\ db'.child = db.child
        /\ db'.act = db.act /\ db'.done = db.done
        /\ db'.dispatched = db.dispatched /\ db'.replan = db.replan /\ db'.retired = db.retired
    BY <1>4, <1>9 DEF Dbs
  <2>5. Typed'
    BY <1>1, <2>1, <2>2, <2>3, Zenon DEF Typed
  <2>6. Known'
    BY <1>1, <1>6, <2>1, <2>2, <2>3, <2>4, SMTT(30) DEF Known
  <2>7. Shape'
    BY <1>1, <1>5, <2>1, <2>3, <2>4, SMTT(30) DEF Shape, Known
  <2>8. Reported'
    BY <1>1, <2>4, Zenon DEF Reported
  <2>9. \A a : Submitted(a)' <=> Submitted(a)
    BY <2>4, Zenon DEF Submitted
  <2>10. Closed'
    BY <2>3, <2>4, <2>9, Zenon DEF Closed
  <2>11. None \notin hold.bytes
    BY <1>4, NoneIsNoId DEF Holds
  <2>12. ASSUME NEW a \in hold.bytes, a # w.a
         PROVE  Settled(a)' \/ Named(a)'
    <3>1. CASE Settled(a)
      BY <1>1, <2>3, <2>4, <2>12, <3>1, Zenon DEF Settled
    <3>2. CASE Named(a)
      <4>1. a # None
        BY <2>11, <2>12, Zenon
      <4> QED BY <1>9, <2>3, <2>4, <2>9, <3>2, <4>1, Zenon DEF Named
    <3> QED BY <3>1, <3>2, Zenon DEF Stored
  <2>13. Stored'
    BY <1>1, <1>7, <2>3, <2>4, <2>12, Zenon DEF Stored, Settled
  <2>14. Claimed'
    BY <1>5, <1>9, <2>2, <2>4 DEF Claimed, RetryPcs, LaunchPcs, ActPcs
  <2>15. Aborts' /\ Aborted'
    BY <1>1, <1>7, <1>9, <2>2, <2>4, <2>11 DEF Aborts, Aborted
  <2>16. Budgeted'
    BY <1>3, BudgetKept, Zenon
  <2> QED BY <2>5, <2>6, <2>7, <2>8, <2>10, <2>13, <2>14, <2>15, <2>16, Zenon
<1> QED BY <1>2, <1>8, <1>9, Zenon

(* prepare_coding_retry reuses the durable child or signs one. *)
LEMMA RetryPrepareKeeps ==
    ASSUME IInv, RetryPrepare
    PROVE  IInv'
<1> USE DEF IInv
<1>1. w.pc = "retryPrepare" /\ UNCHANGED <<expired, guild, job, finding, hold, open>>
  BY Zenon DEF RetryPrepare
<1>2. \/ /\ db.child[w.a] # None /\ plans' = plans /\ budget' = budget
         /\ \E I \in {db.info \cup {db.child[w.a]}, db.info} : db' = [db EXCEPT !.info = I]
         /\ \/ /\ Submitted(db.child[w.a])
               /\ w' = [w EXCEPT !.t = db.child[w.a], !.pc = "retryFinish"]
            \/ /\ ~Submitted(db.child[w.a])
               /\ w' = [w EXCEPT !.t = db.child[w.a], !.pc = "retryUpload"]
      \/ /\ db.child[w.a] = None /\ budget' = budget
         /\ \E p \in Pairs : Sign(p, G(w.a), FALSE)
         /\ \E I \in {db.info \cup {New}, db.info} :
              db' = [db EXCEPT !.child[w.a] = New, !.info = I]
         /\ w' = [w EXCEPT !.t = New, !.pc = "retryUpload"]
      \/ /\ budget' = budget \/ Fault("unreachable")
         /\ DeferRetry /\ plans' = plans
  <2>1. RetryPairs(w.a) \subseteq Pairs
    BY Zenon DEF RetryPairs
  <2> QED BY <2>1, Zenon DEF RetryPrepare
<1>3. budget' = budget \/ \E kind \in FaultKinds : Fault(kind)
  BY <1>2, Zenon DEF FaultKinds
<1>4. w \in Workers /\ At = "retryPrepare" /\ db \in Dbs /\ hold \in Holds
  BY <1>1, Facts DEF At
<1>5. w.a \in db.retry /\ w.a \notin db.complete /\ ~w.ok
  BY <1>4 DEF Claimed, RetryPcs
<1>6. /\ w.a \in Signed /\ w.a \in Ids /\ w.c \in Signed \cup {None}
      /\ w.t \in Signed \cup {None} /\ db.child[w.a] \in Signed \cup {None}
  BY <1>5, Facts, Zenon DEF Known
<1>7. w.a \in hold.bytes => w.a \in hold.owed
  BY <1>1, <1>4 DEF Aborted, RetryPcs
<1>8. CASE DeferRetry /\ plans' = plans
  <2>1. db' = db /\ w' = Idle
    BY <1>4, <1>8, Deferred DEF RetryPcs
  <2>2. Typed' /\ Known' /\ Shape' /\ Quiet
    BY <1>1, <1>8, <2>1, IdleClaims, SilentTyped, Zenon
  <2> QED BY <1>3, <2>1, <2>2, IdleClaims, QuietStep, Zenon
<1>9. ASSUME db.child[w.a] # None, plans' = plans,
             NEW I \in {db.info \cup {db.child[w.a]}, db.info}, db' = [db EXCEPT !.info = I],
             NEW x \in {"retryFinish", "retryUpload"},
             x = "retryUpload" => ~Submitted(db.child[w.a]),
             w' = [w EXCEPT !.t = db.child[w.a], !.pc = x]
      PROVE  IInv'
  <2> DEFINE c == db.child[w.a]
  <2>1. c \in Signed /\ c \in Ids
    BY <1>6, <1>9, Facts, Zenon
  <2>2. /\ w' \in Workers /\ w'.pc = x /\ w'.a = w.a /\ w'.c = w.c /\ w'.t = c
        /\ w'.ok = w.ok /\ At' = x
    BY <1>4, <1>9, <2>1, Zenon DEF Workers, Pcs, RetryPcs, At, MaybeIds
  <2>3. db' \in Dbs /\ CoreSame /\ db'.info = I
    BY <1>4, <1>9, <2>1 DEF Dbs, CoreSame
  <2>4. /\ db'.dispatched = db.dispatched /\ db'.staged = db.staged
        /\ db'.replan = db.replan /\ db'.retired = db.retired /\ db'.renewed = db.renewed
    BY <1>4, <1>9 DEF Dbs
  <2> HIDE DEF c
  <2>5. I \subseteq Signed /\ db.info \subseteq I
    BY <1>9, <2>1 DEF Known, c
  <2>6. Quiet
    BY <1>1, <2>3, Zenon DEF Quiet
  <2>7. Typed'
    BY <1>1, <1>9, <2>2, <2>3, Zenon DEF Typed
  <2>8. Known'
    BY <1>1, <1>6, <1>9, <2>1, <2>2, <2>3, <2>4, <2>5, ZenonT(30) DEF Known, Signed, CoreSame
  <2>9. Shape'
    BY <1>1, <2>3, <2>4, <2>5, Zenon DEF Shape, CoreSame
  <2>10. x = "retryUpload" => c # w.a /\ c \notin db.done \cup db.complete
    BY <1>5, <1>9, Zenon DEF Submitted, Shape, c
  <2>11. Claimed'
    BY <1>5, <1>9, <2>2, <2>3, <2>10, ZenonT(30) DEF Claimed, RetryPcs, LaunchPcs, ActPcs, CoreSame, c
  <2>12. Aborts' /\ Aborted'
    BY <1>1, <1>5, <1>7, <2>2 DEF Aborts, Aborted
  <2> QED BY <1>3, <2>6, <2>7, <2>8, <2>9, <2>11, <2>12, QuietStep, Zenon
<1>10. ASSUME db.child[w.a] = None, NEW p \in Pairs, Sign(p, G(w.a), FALSE),
              NEW I \in {db.info \cup {New}, db.info},
              db' = [db EXCEPT !.child[w.a] = New, !.info = I],
              w' = [w EXCEPT !.t = New, !.pc = "retryUpload"]
       PROVE  IInv'
  <2>1. /\ New \in Ids /\ New \notin Signed /\ plans' \in Seq(Plans)
        /\ Signed' = Signed \cup {New} /\ Signed' \subseteq Ids
    BY <1>10, SignAdds, Zenon
  <2>2. /\ w' \in Workers /\ w'.pc = "retryUpload" /\ w'.a = w.a /\ w'.c = w.c /\ w'.t = New
        /\ w'.ok = w.ok /\ At' = "retryUpload"
    BY <1>4, <1>10, <2>1, ZenonT(30) DEF Workers, Pcs, RetryPcs, At, MaybeIds
  <2>3. /\ db' \in Dbs /\ db'.info = I /\ db'.staged = db.staged
        /\ db'.launch = db.launch /\ db'.retry = db.retry /\ db'.complete = db.complete
        /\ db'.terminal = db.terminal /\ db'.act = db.act /\ db'.done = db.done
    BY <1>4, <1>6, <1>10, <2>1, Zenon DEF Dbs, MaybeIds
  <2>4. /\ db'.dispatched = db.dispatched /\ db'.replan = db.replan
        /\ db'.retired = db.retired /\ db'.renewed = db.renewed
    BY <1>4, <1>10 DEF Dbs
  <2>5. db'.child[w.a] = New /\ \A b \in Ids \ {w.a} : db'.child[b] = db.child[b]
    BY <1>4, <1>6, <1>10 DEF Dbs
  <2>6. I \subseteq Signed' /\ db.info \subseteq I
    BY <1>10, <2>1 DEF Known
  <2>7. db.retry \subseteq Ids /\ db.terminal \subseteq Ids /\ db.act \subseteq Ids
        /\ hold.bytes \subseteq Ids
    BY <1>4 DEF Dbs, Holds
  <2>8. w.a \notin db.terminal
    BY <1>5, <1>10, <2>7, NoneIsNoId, Zenon DEF Closed, Submitted
  <2>9. Typed'
    BY <1>1, <2>1, <2>2, <2>3, Zenon DEF Typed
  <2>10. \A r \in Ids : db'.child[r] \in Signed' \cup {None}
    BY <2>1, <2>5, ZenonT(30) DEF Known
  <2>11. Known'
    BY <1>1, <1>6, <2>1, <2>2, <2>3, <2>4, <2>6, <2>10, SMTT(30) DEF Known
  <2>12. Shape'
    BY <1>1, <2>3, <2>4, <2>6, Zenon DEF Shape
  <2>13. Reported'
    BY <1>1, <2>3, Zenon DEF Reported
  <2>14. \A a : Submitted(a)' <=> Submitted(a)
    BY <2>3, Zenon DEF Submitted
  <2>15. Closed'
    BY <2>3, <2>5, <2>7, <2>8, <2>14, Zenon DEF Closed
  <2>16. \A a : Settled(a)' <=> Settled(a)
    BY <1>1, <2>3, Zenon DEF Settled
  <2>17. ASSUME NEW a \in hold.bytes, Named(a)
         PROVE  Named(a)'
    <3>1. \A r \in db.retry : db.child[r] = a => db'.child[r] = a
      BY <1>10, <2>5, <2>7, <2>17, NoneIsNoId, Zenon
    <3> QED BY <2>3, <2>14, <2>17, <3>1, Zenon DEF Named
  <2>18. Stored'
    BY <1>1, <2>3, <2>16, <2>17, Zenon DEF Stored
  <2>19. New \notin db.done \cup db.complete /\ New # w.a /\ New # None
    BY <1>6, <2>1, NoneIsNoId, Zenon DEF Shape, Known
  <2>20. Claimed'
    BY <1>5, <2>2, <2>3, <2>5, <2>19, ZenonT(30) DEF Claimed, RetryPcs, LaunchPcs, ActPcs
  <2>21. Aborts' /\ Aborted'
    BY <1>1, <1>5, <1>7, <2>2 DEF Aborts, Aborted
  <2>22. Budgeted'
    BY <1>3, BudgetKept, Zenon
  <2> QED BY <2>9, <2>11, <2>12, <2>13, <2>15, <2>18, <2>20, <2>21, <2>22, Zenon
<1> QED BY <1>2, <1>8, <1>9, <1>10, Zenon

-----------------------------------------------------------------------------
(* Uploads and dispatches, of a retry's child or of a launch.              *)

(* What stage_locally_available_information and the marker it leaves write *)
(* when the attempt is in somebody's care.                                 *)
LEMMA UploadWrites ==
    ASSUME IInv, NEW n \in Signed, Settled(n) \/ Named(n),
           n \notin db.done, n \notin db.complete,
           db' = db \/ (n \in db.info /\ db' = [db EXCEPT !.staged = @ \cup {n}]),
           hold' = hold \/ hold' = [hold EXCEPT !.bytes = @ \cup {n}],
           UNCHANGED <<plans, expired, guild, job, finding, open>>,
           w' \in Workers, w'.a \in Signed \cup {None}, w'.c \in Signed \cup {None},
           w'.t \in Signed \cup {None}
    PROVE  /\ Typed' /\ Known' /\ Shape' /\ Reported' /\ Closed' /\ Stored' /\ CoreSame
           /\ hold'.owed = hold.owed /\ hold'.bytes \subseteq hold.bytes \cup {n}
<1> USE DEF IInv
<1>1. n \in Ids /\ db \in Dbs /\ hold \in Holds /\ hold.ready \subseteq hold.bytes
  BY Facts, Zenon
<1>2. /\ db' \in Dbs /\ CoreSame /\ db'.dispatched = db.dispatched /\ db'.info = db.info
      /\ db'.replan = db.replan /\ db'.retired = db.retired /\ db'.renewed = db.renewed
      /\ db'.staged = db.staged \/ (n \in db.info /\ db'.staged = db.staged \cup {n})
  BY <1>1 DEF Dbs, CoreSame
<1>3. /\ hold' \in Holds /\ hold'.owed = hold.owed /\ hold'.ready = hold.ready
      /\ hold.bytes \subseteq hold'.bytes /\ hold'.bytes \subseteq hold.bytes \cup {n}
  BY <1>1 DEF Holds
<1>4. Typed'
  BY <1>2, <1>3, Zenon DEF Typed, Holds
<1>5. Known'
  BY <1>2, Zenon DEF Known, Signed, CoreSame
<1>6. Shape'
  BY <1>2, <1>3, Zenon DEF Shape, CoreSame
<1>7. \A a : Submitted(a)' <=> Submitted(a)
  BY <1>2, Zenon DEF Submitted, CoreSame
<1>8. \A a : (Settled(a)' <=> Settled(a)) /\ (Named(a)' <=> Named(a))
  BY <1>2, <1>3, <1>7, Zenon DEF Settled, Named, CoreSame
<1>9. Reported' /\ Closed'
  BY <1>2, <1>7, Zenon DEF Reported, Closed, CoreSame
<1>10. Stored'
  BY <1>2, <1>3, <1>8, Zenon DEF Stored, CoreSame
<1> QED BY <1>2, <1>3, <1>4, <1>5, <1>6, <1>9, <1>10, Zenon

(* A retry uploads the input of its child. *)
LEMMA RetryUploadKeeps ==
    ASSUME IInv, RetryUpload
    PROVE  IInv'
<1> USE DEF IInv
<1> DEFINE Then == w' = [w EXCEPT !.pc = "retryDelegate"]
<1>1. /\ w.pc = "retryUpload" /\ Upload(w.t, Then, DeferRetry)
      /\ UNCHANGED <<plans, expired, guild, job, finding, open>>
  BY Zenon DEF RetryUpload
<1>2. /\ hold' = hold \/ hold' = [hold EXCEPT !.bytes = @ \cup {w.t}]
      /\ budget' = budget \/ \E kind \in FaultKinds : Fault(kind)
      /\ \/ /\ Then
            /\ db' = db \/ (w.t \in db.info /\ db' = [db EXCEPT !.staged = @ \cup {w.t}])
         \/ DeferRetry
  <2>1. "unreachable" \in FaultKinds
    BY DEF FaultKinds
  <2> QED BY <1>1, <2>1, Zenon DEF Upload
<1>3. w \in Workers /\ At = "retryUpload" /\ db \in Dbs
  BY <1>1, Facts DEF At
<1>4. /\ w.a \in db.retry /\ w.a \notin db.complete /\ ~w.ok
      /\ w.t # None /\ w.t = db.child[w.a] /\ w.t # w.a
      /\ w.t \notin db.done /\ w.t \notin db.complete
  BY <1>3 DEF Claimed, RetryPcs
<1>5. /\ w.a \in Signed /\ w.c \in Signed \cup {None} /\ w.t \in Signed
  BY <1>4, Facts, Zenon DEF Known
<1>6. w.a \in hold.bytes => w.a \in hold.owed
  BY <1>1, <1>3 DEF Aborted, RetryPcs
<1>7. Named(w.t)
  BY <1>4, Zenon DEF Named
<1>8. Budgeted'
  BY <1>2, BudgetKept, Zenon
<1>9. CASE DeferRetry
  <2>1. db' = db /\ w' = Idle
    BY <1>3, <1>9, Deferred DEF RetryPcs
  <2>2. Typed' /\ Known' /\ Shape' /\ Reported' /\ Closed' /\ Stored'
    BY <1>1, <1>2, <1>4, <1>5, <1>7, <2>1, IdleClaims, UploadWrites, Zenon
  <2> QED BY <1>8, <2>1, <2>2, IdleClaims, Zenon
<1>10. CASE /\ Then
            /\ db' = db \/ (w.t \in db.info /\ db' = [db EXCEPT !.staged = @ \cup {w.t}])
  <2>1. /\ w' \in Workers /\ w'.pc = "retryDelegate" /\ w'.a = w.a /\ w'.c = w.c /\ w'.t = w.t
        /\ w'.ok = w.ok /\ At' = "retryDelegate"
    BY <1>3, <1>10 DEF Workers, Pcs, RetryPcs, At
  <2>2. /\ Typed' /\ Known' /\ Shape' /\ Reported' /\ Closed' /\ Stored' /\ CoreSame
        /\ hold'.owed = hold.owed /\ hold'.bytes \subseteq hold.bytes \cup {w.t}
    BY <1>1, <1>2, <1>4, <1>5, <1>7, <1>10, <2>1, UploadWrites, ZenonT(30)
  <2>3. Claimed'
    BY <1>4, <2>1, <2>2, ZenonT(30) DEF Claimed, RetryPcs, LaunchPcs, ActPcs, CoreSame
  <2>4. Aborts' /\ Aborted'
    BY <1>4, <1>6, <2>1, <2>2 DEF Aborts, Aborted
  <2> QED BY <1>8, <2>2, <2>3, <2>4, Zenon
<1> QED BY <1>2, <1>9, <1>10, Zenon

(* A launch uploads its own input. *)
LEMMA LaunchUploadKeeps ==
    ASSUME IInv, LaunchUpload
    PROVE  IInv'
<1> USE DEF IInv
<1> DEFINE Then == w' = [w EXCEPT !.pc = "launchDelegate"]
<1>1. /\ w.pc = "launchUpload" /\ Upload(w.a, Then, DeferLaunch)
      /\ UNCHANGED <<plans, expired, guild, job, finding, open>>
  BY Zenon DEF LaunchUpload
<1>2. /\ hold' = hold \/ hold' = [hold EXCEPT !.bytes = @ \cup {w.a}]
      /\ budget' = budget \/ \E kind \in FaultKinds : Fault(kind)
      /\ \/ /\ Then
            /\ db' = db \/ (w.a \in db.info /\ db' = [db EXCEPT !.staged = @ \cup {w.a}])
         \/ DeferLaunch
  <2>1. "unreachable" \in FaultKinds
    BY DEF FaultKinds
  <2> QED BY <1>1, <2>1, Zenon DEF Upload
<1>3. w \in Workers /\ At = "launchUpload" /\ db \in Dbs
  BY <1>1, Facts DEF At
<1>4. /\ w.a \in db.launch \cup db.act \cup db.retry
      /\ w.a \notin db.done /\ w.a \notin db.complete
  BY <1>3 DEF Claimed
<1>5. /\ w.a \in Signed /\ w.c \in Signed \cup {None} /\ w.t \in Signed \cup {None} /\ w.a # None
  BY <1>4, Facts, NoneIsNoId, Zenon DEF Known
<1>6. Settled(w.a) \/ Named(w.a)
  BY <1>4, Zenon DEF Named, Settled
<1>7. Budgeted'
  BY <1>2, BudgetKept, Zenon
<1>8. CASE DeferLaunch
  <2>1. db' = db /\ w' = Idle
    BY <1>8, Zenon DEF DeferLaunch
  <2>2. Typed' /\ Known' /\ Shape' /\ Reported' /\ Closed' /\ Stored'
    BY <1>1, <1>2, <1>4, <1>5, <1>6, <2>1, IdleClaims, UploadWrites, Zenon
  <2> QED BY <1>7, <2>1, <2>2, IdleClaims, Zenon
<1>9. CASE /\ Then
           /\ db' = db \/ (w.a \in db.info /\ db' = [db EXCEPT !.staged = @ \cup {w.a}])
  <2>1. /\ w' \in Workers /\ w'.pc = "launchDelegate" /\ w'.a = w.a /\ w'.c = w.c
        /\ w'.t = w.t /\ At' = "launchDelegate"
    BY <1>3, <1>9 DEF Workers, Pcs, LaunchPcs, At
  <2>2. Typed' /\ Known' /\ Shape' /\ Reported' /\ Closed' /\ Stored' /\ CoreSame
    BY <1>1, <1>2, <1>4, <1>5, <1>6, <1>9, <2>1, UploadWrites, ZenonT(30)
  <2>3. Claimed'
    BY <1>4, <1>5, <2>1, <2>2, ZenonT(30) DEF Claimed, RetryPcs, LaunchPcs, ActPcs, CoreSame
  <2>4. Aborts' /\ Aborted'
    BY <2>1 DEF Aborts, Aborted, RetryPcs
  <2> QED BY <1>7, <2>2, <2>3, <2>4, Zenon
<1> QED BY <1>2, <1>8, <1>9, Zenon

(* enqueue_delegated_coding accepts a job only where there is none. *)
LEMMA DelegateWrites ==
    ASSUME IInv, NEW n \in Signed, db' = db, hold' = hold,
           job' = job \/ (job[n] = "none" /\ job' = [job EXCEPT ![n] = "Pending"]),
           UNCHANGED <<plans, expired, guild, finding, open>>,
           w' \in Workers, w'.a \in Signed \cup {None}, w'.c \in Signed \cup {None},
           w'.t \in Signed \cup {None}
    PROVE  Typed' /\ Known' /\ Shape' /\ Reported' /\ Closed' /\ Stored'
<1> USE DEF IInv
<1>1. n \in Ids /\ db \in Dbs /\ hold \in Holds /\ job \in [Ids -> JobStates]
  BY Facts, Zenon DEF Typed
<1>2. job' \in [Ids -> JobStates]
  BY <1>1 DEF JobStates
<1>3. \A a \in Ids : job'[a] = job[a] \/ (a = n /\ job[a] = "none")
  BY <1>1
<1>4. Typed' /\ Shape'
  BY <1>2, Zenon DEF Typed, Shape
<1>5. Known'
  BY Zenon DEF Known, Signed
<1>6. db.act \subseteq Ids /\ db.retry \subseteq Ids /\ hold.bytes \subseteq Ids
  BY <1>1 DEF Dbs, Holds
<1>7. Reported'
  BY <1>3, <1>6 DEF Reported
<1>8. \A a : Submitted(a)' <=> Submitted(a)
  BY Zenon DEF Submitted
<1>9. \A a \in Ids : Settled(a) => Settled(a)'
  BY <1>3 DEF Settled, Alive
<1>10. Closed' /\ \A a : Named(a)' <=> Named(a)
  BY <1>8, Zenon DEF Closed, Named
<1>11. Stored'
  BY <1>6, <1>9, <1>10, Zenon DEF Stored
<1> QED BY <1>4, <1>5, <1>7, <1>10, <1>11, Zenon

(* A retry dispatches its child. *)
LEMMA RetryDelegateKeeps ==
    ASSUME IInv, RetryDelegate
    PROVE  IInv'
<1> USE DEF IInv
<1>1. /\ w.pc = "retryDelegate"
      /\ Delegate(w.t, db' = db /\ w' = [w EXCEPT !.pc = "retryFinish"], DeferRetry)
      /\ UNCHANGED <<plans, expired, guild, finding, hold, open>>
  BY Zenon DEF RetryDelegate
<1>2. /\ job' = job \/ (job[w.t] = "none" /\ job' = [job EXCEPT ![w.t] = "Pending"])
      /\ budget' = budget \/ \E kind \in FaultKinds : Fault(kind)
      /\ (db' = db /\ w' = [w EXCEPT !.pc = "retryFinish"]) \/ DeferRetry
  <2>1. "unreachable" \in FaultKinds /\ "lost" \in FaultKinds
    BY DEF FaultKinds
  <2> QED BY <1>1, <2>1, Zenon DEF Delegate
<1>3. w \in Workers /\ At = "retryDelegate" /\ db \in Dbs
  BY <1>1, Facts DEF At
<1>4. w.a \in db.retry /\ w.a \notin db.complete /\ ~w.ok /\ w.t # None
  BY <1>3 DEF Claimed, RetryPcs
<1>5. /\ w.a \in Signed /\ w.c \in Signed \cup {None} /\ w.t \in Signed
  BY <1>4, Facts, Zenon DEF Known
<1>6. w.a \in hold.bytes => w.a \in hold.owed
  BY <1>1, <1>3 DEF Aborted, RetryPcs
<1>7. Budgeted'
  BY <1>2, BudgetKept, Zenon
<1>8. CASE DeferRetry
  <2>1. db' = db /\ w' = Idle
    BY <1>3, <1>8, Deferred DEF RetryPcs
  <2>2. Typed' /\ Known' /\ Shape' /\ Reported' /\ Closed' /\ Stored'
    BY <1>1, <1>2, <1>5, <2>1, IdleClaims, DelegateWrites, Zenon
  <2> QED BY <1>7, <2>1, <2>2, IdleClaims, Zenon
<1>9. CASE db' = db /\ w' = [w EXCEPT !.pc = "retryFinish"]
  <2>1. /\ w' \in Workers /\ w'.pc = "retryFinish" /\ w'.a = w.a /\ w'.c = w.c /\ w'.t = w.t
        /\ w'.ok = w.ok /\ At' = "retryFinish"
    BY <1>3, <1>9 DEF Workers, Pcs, RetryPcs, At
  <2>2. Typed' /\ Known' /\ Shape' /\ Reported' /\ Closed' /\ Stored'
    BY <1>1, <1>2, <1>5, <1>9, <2>1, DelegateWrites, Zenon
  <2>3. Claimed'
    BY <1>4, <1>9, <2>1 DEF Claimed, RetryPcs, LaunchPcs, ActPcs
  <2>4. Aborts' /\ Aborted'
    BY <1>1, <1>4, <1>6, <2>1, Zenon DEF Aborts, Aborted
  <2> QED BY <1>7, <2>2, <2>3, <2>4, Zenon
<1> QED BY <1>2, <1>8, <1>9, Zenon

(* complete_claimed_coding_retry closes the job; what its child stored is  *)
(* cleaned up, or is in the care of the child's own job.                   *)
LEMMA RetryFinishKeeps ==
    ASSUME IInv, RetryFinish
    PROVE  IInv'
<1> USE DEF IInv
<1>0. PICK r, c : r = w.a /\ c = db.child[r]
  OBVIOUS
<1>1. /\ w.pc = "retryFinish" /\ w' = Idle
      /\ UNCHANGED <<plans, expired, guild, job, finding, hold, budget, open>>
  BY Zenon DEF RetryFinish
<1>2. w \in Workers /\ At = "retryFinish" /\ db \in Dbs /\ hold \in Holds
  BY <1>1, Facts DEF At
<1>3. /\ r \in db.retry /\ (r \in db.complete => c = None)
  BY <1>0, <1>2 DEF Claimed, RetryPcs
<1>4. r \in Signed /\ r \in Ids /\ c \in Signed \cup {None}
  BY <1>0, <1>3, Facts, Zenon DEF Known
<1>5. /\ r \in hold.bytes => r \in hold.owed
      /\ w.ok => (c \in hold.bytes => Settled(c))
  BY <1>0, <1>1, <1>2 DEF Aborted, RetryPcs
<1>6. CASE db' = db
  <2>1. Typed' /\ Known' /\ Shape' /\ Quiet
    BY <1>1, <1>6, IdleClaims, SilentTyped, Zenon
  <2> QED BY <1>1, <2>1, IdleClaims, QuietStep, Zenon
<1>7. ASSUME NEW T \in {db.terminal, db.terminal \cup {r}}, NEW freed,
             c = None => T = db.terminal,
             T = db.terminal \/ w.ok \/ (c # None /\ Submitted(c)),
             db' = [db EXCEPT !.complete = @ \cup {r}, !.terminal = T,
                              !.info = @ \ freed, !.staged = @ \ freed]
      PROVE  IInv'
  <2>1. /\ db' \in Dbs /\ db'.complete = db.complete \cup {r} /\ db'.terminal = T
        /\ db'.info = db.info \ freed /\ db'.staged = db.staged \ freed
    BY <1>2, <1>4, <1>7, Zenon DEF Dbs
  <2>2. /\ db'.launch = db.launch /\ db'.retry = db.retry /\ db'.child = db.child
        /\ db'.act = db.act /\ db'.done = db.done
        /\ db'.dispatched = db.dispatched /\ db'.replan = db.replan
        /\ db'.retired = db.retired /\ db'.renewed = db.renewed
    BY <1>2, <1>7 DEF Dbs
  <2>3. Typed'
    BY <1>1, <2>1, IdleClaims, Zenon DEF Typed
  <2>4. Known'
    BY <1>1, <2>1, <2>2, IdleClaims, Zenon DEF Known, Signed
  <2>5. T \subseteq db.retry
    BY <1>3, <1>7, Zenon DEF Shape
  <2>6. Shape'
    BY <1>1, <1>3, <2>1, <2>2, <2>5, Zenon DEF Shape
  <2>7. Reported'
    BY <1>1, <2>2, Zenon DEF Reported
  <2>8. \A a : Submitted(a)' <=> Submitted(a)
    BY <2>2, Zenon DEF Submitted
  <2>9. Closed'
    BY <1>0, <1>7, <2>1, <2>2, <2>8, Zenon DEF Closed
  <2>10. ASSUME NEW a, a # r, Settled(a)
         PROVE  Settled(a)'
    BY <1>1, <2>1, <2>2, <2>10, Zenon DEF Settled
  <2>11. ASSUME NEW a, a # r, a # c, Named(a)
         PROVE  Named(a)'
    <3>1. \A x \in db.retry \ {r} : (x \notin T => x \notin db.terminal)
                                 /\ (x \notin db.terminal => x \notin T)
      BY <1>7, Zenon
    <3>2. db.child[r] # a
      BY <1>0, <2>11, Zenon
    <3> QED BY <2>1, <2>2, <2>8, <2>11, <3>1, <3>2, Zenon DEF Named
  <2>12. ASSUME c \in hold.bytes, c # r
         PROVE  Settled(c)' \/ Named(c)'
    <3>1. CASE w.ok
      BY <1>5, <2>10, <2>12, <3>1, Zenon
    <3>2. CASE Submitted(c)
      <4>1. Settled(c)
        <5>1. CASE c \in db.act
          BY <2>12, <5>1, Zenon DEF Stored, Settled
        <5>2. CASE c \in db.retry
          BY <2>12, <5>2, Zenon DEF Stored, Settled
        <5> QED BY <3>2, <5>1, <5>2, Zenon DEF Submitted
      <4> QED BY <2>10, <2>12, <4>1, Zenon
    <3>3. CASE ~w.ok /\ ~Submitted(c)
      <4>1. T = db.terminal
        BY <1>7, <3>3, Zenon
      <4>2. c # None
        <5>1. hold.bytes \subseteq Ids
          BY <1>2 DEF Holds
        <5> QED BY <2>12, <5>1, NoneIsNoId, Zenon
      <4>3. r \notin db.complete
        BY <1>3, <4>2, Zenon
      <4>4. r \notin db.terminal
        BY <1>0, <1>3, <3>3, <4>3, Zenon DEF Closed
      <4>5. db'.child[r] = c /\ r \in db'.retry \ db'.terminal /\ ~Submitted(c)'
        BY <1>0, <1>3, <2>1, <2>2, <2>8, <3>3, <4>1, <4>4, Zenon
      <4> QED BY <4>5, Zenon DEF Named
    <3> QED BY <3>1, <3>2, <3>3, Zenon
  <2>13. Stored'
    BY <1>1, <1>5, <2>1, <2>2, <2>10, <2>11, <2>12, Zenon DEF Stored, Settled
  <2> QED BY <1>1, <2>3, <2>4, <2>6, <2>7, <2>9, <2>13, IdleClaims, BudgetKept, Zenon
<1> QED BY <1>0, <1>6, <1>7, Zenon DEF RetryFinish

-----------------------------------------------------------------------------
(* The worker's launches.                                                  *)

(* A step that gives up the launch of an attempt whose bytes are settled   *)
(* and may queue a newly signed one.                                       *)
LEMMA LaunchWrites ==
    ASSUME IInv, NEW a \in Signed, a \in hold.bytes => Settled(a), db' \in Dbs,
           db'.retry = db.retry, db'.complete = db.complete, db'.terminal = db.terminal,
           db'.child = db.child, db'.act = db.act, db'.done = db.done,
           db'.replan = db.replan, db'.retired = db.retired,
           db.launch \ {a} \subseteq db'.launch,
           db'.launch \subseteq db.launch \cup (Signed' \ Signed),
           db'.info \subseteq Signed', db'.renewed \subseteq Signed',
           db'.dispatched \subseteq db'.launch, db'.staged \subseteq db'.info,
           plans' \in Seq(Plans), Signed \subseteq Signed', Signed' \subseteq Ids,
           UNCHANGED <<expired, guild, job, finding, hold, open>>, w' = Idle,
           budget' = budget \/ \E kind \in FaultKinds : Fault(kind)
    PROVE  IInv'
<1> USE DEF IInv
<1>1. Typed'
  BY IdleClaims, Zenon DEF Typed
<1>2. db'.launch \subseteq Signed'
  BY Zenon DEF Known
<1>3. \A x : x \in Signed \cup {None} => x \in Signed' \cup {None}
  BY Zenon
<1>4. Known'
  BY <1>2, <1>3, IdleClaims, SMTT(30) DEF Known
<1>5. Shape'
  <2>1. db'.launch \cap db'.retry = {}
    BY Zenon DEF Shape, Known
  <2> QED BY <2>1, Zenon DEF Shape
<1>6. \A b : Submitted(b)' <=> Submitted(b)
  BY Zenon DEF Submitted
<1>7. \A b : Settled(b)' <=> Settled(b)
  BY Zenon DEF Settled
<1>8. \A b : b # a /\ Named(b) => Named(b)'
  BY <1>6, Zenon DEF Named
<1>9. Reported' /\ Closed'
  BY <1>6, Zenon DEF Reported, Closed
<1>10. Stored'
  BY <1>7, <1>8, Zenon DEF Stored
<1>11. Budgeted'
  BY BudgetKept, Zenon
<1> QED BY <1>1, <1>4, <1>5, <1>9, <1>10, <1>11, IdleClaims, Zenon

(* What abandon_coding_launch leaves, whether or not a crash cuts it short. *)
LEMMA AbandonWrites ==
    ASSUME NEW d \in Dbs, d.dispatched \subseteq d.launch, d.staged \subseteq d.info,
           NEW a \in Ids, NEW e,
           e = d \/ e = AbandonInput(d, a) \/ e = DropLaunch(AbandonInput(d, a), a)
    PROVE  /\ e \in Dbs /\ e.retry = d.retry /\ e.complete = d.complete
           /\ e.terminal = d.terminal /\ e.child = d.child /\ e.act = d.act
           /\ e.done = d.done /\ e.replan = d.replan /\ e.retired = d.retired
           /\ e.renewed = d.renewed
           /\ d.launch \ {a} \subseteq e.launch /\ e.launch \subseteq d.launch
           /\ e.info \subseteq d.info
           /\ e.dispatched \subseteq e.launch /\ e.staged \subseteq e.info
<1> DEFINE I == AbandonInput(d, a)
<1>1. PICK N \in {d.info, d.info \ {a}} : I = [d EXCEPT !.staged = @ \ {a}, !.info = N]
  BY Zenon DEF AbandonInput
<1> HIDE DEF I
<1>2. /\ I \in Dbs /\ I.retry = d.retry /\ I.complete = d.complete
      /\ I.terminal = d.terminal /\ I.child = d.child /\ I.act = d.act
      /\ I.done = d.done /\ I.replan = d.replan /\ I.retired = d.retired
      /\ I.renewed = d.renewed /\ I.launch = d.launch /\ I.dispatched = d.dispatched
      /\ I.info = N /\ I.staged = d.staged \ {a}
  BY <1>1, Zenon DEF Dbs
<1>3. I.staged \subseteq I.info /\ I.info \subseteq d.info
  BY <1>2
<1>4. CASE e = d
  BY <1>4, Zenon
<1>5. CASE e = I
  BY <1>2, <1>3, <1>5, Zenon
<1>6. CASE e = DropLaunch(I, a)
  <2>1. e = [I EXCEPT !.launch = @ \ {a}, !.dispatched = @ \ {a}]
    BY <1>6, Zenon DEF DropLaunch
  <2>2. /\ e \in Dbs /\ e.retry = d.retry /\ e.complete = d.complete
        /\ e.terminal = d.terminal /\ e.child = d.child /\ e.act = d.act
        /\ e.done = d.done /\ e.replan = d.replan /\ e.retired = d.retired
        /\ e.renewed = d.renewed /\ e.launch = d.launch \ {a}
        /\ e.dispatched = d.dispatched \ {a}
        /\ e.info = I.info /\ e.staged = I.staged
    BY <1>2, <2>1, Zenon DEF Dbs
  <2> QED BY <1>3, <2>2, Zenon
<1> QED BY <1>4, <1>5, <1>6, Zenon DEF I

(* Giving a launch up when its bytes are settled. *)
LEMMA AbandonKeeps ==
    ASSUME IInv, NEW a \in Signed, a \in hold.bytes => Settled(a), Abandon(db, a),
           UNCHANGED <<plans, expired, guild, job, finding, hold, open>>
    PROVE  IInv'
<1>1. /\ db' = AbandonInput(db, a) \/ db' = DropLaunch(AbandonInput(db, a), a)
      /\ w' = Idle
      /\ budget' = budget \/ \E kind \in FaultKinds : Fault(kind)
  <2>1. "crash" \in FaultKinds
    BY DEF FaultKinds
  <2> QED BY <2>1, Zenon DEF Abandon
<1>2. /\ db \in Dbs /\ db.dispatched \subseteq db.launch /\ db.staged \subseteq db.info
      /\ a \in Ids
  BY Facts, Zenon DEF IInv, Shape
<1>3. /\ db' \in Dbs /\ db'.retry = db.retry /\ db'.complete = db.complete
      /\ db'.terminal = db.terminal /\ db'.child = db.child /\ db'.act = db.act
      /\ db'.done = db.done /\ db'.replan = db.replan /\ db'.retired = db.retired
      /\ db'.renewed = db.renewed
      /\ db.launch \ {a} \subseteq db'.launch /\ db'.launch \subseteq db.launch
      /\ db'.info \subseteq db.info
      /\ db'.dispatched \subseteq db'.launch /\ db'.staged \subseteq db'.info
  BY <1>1, <1>2, AbandonWrites, Zenon
<1>4. /\ plans' \in Seq(Plans) /\ Signed' = Signed /\ Signed \subseteq Ids
      /\ db.info \subseteq Signed /\ db.renewed \subseteq Signed
  BY Zenon DEF IInv, Typed, Known, Signed
<1>5. /\ db'.launch \subseteq db.launch \cup (Signed' \ Signed)
      /\ db'.info \subseteq Signed' /\ db'.renewed \subseteq Signed'
      /\ Signed \subseteq Signed' /\ Signed' \subseteq Ids
  BY <1>3, <1>4, Zenon
<1> QED BY <1>1, <1>3, <1>4, <1>5, LaunchWrites, Zenon

(* dispatch_next_coding_launch_after claims a launch. *)
LEMMA ClaimLaunchKeeps ==
    ASSUME IInv, NEW a \in Ids, ClaimLaunch(a)
    PROVE  IInv'
<1> USE DEF IInv
<1>1. /\ w.pc = "idle" /\ a \in db.launch
      /\ UNCHANGED <<plans, expired, guild, job, finding, hold, open>>
  BY Zenon DEF ClaimLaunch
<1>2. a \in Signed /\ a \notin db.retry /\ a # None
  BY <1>1, NoneIsNoId, Zenon DEF Known, Shape
<1>3. \/ Submitted(a) /\ Abandon(db, a)
      \/ /\ budget' = budget /\ db' = Fence(db, a)
         /\ \E next \in {"launchAbandon", "launchRenew"} :
              w' = [[Idle EXCEPT !.a = a] EXCEPT !.pc = "abort", !.t = a, !.next = next]
      \/ /\ budget' = budget /\ db' = db /\ ~Submitted(a)
         /\ w' = [[Idle EXCEPT !.a = a] EXCEPT !.pc = "launchUpload"]
  BY DEF ClaimLaunch, VerifiedResult, Submitted
<1>4. CASE Submitted(a) /\ Abandon(db, a)
  <2>1. a \in hold.bytes => Settled(a)
    BY <1>2, <1>4, Zenon DEF Stored, Submitted, Settled
  <2> QED BY <1>1, <1>2, <1>4, <2>1, AbandonKeeps, Zenon
<1>5. ASSUME NEW next \in {"launchAbandon", "launchRenew"}, db' = Fence(db, a), budget' = budget,
             w' = [[Idle EXCEPT !.a = a] EXCEPT !.pc = "abort", !.t = a, !.next = next]
      PROVE  IInv'
  <2>1. /\ w' \in Workers /\ w'.pc = "abort" /\ w'.a = a /\ w'.c = None /\ w'.t = a
        /\ w'.next = next /\ w'.policy = "fenced"
    BY <1>5, Zenon DEF Idle, Workers, Pcs, LaunchPcs, MaybeIds
  <2>2. At' = next
    BY <2>1 DEF At
  <2>3. Typed' /\ Known' /\ Shape' /\ Quiet
    BY <1>1, <1>2, <1>5, <2>1, FencedTyped, Zenon
  <2>4. Claimed'
    BY <1>2, <1>5, <2>1, <2>2 DEF Claimed, RetryPcs, LaunchPcs, ActPcs
  <2>5. Aborts' /\ Aborted'
    BY <1>5, <2>1, <2>2 DEF Aborts, Aborted, RetryPcs
  <2> QED BY <1>5, <2>3, <2>4, <2>5, QuietStep, Zenon
<1>6. CASE /\ budget' = budget /\ db' = db /\ ~Submitted(a)
           /\ w' = [[Idle EXCEPT !.a = a] EXCEPT !.pc = "launchUpload"]
  <2>1. /\ w' \in Workers /\ w'.pc = "launchUpload" /\ w'.a = a /\ w'.c = None /\ w'.t = None
    BY <1>6, Zenon DEF Idle, Workers, Pcs, LaunchPcs, MaybeIds
  <2>2. At' = "launchUpload"
    BY <2>1 DEF At
  <2>3. Typed' /\ Known' /\ Shape' /\ Quiet
    BY <1>1, <1>2, <1>6, <2>1, SilentTyped, Zenon
  <2>4. a \notin db.done \cup db.complete
    BY <1>6, Zenon DEF Shape, Submitted
  <2>5. Claimed'
    BY <1>1, <1>2, <1>6, <2>1, <2>2, <2>4, Zenon DEF Claimed, RetryPcs, LaunchPcs, ActPcs
  <2>6. Aborts' /\ Aborted'
    BY <2>1, <2>2 DEF Aborts, Aborted, RetryPcs
  <2> QED BY <1>6, <2>3, <2>5, <2>6, QuietStep, Zenon
<1> QED BY <1>3, <1>4, <1>5, <1>6, Zenon

(* renew_coding_launch_after_cleanup names the successor and gives it the  *)
(* input.                                                                  *)
LEMMA RenewedWrites ==
    ASSUME db \in Dbs, NEW a \in Ids, NEW n \in Ids, NEW d, d = Renewed(a, n)
    PROVE  /\ d \in Dbs /\ d.retry = db.retry /\ d.complete = db.complete
           /\ d.terminal = db.terminal /\ d.child = db.child /\ d.act = db.act
           /\ d.done = db.done /\ d.replan = db.replan /\ d.retired = db.retired
           /\ d.launch = db.launch /\ d.dispatched = db.dispatched
           /\ d.staged = db.staged /\ d.renewed = db.renewed \cup {a}
           /\ db.info \subseteq d.info /\ d.info \subseteq db.info \cup {n}
<1>1. PICK N \in {db.info, db.info \cup {n}} :
         d = [db EXCEPT !.renewed = @ \cup {a}, !.info = N]
  BY Zenon DEF Renewed
<1>0. N \in SUBSET Ids
  <2>1. db.info \in SUBSET Ids
    BY DEF Dbs
  <2> QED BY <2>1
<1>2. d \in Dbs
  <2>1. db.renewed \cup {a} \in SUBSET Ids
    BY DEF Dbs
  <2>2. PICK R \in SUBSET Ids : d = [db EXCEPT !.renewed = R, !.info = N]
    BY <1>1, <2>1, Zenon
  <2> QED BY <1>0, <2>2, Zenon DEF Dbs
<1>5. /\ d.retry = db.retry /\ d.complete = db.complete
      /\ d.terminal = db.terminal /\ d.child = db.child /\ d.act = db.act
      /\ d.done = db.done /\ d.replan = db.replan
  BY <1>1 DEF Dbs
<1>3. /\ d.retired = db.retired
      /\ d.launch = db.launch /\ d.dispatched = db.dispatched
      /\ d.staged = db.staged /\ d.renewed = db.renewed \cup {a} /\ d.info = N
  BY <1>1 DEF Dbs
<1>4. db.info \subseteq N /\ N \subseteq db.info \cup {n}
  BY <1>1
<1> QED BY <1>2, <1>3, <1>4, <1>5, Zenon

(* An expired launch yields to an owner of the lane or to a new launch. *)
LEMMA LaunchRenewKeeps ==
    ASSUME IInv, LaunchRenew
    PROVE  IInv'
<1> USE DEF IInv
<1>0. PICK a : a = w.a
  OBVIOUS
<1>1. w.pc = "launchRenew" /\ UNCHANGED <<expired, guild, job, finding, hold, open>>
  BY Zenon DEF LaunchRenew
<1>2. w \in Workers /\ At = "launchRenew" /\ db \in Dbs
  BY <1>1, Facts DEF At
<1>3. a \in Signed /\ a \in Ids
  <2>1. a # None
    BY <1>0, <1>2 DEF Claimed, LaunchPcs
  <2> QED BY <1>0, <2>1, Facts, Zenon DEF Known
<1>4. a \in hold.bytes => Settled(a)
  BY <1>0, <1>1 DEF Aborted
<1>5. /\ db.dispatched \subseteq db.launch /\ db.staged \subseteq db.info
      /\ db.info \subseteq Signed /\ db.renewed \subseteq Signed /\ plans \in Seq(Plans)
      /\ Signed \subseteq Ids
  BY Zenon DEF Shape, Known, Typed
<1>6. CASE Abandon(db, a) /\ plans' = plans
  BY <1>1, <1>3, <1>4, <1>6, AbandonKeeps, Zenon
<1>7. ASSUME w' = Idle, db' = db, plans' = plans,
             budget' = budget \/ \E kind \in FaultKinds : Fault(kind)
      PROVE  IInv'
  <2>1. Typed' /\ Known' /\ Shape' /\ Quiet
    BY <1>1, <1>7, IdleClaims, SilentTyped, Zenon
  <2> QED BY <1>7, <2>1, IdleClaims, QuietStep, Zenon
<1>8. ASSUME NEW n \in Ids, NEW L \in SUBSET (Signed' \ Signed), n \in Signed',
             plans' \in Seq(Plans), Signed \subseteq Signed', Signed' \subseteq Ids,
             NEW d, d = [Renewed(a, n) EXCEPT !.launch = @ \cup L],
             db' = d \/ db' = AbandonInput(d, a) \/ db' = DropLaunch(AbandonInput(d, a), a),
             w' = Idle, budget' = budget \/ \E kind \in FaultKinds : Fault(kind)
      PROVE  IInv'
  <2>1. PICK e : e = Renewed(a, n)
    OBVIOUS
  <2>2. /\ e \in Dbs /\ e.retry = db.retry /\ e.complete = db.complete
        /\ e.terminal = db.terminal /\ e.child = db.child /\ e.act = db.act
        /\ e.done = db.done /\ e.replan = db.replan /\ e.retired = db.retired
        /\ e.launch = db.launch /\ e.dispatched = db.dispatched
        /\ e.staged = db.staged /\ e.renewed = db.renewed \cup {a}
        /\ db.info \subseteq e.info /\ e.info \subseteq db.info \cup {n}
    BY <1>2, <1>3, <1>8, <2>1, RenewedWrites
  <2>3. d = [e EXCEPT !.launch = @ \cup L]
    BY <1>8, <2>1, Zenon
  <2>4. L \subseteq Ids
    BY <1>8, Zenon
  <2>5. /\ d \in Dbs /\ d.retry = db.retry /\ d.complete = db.complete
        /\ d.terminal = db.terminal /\ d.child = db.child /\ d.act = db.act
        /\ d.done = db.done /\ d.replan = db.replan /\ d.retired = db.retired
        /\ d.launch = db.launch \cup L /\ d.dispatched = db.dispatched
        /\ d.staged = db.staged /\ d.renewed = db.renewed \cup {a} /\ d.info = e.info
    BY <2>2, <2>3, <2>4 DEF Dbs
  <2>6. d.dispatched \subseteq d.launch /\ d.staged \subseteq d.info
    BY <1>5, <2>2, <2>5, Zenon
  <2>7. /\ db' \in Dbs /\ db'.retry = d.retry /\ db'.complete = d.complete
        /\ db'.terminal = d.terminal /\ db'.child = d.child /\ db'.act = d.act
        /\ db'.done = d.done /\ db'.replan = d.replan /\ db'.retired = d.retired
        /\ db'.renewed = d.renewed
        /\ d.launch \ {a} \subseteq db'.launch /\ db'.launch \subseteq d.launch
        /\ db'.info \subseteq d.info
        /\ db'.dispatched \subseteq db'.launch /\ db'.staged \subseteq db'.info
    BY <1>3, <1>8, <2>5, <2>6, AbandonWrites, Zenon
  <2>8. /\ db.launch \ {a} \subseteq db'.launch
        /\ db'.launch \subseteq db.launch \cup (Signed' \ Signed)
    BY <1>8, <2>5, <2>7, Zenon
  <2>9. db'.info \subseteq Signed' /\ db'.renewed \subseteq Signed'
    <3>1. db'.info \subseteq db.info \cup {n} /\ db'.renewed = db.renewed \cup {a}
      BY <2>2, <2>5, <2>7, Zenon
    <3> QED BY <1>3, <1>5, <1>8, <3>1, Zenon
  <2> QED BY <1>1, <1>3, <1>4, <1>8, <2>5, <2>7, <2>8, <2>9, LaunchWrites, Zenon
<1>9. ASSUME NEW n \in RenewalCandidates(a), RenewWith(a, n), plans' = plans
      PROVE  IInv'
  <2>1. n \in Signed
    <3>1. \/ n \in db.act \/ n \in db.launch
          \/ \E r \in db.retry : n = db.child[r] /\ LiveChild(n)
      BY <1>9 DEF RenewalCandidates
    <3>2. db.retry \subseteq Ids
      BY <1>2 DEF Dbs
    <3> QED BY <3>1, <3>2, Zenon DEF LiveChild, Known
  <2>2. PICK d : d = Renewed(a, n)
    OBVIOUS
  <2>3. /\ db' = d \/ db' = AbandonInput(d, a) \/ db' = DropLaunch(AbandonInput(d, a), a)
        /\ w' = Idle
        /\ budget' = budget \/ \E kind \in FaultKinds : Fault(kind)
    <3>1. "crash" \in FaultKinds
      BY DEF FaultKinds
    <3> QED BY <1>9, <2>2, <3>1, Zenon DEF RenewWith, Abandon
  <2>4. d = [Renewed(a, n) EXCEPT !.launch = @ \cup {}]
    <3>1. d \in Dbs
      BY <1>2, <1>3, <1>5, <2>1, <2>2, RenewedWrites, Zenon
    <3>2. d = [d EXCEPT !.launch = @ \cup {}]
      BY <3>1 DEF Dbs
    <3> QED BY <2>2, <3>2, Zenon
  <2>5. Signed' = Signed
    BY <1>9, Zenon DEF Signed
  <2>6. n \in Ids /\ n \in Signed' /\ plans' \in Seq(Plans) /\ {} \in SUBSET (Signed' \ Signed)
        /\ Signed \subseteq Signed' /\ Signed' \subseteq Ids
    BY <1>5, <1>9, <2>1, <2>5, Zenon
  <2> QED BY <1>8, <2>3, <2>4, <2>6, Zenon
<1>10. ASSUME RenewAfresh(a), w' = Idle
       PROVE  IInv'
  <2>1. \/ /\ \E p \in Pairs : \E g : Sign(p, g, FALSE)
           /\ \E d : /\ d = [Renewed(a, New) EXCEPT !.launch = @ \cup {New}]
                     /\ \/ db' = d \/ db' = AbandonInput(d, a)
                        \/ db' = DropLaunch(AbandonInput(d, a), a)
           /\ budget' = budget \/ Fault("unreachable") \/ Fault("crash")
        \/ /\ db' = db /\ plans' = plans
           /\ budget' = budget \/ Fault("unreachable")
    BY <1>10, Zenon DEF RenewAfresh, Offer
  <2>2. budget' = budget \/ \E kind \in FaultKinds : Fault(kind)
    BY <2>1, Zenon DEF FaultKinds
  <2>3. ASSUME NEW p \in Pairs, NEW g, Sign(p, g, FALSE),
               NEW d, d = [Renewed(a, New) EXCEPT !.launch = @ \cup {New}],
               db' = d \/ db' = AbandonInput(d, a) \/ db' = DropLaunch(AbandonInput(d, a), a)
        PROVE  IInv'
    <3>1. /\ New \in Ids /\ New \notin Signed /\ plans' \in Seq(Plans)
          /\ Signed' = Signed \cup {New} /\ Signed' \subseteq Ids
      BY <2>3, SignAdds, Zenon
    <3>2. New \in Signed' /\ {New} \in SUBSET (Signed' \ Signed) /\ Signed \subseteq Signed'
      BY <3>1, Zenon
    <3> QED BY <1>8, <1>10, <2>2, <2>3, <3>1, <3>2, Zenon
  <2> QED BY <1>7, <1>10, <2>1, <2>2, <2>3, Zenon
<1>11. \/ Abandon(db, a) /\ plans' = plans
       \/ w' = Idle /\ db' = db /\ plans' = plans /\ budget' = budget
       \/ (\E n \in RenewalCandidates(a) : RenewWith(a, n)) /\ plans' = plans
       \/ RenewAfresh(a) /\ w' = Idle
  BY <1>0, Zenon DEF LaunchRenew
<1> QED BY <1>6, <1>7, <1>9, <1>10, <1>11, Zenon

(* The other steps of a launch: giving it up, dispatching it, and noting   *)
(* that it was dispatched.                                                 *)
LEMMA LaunchAbandonKeeps ==
    ASSUME IInv, LaunchAbandon
    PROVE  IInv'
<1> USE DEF IInv
<1>1. /\ w.pc = "launchAbandon" /\ Abandon(db, w.a)
      /\ UNCHANGED <<plans, expired, guild, job, finding, hold, open>>
  BY Zenon DEF LaunchAbandon
<1>2. At = "launchAbandon"
  BY <1>1 DEF At
<1>3. w.a \in Signed
  <2>1. w.a # None
    BY <1>2 DEF Claimed, LaunchPcs
  <2> QED BY <2>1, Zenon DEF Known
<1>4. w.a \in hold.bytes => Settled(w.a)
  BY <1>1 DEF Aborted
<1>5. PICK a : a = w.a
  OBVIOUS
<1> QED BY <1>1, <1>3, <1>4, <1>5, AbandonKeeps, Zenon

LEMMA LaunchDelegateKeeps ==
    ASSUME IInv, LaunchDelegate
    PROVE  IInv'
<1> USE DEF IInv
<1>0. PICK a : a = w.a
  OBVIOUS
<1>1. w.pc = "launchDelegate" /\ UNCHANGED <<plans, expired, guild, finding, hold, open>>
  BY Zenon DEF LaunchDelegate
<1>2. /\ w \in Workers /\ At = "launchDelegate" /\ db \in Dbs /\ "launchAbandon" \in Pcs
  BY <1>1, Facts DEF At, Pcs, LaunchPcs
<1>3. /\ a \in db.launch \cup db.act \cup db.retry /\ a # None
      /\ a \notin db.done /\ a \notin db.complete
  BY <1>0, <1>2 DEF Claimed, LaunchPcs
<1>4. /\ a \in Signed /\ a \in Ids /\ w.c \in Signed \cup {None} /\ w.t \in Signed \cup {None}
  BY <1>0, <1>3, Facts, Zenon DEF Known
<1>5. CASE /\ db' = Fence(db, a) /\ w' = Aborting(a, "fenced", "launchAbandon")
           /\ job' = job /\ budget' = budget
  <2>1. a \in MaybeIds
    BY <1>4, Zenon DEF MaybeIds
  <2>2. /\ w' \in Workers /\ w'.pc = "abort" /\ w'.t = a /\ w'.next = "launchAbandon"
        /\ w'.policy = "fenced" /\ w'.a = a /\ w'.c = w.c
    BY <1>0, <1>2, <1>5, <2>1, AbortingWorker
  <2>3. At' = "launchAbandon"
    BY <2>2 DEF At
  <2>4. Typed' /\ Known' /\ Shape' /\ Quiet
    BY <1>1, <1>4, <1>5, <2>2, FencedTyped, Zenon
  <2>5. Claimed'
    BY <1>3, <2>2, <2>3, ZenonT(30) DEF Claimed, RetryPcs, LaunchPcs, ActPcs
  <2>6. Aborts' /\ Aborted'
    BY <2>2, <2>3 DEF Aborts, Aborted, RetryPcs
  <2> QED BY <1>5, <2>4, <2>5, <2>6, QuietStep, Zenon
<1>6. CASE a \in db.act /\ Abandon(db, a) /\ job' = job
  <2>1. Settled(a)
    BY <1>3, <1>6, Zenon DEF Settled
  <2> QED BY <1>1, <1>4, <1>6, <2>1, AbandonKeeps, Zenon
<1>7. CASE Delegate(a, db' = db /\ w' = [w EXCEPT !.pc = "launchFinish"], DeferLaunch)
  <2>1. /\ job' = job \/ (job[a] = "none" /\ job' = [job EXCEPT ![a] = "Pending"])
        /\ budget' = budget \/ \E kind \in FaultKinds : Fault(kind)
        /\ (db' = db /\ w' = [w EXCEPT !.pc = "launchFinish"]) \/ (db' = db /\ w' = Idle)
    <3>1. "unreachable" \in FaultKinds /\ "lost" \in FaultKinds
      BY DEF FaultKinds
    <3> QED BY <1>7, <3>1, Zenon DEF Delegate, DeferLaunch
  <2>2. Budgeted'
    BY <2>1, BudgetKept, Zenon
  <2>3. CASE db' = db /\ w' = Idle
    <3>1. Typed' /\ Known' /\ Shape' /\ Reported' /\ Closed' /\ Stored'
      BY <1>1, <1>4, <2>1, <2>3, IdleClaims, DelegateWrites, ZenonT(30)
    <3> QED BY <2>2, <2>3, <3>1, IdleClaims, Zenon
  <2>4. CASE db' = db /\ w' = [w EXCEPT !.pc = "launchFinish"]
    <3>1. /\ w' \in Workers /\ w'.pc = "launchFinish" /\ w'.a = a /\ w'.c = w.c /\ w'.t = w.t
          /\ At' = "launchFinish"
      BY <1>0, <1>2, <2>4 DEF Workers, Pcs, LaunchPcs, At
    <3>2. Typed' /\ Known' /\ Shape' /\ Reported' /\ Closed' /\ Stored'
      BY <1>1, <1>4, <2>1, <2>4, <3>1, DelegateWrites, ZenonT(30)
    <3>3. Claimed'
      BY <1>3, <3>1, ZenonT(30) DEF Claimed, RetryPcs, LaunchPcs, ActPcs
    <3>4. Aborts' /\ Aborted'
      BY <3>1 DEF Aborts, Aborted, RetryPcs
    <3> QED BY <2>2, <3>2, <3>3, <3>4, Zenon
  <2> QED BY <2>1, <2>3, <2>4, Zenon
<1> QED BY <1>0, <1>5, <1>6, <1>7, Zenon DEF LaunchDelegate

LEMMA LaunchFinishKeeps ==
    ASSUME IInv, LaunchFinish
    PROVE  IInv'
<1> USE DEF IInv
<1>1. /\ w' = Idle
      /\ db' = db \/ (w.a \in db.launch /\ db' = [db EXCEPT !.dispatched = @ \cup {w.a}])
      /\ UNCHANGED <<plans, expired, guild, job, finding, hold, budget, open>>
  BY Zenon DEF LaunchFinish
<1>2. CASE db' = db
  <2>1. Typed' /\ Known' /\ Shape' /\ Quiet
    BY <1>1, <1>2, IdleClaims, SilentTyped, Zenon
  <2> QED BY <1>1, <2>1, IdleClaims, QuietStep, Zenon
<1>3. CASE w.a \in db.launch /\ db' = [db EXCEPT !.dispatched = @ \cup {w.a}]
  <2>1. db \in Dbs
    BY Facts, Zenon
  <2>2. /\ db' \in Dbs /\ CoreSame /\ db'.dispatched = db.dispatched \cup {w.a}
        /\ db'.info = db.info /\ db'.staged = db.staged /\ db'.replan = db.replan
        /\ db'.retired = db.retired /\ db'.renewed = db.renewed
    BY <1>3, <2>1 DEF Dbs, CoreSame
  <2>3. Typed'
    BY <1>1, <2>2, IdleClaims, Zenon DEF Typed
  <2>4. Known' /\ Shape' /\ Quiet
    BY <1>1, <1>3, <2>2, IdleClaims, Zenon DEF Known, Signed, Shape, CoreSame, Quiet
  <2> QED BY <1>1, <2>3, <2>4, IdleClaims, QuietStep, Zenon
<1> QED BY <1>1, <1>2, <1>3, Zenon

-----------------------------------------------------------------------------
(* The worker's activations.                                               *)

(* claim_coding_activation reopens the job it claims. *)
LEMMA ClaimActivationKeeps ==
    ASSUME IInv, ClaimActivation
    PROVE  IInv'
<1> USE DEF IInv
<1>1. PICK a \in Claimable, x \in BOOLEAN :
        /\ db' = [db EXCEPT !.done = @ \ {a}]
        /\ w' = [Idle EXCEPT !.pc = "actMark", !.a = a, !.ok = x]
  BY Zenon DEF ClaimActivation
<1>2. UNCHANGED <<plans, expired, guild, job, finding, hold, budget, open>>
  BY Zenon DEF ClaimActivation
<1>3. a \in db.act
  BY <1>1 DEF Claimable, First
<1>4. a \in Signed /\ a \in Ids /\ db \in Dbs
  BY <1>3, Facts, Zenon DEF Known
<1>5. /\ w' \in Workers /\ w'.pc = "actMark" /\ w'.a = a /\ w'.c = None /\ w'.t = None
  BY <1>1, <1>4, Zenon DEF Idle, Workers, Pcs, ActPcs, MaybeIds
<1>6. At' = "actMark"
  BY <1>5 DEF At
<1>7. /\ db' \in Dbs /\ db'.done = db.done \ {a} /\ db'.launch = db.launch
      /\ db'.retry = db.retry /\ db'.complete = db.complete /\ db'.terminal = db.terminal
      /\ db'.child = db.child /\ db'.act = db.act /\ db'.replan = db.replan
  BY <1>1, <1>4 DEF Dbs
<1>8. /\ db'.dispatched = db.dispatched /\ db'.info = db.info /\ db'.staged = db.staged
      /\ db'.retired = db.retired /\ db'.renewed = db.renewed
  BY <1>1, <1>4 DEF Dbs
<1>9. Typed'
  BY <1>2, <1>5, <1>7, Zenon DEF Typed
<1>10. Known'
  BY <1>2, <1>4, <1>5, <1>7, <1>8, Zenon DEF Known, Signed
<1>11. Shape'
  BY <1>2, <1>7, <1>8, Zenon DEF Shape
<1>12. \A b : Submitted(b)' <=> Submitted(b)
  BY <1>7, Zenon DEF Submitted
<1>13. Reported' /\ Closed'
  BY <1>2, <1>7, <1>12, Zenon DEF Reported, Closed
<1>14. \A b : (Settled(b) => Settled(b)') /\ (Named(b)' <=> Named(b))
  BY <1>2, <1>3, <1>7, <1>12, Zenon DEF Settled, Named
<1>15. Stored'
  BY <1>2, <1>7, <1>14, Zenon DEF Stored
<1>16. Claimed'
  BY <1>3, <1>5, <1>6, <1>7, ZenonT(30) DEF Claimed, RetryPcs, LaunchPcs, ActPcs
<1>17. Aborts' /\ Aborted'
  BY <1>5, <1>6 DEF Aborts, Aborted, RetryPcs
<1>18. Budgeted'
  BY <1>2, BudgetKept, Zenon
<1> QED BY <1>9, <1>10, <1>11, <1>13, <1>15, <1>16, <1>17, <1>18, ZenonT(30)

(* process_coding_activation_job chooses the route of the job. *)
LEMMA ActMarkKeeps ==
    ASSUME IInv, ActMark
    PROVE  IInv'
<1> USE DEF IInv
<1>0. PICK a : a = w.a
  OBVIOUS
<1>1. /\ w.pc = "actMark"
      /\ UNCHANGED <<plans, expired, guild, job, finding, hold, budget, open>>
  BY Zenon DEF ActMark
<1>2. \/ w' = [Idle EXCEPT !.pc = "dead"] /\ db' = db
      \/ /\ db' = db \/ db' = [db EXCEPT !.replan = @ \cup {a}]
         /\ \/ \E policy \in {"stale", "strict"} :
                 w' = [Aborting(a, policy, "actComplete") EXCEPT !.ok = FALSE]
            \/ w' = [w EXCEPT !.pc = "actActivate"]
  BY <1>0 DEF ActMark
<1>3. w \in Workers /\ At = "actMark" /\ db \in Dbs
  BY <1>1, Facts, Zenon DEF At
<1>4. a \in db.act /\ a \notin db.done
  BY <1>0, <1>3 DEF Claimed, ActPcs
<1>5. /\ a \in Signed /\ a \in Ids /\ w.c \in Signed \cup {None} /\ w.t \in Signed \cup {None}
  BY <1>0, <1>4, Facts, Zenon DEF Known
<1>6. CASE w' = [Idle EXCEPT !.pc = "dead"] /\ db' = db
  <2>1. /\ w' \in Workers /\ w'.pc = "dead" /\ w'.a = None /\ w'.c = None /\ w'.t = None
    BY <1>6, Zenon DEF Idle, Workers, Pcs, MaybeIds
  <2>2. At' = "dead"
    BY <2>1 DEF At
  <2>3. Typed' /\ Known' /\ Shape' /\ Quiet
    BY <1>1, <1>6, <2>1, SilentTyped, ZenonT(30)
  <2>4. Claimed' /\ Aborts' /\ Aborted'
    BY <2>1, <2>2 DEF Claimed, Aborts, Aborted, RetryPcs, LaunchPcs, ActPcs
  <2> QED BY <1>1, <2>3, <2>4, QuietStep, Zenon
<1>7. ASSUME db' = db \/ db' = [db EXCEPT !.replan = @ \cup {a}],
             w' \in Workers, w'.a = a, w'.c = w.c, w'.t \in {a, w.t},
             \/ w'.pc = "actActivate"
             \/ w'.pc = "abort" /\ w'.next = "actComplete" /\ w'.t = a
      PROVE  IInv'
  <2>1. /\ db' \in Dbs /\ CoreSame /\ db'.dispatched = db.dispatched /\ db'.info = db.info
        /\ db'.staged = db.staged /\ db'.retired = db.retired /\ db'.renewed = db.renewed
        /\ db'.replan = db.replan \/ db'.replan = db.replan \cup {a}
    BY <1>3, <1>5, <1>7 DEF Dbs, CoreSame
  <2>2. Typed'
    BY <1>1, <1>7, <2>1, Zenon DEF Typed
  <2>3. w'.t \in Signed \cup {None}
    BY <1>5, <1>7
  <2>4. Known'
    BY <1>1, <1>5, <1>7, <2>1, <2>3, Zenon DEF Known, Signed, CoreSame
  <2>5. Shape'
    BY <1>1, <1>4, <2>1, Zenon DEF Shape, CoreSame
  <2>6. Quiet
    BY <1>1, <2>1, Zenon DEF Quiet
  <2>7. At' \in {"actActivate", "actComplete"}
    BY <1>7 DEF At
  <2>8. Claimed'
    BY <1>4, <1>7, <2>1, <2>7, Zenon DEF Claimed, RetryPcs, LaunchPcs, ActPcs, CoreSame
  <2>9. Aborts' /\ Aborted'
    BY <1>7, <2>7 DEF Aborts, Aborted, RetryPcs
  <2> QED BY <1>1, <2>2, <2>4, <2>5, <2>6, <2>8, <2>9, QuietStep, Zenon
<1>8. ASSUME db' = db \/ db' = [db EXCEPT !.replan = @ \cup {a}],
             NEW policy \in {"stale", "strict"},
             w' = [Aborting(a, policy, "actComplete") EXCEPT !.ok = FALSE]
      PROVE  IInv'
  <2>1. PICK k : k = Aborting(a, policy, "actComplete")
    OBVIOUS
  <2>2. a \in MaybeIds /\ "actComplete" \in Pcs
    BY <1>5 DEF MaybeIds, Pcs, ActPcs
  <2>3. /\ k \in Workers /\ k.pc = "abort" /\ k.t = a /\ k.next = "actComplete"
        /\ k.a = w.a /\ k.c = w.c
    BY <1>3, <1>8, <2>1, <2>2, AbortingWorker
  <2>4. w' = [k EXCEPT !.ok = FALSE]
    BY <1>8, <2>1, Zenon
  <2>5. /\ w' \in Workers /\ w'.pc = "abort" /\ w'.t = a /\ w'.next = "actComplete"
        /\ w'.a = a /\ w'.c = w.c
    BY <1>0, <2>3, <2>4, Zenon DEF Workers
  <2> QED BY <1>7, <1>8, <2>5
<1>9. ASSUME db' = db \/ db' = [db EXCEPT !.replan = @ \cup {a}],
             w' = [w EXCEPT !.pc = "actActivate"]
      PROVE  IInv'
  <2>1. /\ w' \in Workers /\ w'.pc = "actActivate" /\ w'.t = w.t /\ w'.a = a /\ w'.c = w.c
    BY <1>0, <1>3, <1>9 DEF Workers, Pcs, ActPcs
  <2> QED BY <1>7, <1>9, <2>1
<1> QED BY <1>2, <1>6, <1>8, <1>9, Zenon

(* finish_coding_activation makes the bytes ready before it signs. *)
LEMMA ActActivateKeeps ==
    ASSUME IInv, ActActivate
    PROVE  IInv'
<1> USE DEF IInv
<1>0. PICK a : a = w.a
  OBVIOUS
<1>1. w.pc = "actActivate" /\ UNCHANGED <<plans, expired, guild, job, finding, open>>
  BY Zenon DEF ActActivate
<1>2. /\ budget' = budget \/ Fault("unreachable")
      /\ db' = db \/ db' = [db EXCEPT !.bound[G(a)] = a]
      /\ \/ /\ a \in hold.bytes /\ hold' = [hold EXCEPT !.ready = @ \cup {a}]
            /\ w' = [w EXCEPT !.pc = "actSign"]
         \/ hold' = hold /\ w' = Idle
  BY <1>0 DEF ActActivate
<1>3. w \in Workers /\ At = "actActivate" /\ db \in Dbs /\ hold \in Holds
  BY <1>1, Facts DEF At
<1>4. a \in db.act /\ a \notin db.done
  BY <1>0, <1>3 DEF Claimed, ActPcs
<1>5. /\ a \in Signed /\ a \in Ids /\ w.c \in Signed \cup {None} /\ w.t \in Signed \cup {None}
  BY <1>0, <1>4, Facts, Zenon DEF Known
<1>6. G(a) \in Geometries
  <2>1. plans \in Seq(Plans) /\ a \in DOMAIN plans
    BY <1>5, Zenon DEF Typed, Signed
  <2>2. plans[a] \in Plans
    BY <2>1
  <2> QED BY <2>2 DEF G, Plans
<1>7. /\ db' \in Dbs /\ CoreSame /\ db'.dispatched = db.dispatched /\ db'.info = db.info
      /\ db'.staged = db.staged /\ db'.retired = db.retired /\ db'.renewed = db.renewed
      /\ db'.replan = db.replan
  BY <1>2, <1>3, <1>5, <1>6 DEF Dbs, CoreSame, MaybeIds
<1>8. /\ hold' \in Holds /\ hold'.bytes = hold.bytes /\ hold'.owed = hold.owed
      /\ hold'.ready = hold.ready \/ (a \in hold.bytes /\ hold'.ready = hold.ready \cup {a})
  BY <1>2, <1>3, <1>5 DEF Holds
<1>9. /\ w' \in Workers /\ w'.a \in Signed \cup {None} /\ w'.c \in Signed \cup {None}
      /\ w'.t \in Signed \cup {None}
  <2>1. CASE w' = Idle
    BY <2>1, IdleClaims, Zenon
  <2>2. CASE w' = [w EXCEPT !.pc = "actSign"]
    <3>1. w' \in Workers /\ w'.a = a /\ w'.c = w.c /\ w'.t = w.t
      BY <1>0, <1>3, <2>2 DEF Workers, Pcs, ActPcs
    <3> QED BY <1>5, <3>1, Zenon
  <2> QED BY <1>2, <2>1, <2>2, Zenon
<1>10. Typed'
  BY <1>1, <1>7, <1>8, <1>9, Zenon DEF Typed, Holds
<1>11. Known'
  BY <1>1, <1>7, <1>9, Zenon DEF Known, Signed, CoreSame
<1>12. hold'.ready \subseteq hold'.bytes
  BY <1>8, Zenon DEF Shape
<1>13. Shape'
  BY <1>7, <1>12, Zenon DEF Shape, CoreSame
<1>14. \A b : Submitted(b)' <=> Submitted(b)
  BY <1>7, Zenon DEF Submitted, CoreSame
<1>15. Reported' /\ Closed'
  BY <1>1, <1>7, <1>14, Zenon DEF Reported, Closed, CoreSame
<1>16. hold.ready \subseteq hold'.ready
  BY <1>8, Zenon
<1>17. \A b : (Settled(b) => Settled(b)') /\ (Named(b)' <=> Named(b))
  BY <1>1, <1>7, <1>8, <1>14, <1>16, Zenon DEF Settled, Named, CoreSame
<1>18. Stored'
  BY <1>7, <1>8, <1>16, <1>17, Zenon DEF Stored, CoreSame
<1>19. Budgeted'
  <2>1. "unreachable" \in FaultKinds
    BY DEF FaultKinds
  <2> QED BY <1>2, <2>1, BudgetKept, Zenon
<1>20. Claimed' /\ Aborts' /\ Aborted'
  <2>1. CASE w' = Idle
    BY <2>1, IdleClaims, Zenon
  <2>2. CASE hold' = [hold EXCEPT !.ready = @ \cup {a}] /\ w' = [w EXCEPT !.pc = "actSign"]
    <3>1. w'.pc = "actSign" /\ w'.a = a /\ At' = "actSign"
      BY <1>0, <1>3, <2>2 DEF Workers, At
    <3>2. a \in hold'.ready
      BY <1>3, <2>2, Zenon DEF Holds
    <3>3. Claimed'
      BY <1>4, <1>7, <3>1, ZenonT(30) DEF Claimed, RetryPcs, LaunchPcs, ActPcs, CoreSame
    <3>4. Aborts' /\ Aborted'
      BY <3>1, <3>2 DEF Aborts, Aborted, RetryPcs
    <3> QED BY <3>3, <3>4, Zenon
  <2> QED BY <1>2, <2>1, <2>2, Zenon
<1> QED BY <1>10, <1>11, <1>13, <1>15, <1>18, <1>19, <1>20, Zenon

(* commit_verified_coding_group moves the guild state and the worker only. *)
LEMMA ActMoves ==
    ASSUME IInv, w.pc = "actSign" \/ w.pc = "actCommit",
           w' = Idle \/ \E x \in {"actCommit", "actFinish"} : w' = [w EXCEPT !.pc = x],
           guild' \in [epoch : Nat, placed : SUBSET Geometries, locked : MaybeIds,
                       group : [Geometries -> {"absent", "active", "retired"}]],
           guild'.locked \in Signed \cup {None},
           budget' = budget \/ \E kind \in FaultKinds : Fault(kind),
           UNCHANGED <<plans, expired, db, job, finding, hold, open>>
    PROVE  IInv'
<1> USE DEF IInv
<1>1. w \in Workers /\ At \in {"actSign", "actCommit"}
  BY Facts DEF At
<1>2. w.a \in db.act /\ w.a \notin db.done
  BY <1>1 DEF Claimed, ActPcs
<1>3. w.a \in hold.bytes => w.a \in hold.ready \cup hold.owed
  BY DEF Aborted
<1>4. /\ w.a \in Signed /\ w.c \in Signed \cup {None} /\ w.t \in Signed \cup {None}
  BY <1>2, Zenon DEF Known
<1>5. /\ w' \in Workers /\ w'.a \in Signed \cup {None} /\ w'.c \in Signed \cup {None}
      /\ w'.t \in Signed \cup {None} /\ Claimed' /\ Aborts' /\ Aborted'
  <2>1. CASE w' = Idle
    BY <2>1, IdleClaims, Zenon
  <2>2. ASSUME NEW x \in {"actCommit", "actFinish"}, w' = [w EXCEPT !.pc = x]
        PROVE  /\ w' \in Workers /\ w'.a = w.a /\ w'.c = w.c /\ w'.t = w.t
               /\ Claimed' /\ Aborts' /\ Aborted'
    <3>1. /\ w' \in Workers /\ w'.pc = x /\ w'.a = w.a /\ w'.c = w.c /\ w'.t = w.t
          /\ At' = x
      BY <1>1, <2>2 DEF Workers, Pcs, ActPcs, At
    <3>2. Claimed'
      BY <1>2, <2>2, <3>1, Zenon DEF Claimed, RetryPcs, LaunchPcs, ActPcs
    <3>3. Aborts' /\ Aborted'
      BY <1>3, <2>2, <3>1 DEF Aborts, Aborted, RetryPcs
    <3> QED BY <3>1, <3>2, <3>3, Zenon
  <2> QED BY <1>4, <2>1, <2>2, Zenon
<1>6. Typed' /\ Shape' /\ Quiet
  BY <1>5, Zenon DEF Typed, Shape, Quiet, CoreSame
<1>7. Known'
  BY <1>5, Zenon DEF Known, Signed
<1> QED BY <1>5, <1>6, <1>7, QuietStep, Zenon

LEMMA ActSignKeeps ==
    ASSUME IInv, ActSign \/ ActCommit
    PROVE  IInv'
<1> USE DEF IInv
<1>1. /\ w.pc = "actSign" \/ w.pc = "actCommit"
      /\ w' = Idle \/ \E x \in {"actCommit", "actFinish"} : w' = [w EXCEPT !.pc = x]
      /\ UNCHANGED <<plans, expired, db, job, finding, hold, open>>
  BY DEF ActSign, ActCommit
<1>2. budget' = budget \/ \E kind \in FaultKinds : Fault(kind)
  BY DEF ActSign, ActCommit, FaultKinds
<1>3. \/ guild' = guild \/ guild' = [guild EXCEPT !.locked = w.a]
      \/ guild' = [guild EXCEPT !.group[G(w.a)] = "active", !.locked = None]
  BY Zenon DEF ActSign, ActCommit
<1>4. /\ guild \in [epoch : Nat, placed : SUBSET Geometries, locked : MaybeIds,
                    group : [Geometries -> {"absent", "active", "retired"}]]
      /\ guild.locked \in Signed \cup {None} /\ w.a \in Signed \cup {None}
      /\ Signed \subseteq Ids
  BY Zenon DEF Typed, Known
<1>5. w.a \in MaybeIds /\ None \in MaybeIds
  BY <1>4 DEF MaybeIds
<1>6. /\ guild' \in [epoch : Nat, placed : SUBSET Geometries, locked : MaybeIds,
                     group : [Geometries -> {"absent", "active", "retired"}]]
      /\ guild'.locked \in Signed \cup {None}
  <2>1. CASE guild' = guild
    BY <1>4, <2>1, Zenon
  <2>2. CASE guild' = [guild EXCEPT !.locked = w.a]
    BY <1>4, <1>5, <2>2
  <2>3. CASE guild' = [guild EXCEPT !.group[G(w.a)] = "active", !.locked = None]
    <3>1. PICK f : f = [guild.group EXCEPT ![G(w.a)] = "active"]
      BY Zenon
    <3>2. f \in [Geometries -> {"absent", "active", "retired"}]
      BY <1>4, <3>1, Zenon
    <3>3. guild' = [guild EXCEPT !.group = f, !.locked = None]
      BY <2>3, <3>1, Zenon
    <3> QED BY <1>4, <1>5, <3>2, <3>3, Zenon
  <2> QED BY <1>3, <2>1, <2>2, <2>3, Zenon
<1> QED BY <1>1, <1>2, <1>6, ActMoves, Zenon

(* A step that completes an activation whose bytes are the group's or are  *)
(* owed a cleanup, requeues or closes the retries that prepared it and may *)
(* queue a newly signed launch.                                            *)
LEMMA CloseWrites ==
    ASSUME IInv, NEW a \in db.act,
           a \in hold.bytes => a \in hold.ready \cup hold.owed, db' \in Dbs,
           db'.retry = db.retry, db'.act = db.act, db'.done = db.done \cup {a},
           db'.replan = db.replan \ {a}, db'.retired = db.retired,
           db'.complete \subseteq db.complete, db'.terminal \subseteq db.retry,
           \A r \in db.retry : db.child[r] # a =>
              /\ db'.child[r] = db.child[r]
              /\ r \in db'.complete <=> r \in db.complete
              /\ r \in db'.terminal <=> r \in db.terminal,
           \A r \in db'.terminal : db.child[r] = a => db'.child[r] = a,
           \A r \in Ids : db'.child[r] = db.child[r] \/ db'.child[r] = None,
           db.launch \ {a} \subseteq db'.launch,
           db'.launch \subseteq db.launch \cup (Signed' \ Signed),
           db'.info \subseteq Signed', db'.renewed \subseteq Signed',
           db'.dispatched \subseteq db'.launch, db'.staged \subseteq db'.info,
           plans' \in Seq(Plans), Signed \subseteq Signed', Signed' \subseteq Ids,
           UNCHANGED <<expired, guild, job, finding, hold>>, open' \in BOOLEAN, w' = Idle,
           budget' = budget \/ \E kind \in FaultKinds : Fault(kind)
    PROVE  IInv'
<1> USE DEF IInv
<1>1. Typed'
  BY IdleClaims, Zenon DEF Typed
<1>2. db'.launch \subseteq Signed'
  BY Zenon DEF Known
<1>3. \A x : x \in Signed \cup {None} => x \in Signed' \cup {None}
  BY Zenon
<1>4. \A r \in Ids : db'.child[r] \in Signed' \cup {None}
  BY <1>3, ZenonT(30) DEF Known
<1>5. Known'
  BY <1>2, <1>3, <1>4, IdleClaims, SMTT(30) DEF Known
<1>6. Shape'
  <2>1. db'.launch \cap db'.retry = {}
    BY Zenon DEF Shape, Known
  <2>2. db'.replan \subseteq db'.act \ db'.done /\ db'.done \subseteq db'.act
    BY Zenon DEF Shape
  <2> QED BY <2>1, <2>2, Zenon DEF Shape
<1>7. \A b : Submitted(b)' <=> Submitted(b)
  BY Zenon DEF Submitted
<1>8. Reported'
  BY Zenon DEF Reported
<1>9. Closed'
  <2>1. Submitted(a)
    BY Zenon DEF Submitted
  <2> QED BY <1>7, <2>1, Zenon DEF Closed
<1>10. ASSUME NEW b, b # a, Settled(b)
       PROVE  Settled(b)'
  BY <1>10, Zenon DEF Settled
<1>11. ASSUME NEW b, b # a, Named(b)
       PROVE  Named(b)'
  <2>1. CASE b \in db.launch
    BY <1>11, <2>1, Zenon DEF Named
  <2>2. ASSUME NEW r \in db.retry \ db.terminal, db.child[r] = b, ~Submitted(b)
        PROVE  Named(b)'
    <3>1. db'.child[r] = b /\ r \in db'.retry /\ r \notin db'.terminal
      BY <1>11, <2>2, Zenon
    <3> QED BY <1>7, <2>2, <3>1, Zenon DEF Named
  <2>3. ASSUME NEW r \in db.retry \ db.complete, db.child[r] = b
        PROVE  Named(b)'
    <3>1. db'.child[r] = b /\ r \in db'.retry /\ r \notin db'.complete
      BY <1>11, <2>3, Zenon
    <3> QED BY <3>1, Zenon DEF Named
  <2> QED BY <1>11, <2>1, <2>2, <2>3, Zenon DEF Named
<1>12. a \in hold.bytes => Settled(a)'
  BY Zenon DEF Settled
<1>13. Stored'
  BY <1>10, <1>11, <1>12, Zenon DEF Stored
<1>14. Budgeted'
  BY BudgetKept, Zenon
<1> QED BY <1>1, <1>5, <1>6, <1>8, <1>9, <1>13, <1>14, IdleClaims, ZenonT(30)

(* What the transaction that completes an activation writes. *)
ActivationClosed(d, e, a) ==
    /\ e \in Dbs /\ e.retry = d.retry /\ e.complete = d.complete
    /\ e.terminal = d.terminal /\ e.child = d.child /\ e.act = d.act
    /\ e.retired = d.retired /\ e.renewed = d.renewed
    /\ e.done = d.done \cup {a} /\ e.replan = d.replan \ {a}
    /\ e.launch = d.launch \ {a} /\ e.dispatched = d.dispatched \ {a}
    /\ e.info = d.info \ {a} /\ e.staged = d.staged \ {a}

LEMMA CloseActivationWrites ==
    ASSUME NEW d \in Dbs, NEW a \in Ids, NEW e, e = CloseActivation(d, a)
    PROVE  ActivationClosed(d, e, a)
<1>1. e = [d EXCEPT !.done = @ \cup {a}, !.replan = @ \ {a}, !.launch = @ \ {a},
                    !.dispatched = @ \ {a}, !.info = @ \ {a}, !.staged = @ \ {a}]
  BY Zenon DEF CloseActivation
<1>2. e \in Dbs
  <2>1. [d EXCEPT !.done = @ \cup {a}, !.replan = @ \ {a}, !.launch = @ \ {a},
                  !.dispatched = @ \ {a}, !.info = @ \ {a}, !.staged = @ \ {a}] \in Dbs
    BY Zenon DEF Dbs
  <2> QED BY <1>1, <2>1, Zenon
<1>3. /\ e.retry = d.retry /\ e.complete = d.complete
      /\ e.terminal = d.terminal /\ e.child = d.child /\ e.act = d.act
      /\ e.retired = d.retired /\ e.renewed = d.renewed
  BY <1>1 DEF Dbs
<1>4. /\ e.done = d.done \cup {a} /\ e.replan = d.replan \ {a}
      /\ e.launch = d.launch \ {a} /\ e.dispatched = d.dispatched \ {a}
      /\ e.info = d.info \ {a} /\ e.staged = d.staged \ {a}
  BY <1>1 DEF Dbs
<1> QED BY <1>2, <1>3, <1>4, Zenon DEF ActivationClosed

(* What requeueing the retries that prepared an attempt writes. *)
Parents(a) == {r \in db.retry : db.child[r] = a}

Requeued(d, P) ==
    /\ d \in Dbs /\ d.retry = db.retry /\ d.act = db.act /\ d.done = db.done
    /\ d.replan = db.replan /\ d.retired = db.retired /\ d.renewed = db.renewed
    /\ d.launch = db.launch /\ d.dispatched = db.dispatched /\ d.staged = db.staged
    /\ d.complete = db.complete \ P /\ d.terminal = db.terminal \ P
    /\ \A r \in Ids : d.child[r] = IF r \in P THEN None ELSE db.child[r]
    /\ db.info \subseteq d.info /\ d.info \subseteq db.info \cup P

LEMMA RequeueWrites ==
    ASSUME db \in Dbs, NEW a \in Ids
    PROVE  Requeued(Requeue(a), Parents(a))
<1>0. PICK d, P : d = Requeue(a) /\ P = Parents(a)
  OBVIOUS
<1>1. PICK child : child = [r \in Ids |-> IF r \in P THEN None ELSE db.child[r]]
  BY Zenon
<1>2. PICK parent : parent = [r \in Ids |-> IF r \in P THEN a ELSE db.parent[r]]
  BY Zenon
<1>3. PICK N : N = IF a \in db.info THEN db.info \cup P ELSE db.info
  BY Zenon
<1>4. d = [db EXCEPT !.child = child, !.parent = parent, !.complete = @ \ P,
                     !.terminal = @ \ P, !.info = N]
  BY <1>0, <1>1, <1>2, <1>3, Zenon DEF Requeue, Parents
<1>5. /\ child \in [Ids -> MaybeIds] /\ parent \in [Ids -> MaybeIds]
      /\ \A r \in Ids : child[r] = IF r \in P THEN None ELSE db.child[r]
  BY <1>1, <1>2 DEF Dbs, MaybeIds
<1>6. N \in SUBSET Ids /\ db.info \subseteq N /\ N \subseteq db.info \cup P
  <2>1. db.info \in SUBSET Ids /\ P \in SUBSET Ids
    BY <1>0 DEF Dbs, Parents
  <2> QED BY <1>3, <2>1
<1>7. d \in Dbs
  <2>1. [db EXCEPT !.child = child, !.parent = parent, !.complete = @ \ P,
                   !.terminal = @ \ P, !.info = N] \in Dbs
    BY <1>5, <1>6, Zenon DEF Dbs
  <2> QED BY <1>4, <2>1, Zenon
<1>8. /\ d.retry = db.retry /\ d.act = db.act /\ d.done = db.done
      /\ d.replan = db.replan /\ d.retired = db.retired /\ d.renewed = db.renewed
      /\ d.launch = db.launch /\ d.dispatched = db.dispatched /\ d.staged = db.staged
  BY <1>4 DEF Dbs
<1>9. /\ d.complete = db.complete \ P /\ d.terminal = db.terminal \ P
      /\ d.child = child /\ d.info = N
  BY <1>4 DEF Dbs
<1> QED BY <1>0, <1>5, <1>6, <1>7, <1>8, <1>9, Zenon DEF Requeued

(* complete_coding_activation_with_coordinators once the bytes are cleaned *)
(* up.                                                                     *)
LEMMA ActCompleteKeeps ==
    ASSUME IInv, ActComplete
    PROVE  IInv'
<1> USE DEF IInv
<1>0. PICK a : a = w.a
  OBVIOUS
<1>1. /\ w.pc = "actComplete" /\ w' = Idle
      /\ UNCHANGED <<expired, guild, job, finding, hold, open>>
  BY Zenon DEF ActComplete
<1>2. w \in Workers /\ At = "actComplete" /\ db \in Dbs
  BY <1>1, Facts, Zenon DEF At
<1>3. a \in db.act
  BY <1>0, <1>2 DEF Claimed, ActPcs
<1>4. a \in hold.bytes => a \in hold.ready \cup hold.owed
  BY <1>0, <1>1, ZenonT(30) DEF Aborted
<1>5. a \in Signed /\ a \in Ids /\ Signed \subseteq Ids /\ db.retry \subseteq Ids
  BY <1>2, <1>3, Facts DEF Known, Dbs
<1>6. /\ db.dispatched \subseteq db.launch /\ db.staged \subseteq db.info
      /\ db.info \subseteq Signed /\ db.renewed \subseteq Signed /\ db.retry \subseteq Signed
      /\ db.complete \subseteq db.retry /\ db.terminal \subseteq db.retry
      /\ plans \in Seq(Plans) /\ open \in BOOLEAN
  BY Zenon DEF Shape, Known, Typed
<1>7. ASSUME db' = CloseActivation(Requeue(a), a), plans' = plans, budget' = budget
      PROVE  IInv'
  <2>1. PICK d, P : d = Requeue(a) /\ P = Parents(a)
    OBVIOUS
  <2>2. Requeued(d, P) /\ P \subseteq db.retry /\ \A r \in db.retry : r \in P <=> db.child[r] = a
    BY <1>2, <1>5, <2>1, RequeueWrites, Zenon DEF Parents
  <2>10. d \in Dbs
    BY <2>2, Zenon DEF Requeued
  <2>3. ActivationClosed(d, db', a)
    BY <1>5, <1>7, <2>1, <2>10, CloseActivationWrites, Zenon
  <2>4. Signed' = Signed
    BY <1>7, Zenon DEF Signed
  <2>5. \A r \in db.retry : db.child[r] # a =>
           /\ db'.child[r] = db.child[r]
           /\ r \in db'.complete <=> r \in db.complete
           /\ r \in db'.terminal <=> r \in db.terminal
    BY <1>5, <2>2, <2>3, ZenonT(30) DEF ActivationClosed, Requeued
  <2>6. \A r \in db'.terminal : db.child[r] = a => db'.child[r] = a
    BY <1>6, <2>2, <2>3, Zenon DEF ActivationClosed, Requeued
  <2>7. \A r \in Ids : db'.child[r] = db.child[r] \/ db'.child[r] = None
    BY <2>2, <2>3, ZenonT(30) DEF ActivationClosed, Requeued
  <2>8. db'.info \subseteq Signed' /\ db'.renewed \subseteq Signed'
    BY <1>6, <2>2, <2>3, <2>4, Zenon DEF ActivationClosed, Requeued
  <2>9. /\ db.launch \ {a} \subseteq db'.launch
        /\ db'.launch \subseteq db.launch \cup (Signed' \ Signed)
        /\ db'.dispatched \subseteq db'.launch /\ db'.staged \subseteq db'.info
        /\ db'.complete \subseteq db.complete /\ db'.terminal \subseteq db.retry
        /\ db'.retry = db.retry /\ db'.act = db.act /\ db'.done = db.done \cup {a}
        /\ db'.replan = db.replan \ {a} /\ db'.retired = db.retired
        /\ Signed \subseteq Signed' /\ Signed' \subseteq Ids /\ db' \in Dbs
    BY <1>5, <1>6, <2>2, <2>3, <2>4, Zenon DEF ActivationClosed, Requeued
  <2> QED BY <1>1, <1>3, <1>4, <1>6, <1>7, <2>5, <2>6, <2>7, <2>8, <2>9, CloseWrites, ZenonT(30)

<1>8. ASSUME NEW p \in Pairs, NEW g, Sign(p, g, FALSE), NEW input \in {{New}, {}},
             db' = CloseActivation([db EXCEPT !.renewed = @ \cup {a},
                                              !.launch = @ \cup {New},
                                              !.info = @ \cup input], a),
             budget' = budget \/ Fault("unreachable")
      PROVE  IInv'
  <2>0. PICK d : d = [db EXCEPT !.renewed = @ \cup {a}, !.launch = @ \cup {New},
                                !.info = @ \cup input]
    OBVIOUS
  <2>1. /\ New \in Ids /\ New \notin Signed /\ plans' \in Seq(Plans)
        /\ Signed' = Signed \cup {New} /\ Signed' \subseteq Ids
    BY <1>8, SignAdds, Zenon
  <2>10. input \subseteq {New}
    BY <1>8
  <2>11. d \in Dbs
    <3>1. db.info \cup input \in SUBSET Ids
      BY <1>2, <2>1, <2>10 DEF Dbs
    <3>2. [db EXCEPT !.renewed = @ \cup {a}, !.launch = @ \cup {New},
                     !.info = @ \cup input] \in Dbs
      BY <1>2, <1>5, <2>1, <3>1, Zenon DEF Dbs
    <3> QED BY <2>0, <3>2, Zenon
  <2>2. /\ d.retry = db.retry /\ d.act = db.act /\ d.done = db.done
        /\ d.replan = db.replan /\ d.retired = db.retired /\ d.renewed = db.renewed \cup {a}
        /\ d.launch = db.launch \cup {New} /\ d.dispatched = db.dispatched
    BY <1>2, <2>0 DEF Dbs
  <2>3. /\ d.staged = db.staged /\ d.complete = db.complete /\ d.terminal = db.terminal
        /\ d.child = db.child /\ d.info = db.info \cup input
    BY <1>2, <2>0 DEF Dbs
  <2>12. ActivationClosed(d, db', a)
    BY <1>5, <1>8, <2>0, <2>11, CloseActivationWrites, Zenon
  <2>4. /\ db' \in Dbs /\ db'.retry = d.retry /\ db'.complete = d.complete
        /\ db'.terminal = d.terminal /\ db'.child = d.child /\ db'.act = d.act
        /\ db'.retired = d.retired /\ db'.renewed = d.renewed
        /\ db'.done = d.done \cup {a} /\ db'.replan = d.replan \ {a}
        /\ db'.launch = d.launch \ {a} /\ db'.dispatched = d.dispatched \ {a}
        /\ db'.info = d.info \ {a} /\ db'.staged = d.staged \ {a}
    BY <2>12, Zenon DEF ActivationClosed
  <2>5. /\ db.launch \ {a} \subseteq db'.launch
        /\ db'.launch \subseteq db.launch \cup (Signed' \ Signed)
        /\ db'.dispatched \subseteq db'.launch /\ db'.staged \subseteq db'.info
    BY <1>6, <2>1, <2>2, <2>3, <2>4, ZenonT(30)
  <2>6. db'.info \subseteq Signed' /\ db'.renewed \subseteq Signed' /\ Signed \subseteq Signed'
    BY <1>5, <1>6, <2>1, <2>2, <2>3, <2>4
  <2>7. budget' = budget \/ \E kind \in FaultKinds : Fault(kind)
    BY <1>8 DEF FaultKinds
  <2>8. /\ db'.child = db.child /\ db'.complete = db.complete /\ db'.terminal = db.terminal
        /\ db'.terminal \subseteq db.retry
        /\ db'.retry = db.retry /\ db'.act = db.act /\ db'.done = db.done \cup {a}
        /\ db'.replan = db.replan \ {a} /\ db'.retired = db.retired
    BY <1>6, <2>2, <2>3, <2>4, Zenon
  <2> QED BY <1>1, <1>3, <1>4, <1>6, <2>1, <2>4, <2>5, <2>6, <2>7, <2>8, CloseWrites, ZenonT(30)
<1>9. ASSUME db' = db, plans' = plans, budget' = budget \/ Fault("unreachable")
      PROVE  IInv'
  <2>1. Typed' /\ Known' /\ Shape' /\ Quiet
    BY <1>1, <1>9, IdleClaims, SilentTyped, Zenon
  <2>2. budget' = budget \/ \E kind \in FaultKinds : Fault(kind)
    BY <1>9 DEF FaultKinds
  <2> QED BY <1>1, <2>1, <2>2, IdleClaims, QuietStep, Zenon
<1>10. \/ db' = CloseActivation(Requeue(a), a) /\ plans' = plans /\ budget' = budget
       \/ \E p \in Pairs : \E g : \E input \in {{New}, {}} :
            /\ Sign(p, g, FALSE)
            /\ db' = CloseActivation([db EXCEPT !.renewed = @ \cup {a},
                                                !.launch = @ \cup {New},
                                                !.info = @ \cup input], a)
            /\ budget' = budget \/ Fault("unreachable")
       \/ db' = db /\ plans' = plans /\ (budget' = budget \/ Fault("unreachable"))
  BY <1>0, Zenon DEF ActComplete, Offer
<1> QED BY <1>7, <1>8, <1>9, <1>10, Zenon

(* complete_coding_activation_with_coordinators of a covered lane. *)
LEMMA ActFinishKeeps ==
    ASSUME IInv, ActFinish
    PROVE  IInv'
<1> USE DEF IInv
<1>0. PICK a, P : a = w.a /\ P = Parents(a)
  OBVIOUS
<1>1. /\ w.pc = "actFinish"
      /\ UNCHANGED <<plans, expired, guild, job, finding, hold, budget>>
  BY Zenon DEF ActFinish
<1>2. w \in Workers /\ At = "actFinish" /\ db \in Dbs /\ "actComplete" \in Pcs
  BY <1>1, Facts, Zenon DEF At, Pcs, ActPcs
<1>3. a \in db.act /\ a \notin db.done
  BY <1>0, <1>2, Zenon DEF Claimed, ActPcs
<1>4. a \in hold.bytes => a \in hold.ready \cup hold.owed
  BY <1>0, <1>1 DEF Aborted
<1>5. /\ a \in Signed /\ a \in Ids /\ Signed \subseteq Ids
      /\ w.c \in Signed \cup {None} /\ w.t \in Signed \cup {None}
  BY <1>0, <1>3, Facts, Zenon DEF Known
<1>6. /\ db.dispatched \subseteq db.launch /\ db.staged \subseteq db.info
      /\ db.info \subseteq Signed /\ db.renewed \subseteq Signed
      /\ db.terminal \subseteq db.retry /\ plans \in Seq(Plans)
  BY Zenon DEF Shape, Known, Typed
<1>7. ASSUME w' = Idle, open' = FALSE,
             db' = CloseActivation([db EXCEPT !.terminal = @ \cup P, !.info = @ \ P,
                                              !.staged = @ \ P], a)
      PROVE  IInv'
  <2>1. PICK d : d = [db EXCEPT !.terminal = @ \cup P, !.info = @ \ P, !.staged = @ \ P]
    OBVIOUS
  <2>2. P \subseteq db.retry /\ \A r \in db.retry : r \in P <=> db.child[r] = a
    BY <1>0, Zenon DEF Parents
  <2>3. P \subseteq Ids
    BY <1>2, <2>2 DEF Dbs
  <2>4. d \in Dbs
    <3>1. [db EXCEPT !.terminal = @ \cup P, !.info = @ \ P, !.staged = @ \ P] \in Dbs
      BY <1>2, <2>3, Zenon DEF Dbs
    <3> QED BY <2>1, <3>1, Zenon
  <2>5. /\ d.retry = db.retry /\ d.act = db.act /\ d.done = db.done /\ d.replan = db.replan
        /\ d.retired = db.retired /\ d.renewed = db.renewed /\ d.launch = db.launch
        /\ d.dispatched = db.dispatched /\ d.complete = db.complete /\ d.child = db.child
    BY <1>2, <2>1 DEF Dbs
  <2>6. d.terminal = db.terminal \cup P /\ d.info = db.info \ P /\ d.staged = db.staged \ P
    BY <1>2, <2>1 DEF Dbs
  <2>7. ActivationClosed(d, db', a)
    BY <1>5, <1>7, <2>1, <2>4, CloseActivationWrites, Zenon
  <2>8. /\ db'.child = db.child /\ db'.complete = db.complete
        /\ db'.terminal = db.terminal \cup P /\ db' \in Dbs
        /\ db'.retry = db.retry /\ db'.act = db.act /\ db'.done = db.done \cup {a}
        /\ db'.replan = db.replan \ {a} /\ db'.retired = db.retired
        /\ db'.renewed = db.renewed /\ db'.launch = db.launch \ {a}
        /\ db'.dispatched = db.dispatched \ {a}
    BY <2>5, <2>6, <2>7, Zenon DEF ActivationClosed
  <2>9. db'.info = (db.info \ P) \ {a} /\ db'.staged = (db.staged \ P) \ {a}
    BY <2>6, <2>7, Zenon DEF ActivationClosed
  <2>10. Signed' = Signed
    BY <1>1, Zenon DEF Signed
  <2>11. /\ db.launch \ {a} \subseteq db'.launch
         /\ db'.launch \subseteq db.launch \cup (Signed' \ Signed)
         /\ db'.dispatched \subseteq db'.launch /\ db'.staged \subseteq db'.info
         /\ db'.info \subseteq Signed' /\ db'.renewed \subseteq Signed'
         /\ Signed \subseteq Signed' /\ Signed' \subseteq Ids
         /\ db'.terminal \subseteq db.retry /\ db'.complete \subseteq db.complete
    BY <1>5, <1>6, <2>2, <2>8, <2>9, <2>10, ZenonT(30)
  <2>12. \A r \in db.retry : db.child[r] # a =>
            /\ db'.child[r] = db.child[r]
            /\ r \in db'.complete <=> r \in db.complete
            /\ r \in db'.terminal <=> r \in db.terminal
    BY <2>2, <2>8, Zenon
  <2>13. open' \in BOOLEAN /\ plans' \in Seq(Plans)
    BY <1>1, <1>6, <1>7, Zenon
  <2>14. /\ \A r \in db'.terminal : db.child[r] = a => db'.child[r] = a
         /\ \A r \in Ids : db'.child[r] = db.child[r] \/ db'.child[r] = None
    BY <2>8, Zenon
  <2> QED BY <1>1, <1>3, <1>4, <1>7, <2>8, <2>11, <2>12, <2>13, <2>14, CloseWrites, ZenonT(30)
<1>8. ASSUME w' = Aborting(a, "stale", "actComplete"), db' = db, open' = open
      PROVE  IInv'
  <2>1. a \in MaybeIds
    BY <1>5, Zenon DEF MaybeIds
  <2>2. /\ w' \in Workers /\ w'.pc = "abort" /\ w'.t = a /\ w'.next = "actComplete"
        /\ w'.a = a /\ w'.c = w.c
    <3>1. w'.a = w.a
      BY <1>2, <1>8, <2>1, AbortingWorker, SMTT(30)
    <3>2. w' \in Workers /\ w'.pc = "abort" /\ w'.t = a /\ w'.next = "actComplete" /\ w'.c = w.c
      BY <1>2, <1>8, <2>1, AbortingWorker, SMTT(30)
    <3> QED BY <1>0, <3>1, <3>2
  <2>3. At' = "actComplete"
    BY <2>2 DEF At
  <2>4. Typed' /\ Known' /\ Shape' /\ Quiet
    BY <1>1, <1>5, <1>8, <2>2, SilentTyped, ZenonT(30)
  <2>5. Claimed'
    BY <1>3, <1>8, <2>2, <2>3, ZenonT(30) DEF Claimed, RetryPcs, LaunchPcs, ActPcs
  <2>6. Aborts' /\ Aborted'
    BY <2>2, <2>3 DEF Aborts, Aborted, RetryPcs
  <2> QED BY <1>1, <2>4, <2>5, <2>6, QuietStep, ZenonT(30)
<1> QED BY <1>0, <1>7, <1>8, Zenon DEF ActFinish, Parents

-----------------------------------------------------------------------------
(* The theorems.                                                           *)

(* The invariant holds before anything was signed. *)
LEMMA InitHolds ==
    ASSUME Init
    PROVE  IInv
<1> USE DEF Init
<1>1. Signed = {}
  <2>1. plans = <<>>
    BY Zenon
  <2> HIDE DEF Init
  <2> QED BY <2>1 DEF Signed
<1>2. db \in Dbs
  BY Zenon DEF EmptyDb, Dbs, MaybeIds
<1>3. /\ db.launch = {} /\ db.dispatched = {} /\ db.info = {} /\ db.staged = {}
      /\ db.retry = {} /\ db.complete = {} /\ db.terminal = {} /\ db.act = {}
      /\ db.done = {} /\ db.replan = {} /\ db.retired = {} /\ db.renewed = {}
      /\ \A r \in Ids : db.child[r] = None
  BY ZenonT(30) DEF EmptyDb
<1>4. /\ w \in Workers /\ w.pc = "idle" /\ w.a = None /\ w.c = None /\ w.t = None
  BY DEF Idle, Workers, Pcs, MaybeIds
<1>5. budget \in Budgets
  BY ZenonT(30)
<1>6. /\ budget \in [kinds : SUBSET FaultKinds, faults : Nat, attempts : Ids,
                     epochs : Nat, placed : SUBSET Geometries]
  BY <1>5, CodingAssumption, Zenon DEF FaultKinds
<1>7. Budgeted
  BY <1>5, <1>6 DEF Budgeted
<1>8. Typed
  <2>1. open \in BOOLEAN /\ expired \in SUBSET Ids
    BY Zenon
  <2>5. plans \in Seq(Plans)
    <3>1. plans = <<>>
      BY Zenon
    <3> QED BY <3>1
  <2>2. guild \in [epoch : Nat, placed : SUBSET Geometries, locked : MaybeIds,
                   group : [Geometries -> {"absent", "active", "retired"}]]
    <3>1. budget.placed \in SUBSET Geometries
      BY <1>6
    <3> QED BY <3>1 DEF MaybeIds
  <2>3. job \in [Ids -> JobStates] /\ finding \in [Ids -> {"none", "verified", "invalid"}]
    BY DEF JobStates
  <2>4. hold \in [bytes : SUBSET Ids, ready : SUBSET Ids, owed : SUBSET Ids]
    OBVIOUS
  <2> QED BY <1>2, <1>4, <2>1, <2>2, <2>3, <2>4, <2>5, ZenonT(30) DEF Typed
<1>9. guild.locked = None /\ hold.bytes = {} /\ hold.ready = {} /\ expired = {}
  BY ZenonT(30)
<1> HIDE DEF Init
<1>10. Known
  BY <1>1, <1>3, <1>4, <1>9 DEF Known
<1>11. Shape /\ Reported /\ Closed /\ Stored
  BY <1>3, <1>9, Zenon DEF Shape, Reported, Closed, Stored
<1>12. At = "idle"
  BY <1>4, ZenonT(30) DEF At
<1>13. Claimed /\ Aborts /\ Aborted
  BY <1>4, <1>12 DEF Claimed, Aborts, Aborted, RetryPcs, LaunchPcs, ActPcs
<1> QED BY <1>7, <1>8, <1>10, <1>11, <1>13, Zenon DEF IInv

(* Every step of the planner, the worker, a coder, a holder and the guild  *)
(* keeps the invariant.                                                    *)
LEMMA NextKeeps ==
    ASSUME IInv, [Next]_vars
    PROVE  IInv'
<1>1. CASE UNCHANGED vars
  <2>1. UNCHANGED <<plans, expired, guild, db, job, finding, hold, w, budget, open>>
    BY <1>1, Zenon DEF vars
  <2>2. Typed' /\ Known' /\ Shape' /\ Reported'
    BY <2>1, Zenon DEF IInv, Typed, Known, Shape, Reported, Signed
  <2>3. Budgeted'
    BY <2>1, BudgetKept, Zenon DEF IInv
  <2> QED BY <2>1, <2>2, <2>3, SameDbCalm, SameHoldCalm, CalmStep, Zenon
<1>2. CASE Enqueue
  BY <1>2, EnqueueKeeps, Zenon
<1>3. CASE Worker
  <2>1. CASE Abort
    BY <2>1, AbortKeeps, Zenon
  <2>2. CASE Retry
    BY <2>2, RetryStartKeeps, RetryDropKeeps, RetryPickKeeps, RetryRenewKeeps,
       RetryReplanKeeps, RetryPrepareKeeps, RetryUploadKeeps, RetryDelegateKeeps,
       RetryFinishKeeps, ZenonT(30) DEF Retry
  <2>3. CASE Launch
    BY <2>3, LaunchAbandonKeeps, LaunchRenewKeeps, LaunchUploadKeeps, LaunchDelegateKeeps,
       LaunchFinishKeeps, Zenon DEF Launch
  <2>4. CASE Activation
    BY <2>4, ActMarkKeeps, ActCompleteKeeps, ActActivateKeeps, ActSignKeeps,
       ActFinishKeeps, ZenonT(30) DEF Activation
  <2>5. CASE ClaimActivation
    BY <2>5, ClaimActivationKeeps, Zenon
  <2>6. ASSUME NEW a \in Signed, ClaimRetry(a) \/ ClaimLaunch(a)
        PROVE  IInv'
    <3>1. a \in Ids
      BY Facts, Zenon
    <3> QED BY <2>6, <3>1, ClaimRetryKeeps, ClaimLaunchKeeps, Zenon
  <2> QED BY <1>3, <2>1, <2>2, <2>3, <2>4, <2>5, <2>6, Zenon DEF Worker
<1>4. CASE Guild \/ ChangeMembership \/ \E a \in Signed : Expire(a)
  BY <1>4, GuildKeeps, Zenon
<1>5. CASE Crash
  BY <1>5, CrashKeeps, Zenon
<1>6. ASSUME NEW a \in Signed, Coder(a) \/ HolderCleanup(a)
      PROVE  IInv'
  BY <1>6, CoderKeeps, HolderKeeps, Zenon
<1> QED BY <1>1, <1>2, <1>3, <1>4, <1>5, <1>6, Zenon DEF Next

(* The inductive invariant holds throughout. *)
LEMMA Inductive == Spec => []IInv
<1>1. Init => IInv
  BY InitHolds
<1>2. IInv /\ [Next]_vars => IInv'
  BY NextKeeps
<1> QED BY <1>1, <1>2, PTL DEF Spec

(* The records of the coding jobs keep their types for any number of       *)
(* attempts, coordinators, placements and faults: every job is about a     *)
(* signed attempt, a mark stands only beside the record it is about, and   *)
(* no attempt is both accepted as a result (accept_coding_transcript) and  *)
(* as a failure (accept_coding_failure).                                   *)
THEOREM TypeCorrect == Spec => []TypeOK
<1>1. IInv => TypeOK
  <2> SUFFICES ASSUME IInv PROVE TypeOK
    OBVIOUS
  <2>1. db.act \cap db.retry = {}
    BY Zenon DEF IInv, Reported
  <2>2. \A f \in {"launch", "info", "retry", "act", "retired", "renewed"} : db[f] \subseteq Signed
    BY DEF IInv, Known
  <2>3. /\ guild.placed \subseteq Geometries
        /\ \A g \in Geometries : guild.group[g] \in {"absent", "active", "retired"}
        /\ \A a \in Ids : job[a] \in JobStates
    BY DEF IInv, Typed
  <2>4. db.terminal \cup db.complete \subseteq db.retry
    BY Zenon DEF IInv, Shape
  <2> QED BY <2>1, <2>2, <2>3, <2>4, ZenonT(30) DEF TypeOK, IInv, Known, Shape, Budgeted
<1> QED BY <1>1, Inductive, PTL

(* No byte staged at a holder is orphaned, whatever fails, crashes, expires *)
(* or is fenced between the steps of abort_delegated_coding_with_policy,   *)
(* the retries, the launches and the activations: some durable record will *)
(* release or activate it, or it belongs to the group.                     *)
THEOREM NoOrphanedBytes == Spec => []BytesOwned
<1>1. IInv => BytesOwned
  <2> SUFFICES ASSUME IInv, NEW a \in hold.bytes
               PROVE  \/ Own(a) \/ a \in hold.owed \/ w.t = a
                      \/ \E r \in db.retry \ db.complete : db.child[r] = a
                      \/ job[a] \notin {"none", "Complete"}
                      \/ a \in hold.ready \cap db.done
    BY Zenon DEF BytesOwned
  <2>1. CASE Settled(a)
    <3>1. job[a] \in Alive => job[a] \notin {"none", "Complete"}
      BY DEF Alive
    <3> QED BY <2>1, <3>1, Zenon DEF Settled, Own
  <2>2. CASE Named(a)
    BY <2>2, Zenon DEF Named, Own
  <2> QED BY <2>1, <2>2, Zenon DEF IInv, Stored
<1> QED BY <1>1, Inductive, PTL

=============================================================================
