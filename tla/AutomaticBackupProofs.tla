----------------------- MODULE AutomaticBackupProofs -----------------------
(***************************************************************************)
(* Automatic backup for any number of roots and coordinators, any policy   *)
(* and any bound on disturbances: its durable record keeps its shape, it   *)
(* waits only for backups some coordinator has accepted, no root misses a  *)
(* full reconciliation, and the backups it starts keep to the daily limits *)
(* and to the minimum interval.                                            *)
(***************************************************************************)
EXTENDS AutomaticBackupHistory, TLAPS, FiniteSetTheorems, SequenceTheorems, WellFoundedInduction

-----------------------------------------------------------------------------
(* Extrema.                                                                *)

(* Any set of natural numbers that is not empty has a least element. *)
LEMMA LeastElement ==
    ASSUME NEW T \in SUBSET Nat, T # {}
    PROVE  \E x \in T : \A y \in T : x <= y
<1>1. PICK x \in T : \A y \in T : ~(<<y, x>> \in OpToRel(<, Nat))
  BY WFMin, NatLessThanWellFounded, Zenon
<1>2. \A y \in T : ~(y < x)
  BY <1>1, Zenon DEF OpToRel
<1> QED BY <1>2

(* A bounded set of natural numbers that is not empty has a greatest one. *)
LEMMA GreatestElement ==
    ASSUME NEW n \in Nat, NEW S \in SUBSET (0 .. n), S # {}
    PROVE  \E x \in S : \A y \in S : y <= x
<1> DEFINE T == {n - x : x \in S}
<1>1. T \in SUBSET Nat /\ T # {}
  <2>1. \A x \in S : n - x \in Nat
    OBVIOUS
  <2> QED BY <2>1, Zenon
<1>2. PICK t \in T : \A y \in T : t <= y
  <2> HIDE DEF T
  <2> QED BY <1>1, LeastElement
<1>3. PICK x \in S : t = n - x
  OBVIOUS
<1>4. ASSUME NEW y \in S PROVE y <= x
  <2>1. t <= n - y
    BY <1>2
  <2> QED BY <1>3, <2>1
<1> QED BY <1>4

(* Max is that greatest element. *)
LEMMA MaxIsGreatest ==
    ASSUME NEW n \in Nat, NEW S \in SUBSET (0 .. n), S # {}
    PROVE  Max(S) \in S
<1>1. PICK x \in S : \A y \in S : y <= x
  BY GreatestElement, Zenon
<1>2. \A y \in S : x >= y
  BY <1>1
<1> QED BY <1>2, Zenon DEF Max

(* The greater of two natural numbers. *)
LEMMA MaxOfTwo ==
    ASSUME NEW a \in Nat, NEW b \in Nat
    PROVE  Max({a, b}) \in Nat /\ a <= Max({a, b}) /\ b <= Max({a, b})
<1>1. \E x \in {a, b} : \A y \in {a, b} : x >= y
  OBVIOUS
<1>2. Max({a, b}) \in {a, b} /\ \A y \in {a, b} : Max({a, b}) >= y
  BY <1>1 DEF Max
<1> QED BY <1>2

(* The lesser of two natural numbers, at which the model caps its ages. *)
LEMMA MinOfTwo ==
    ASSUME NEW a \in Nat, NEW b \in Nat
    PROVE  Min({a, b}) = IF a <= b THEN a ELSE b
<1>1. \E x \in {a, b} : \A y \in {a, b} : x =< y
  OBVIOUS
<1>2. Min({a, b}) \in {a, b} /\ \A y \in {a, b} : Min({a, b}) =< y
  BY <1>1 DEF Min
<1> QED BY <1>2

(* The ages and times the model tells apart are in order. *)
LEMMA Periods ==
    /\ Oldest \in Nat /\ Cardinality(Roots) \in Nat
    /\ Never \in Nat /\ Never = Oldest + Cardinality(Roots) + 1
    /\ Unscheduled \in Nat /\ Unscheduled = Never + 1
    /\ Day \in Nat \ {0} /\ MinInterval \in Nat \ {0} /\ FullReconcile \in Nat \ {0}
    /\ CountLimit \in Nat /\ ByteLimit \in Nat /\ Blocked \in Nat
    /\ Max({Day, MinInterval}) \in Nat
    /\ Day <= Max({Day, MinInterval}) /\ MinInterval <= Max({Day, MinInterval})
    /\ Unreadable \in Nat
<1>1. {Quiet, MinInterval, FullReconcile, Day, CountLimit, ByteLimit} \subseteq Nat \ {0}
  BY AutomationAssumption
<1>2. Quiet \in Nat /\ MinInterval \in Nat \ {0} /\ FullReconcile \in Nat \ {0} /\ Day \in Nat \ {0}
      /\ CountLimit \in Nat /\ ByteLimit \in Nat
  BY <1>1
<1>3. Cardinality(Roots) \in Nat
  BY AutomationAssumption, FS_CardinalityType
<1>4. Oldest \in Nat
  BY <1>2, MaxOfTwo DEF Oldest
<1>5. Never \in Nat /\ Never = Oldest + Cardinality(Roots) + 1
  BY <1>3, <1>4, SMTT(30) DEF Never
<1>6. Unscheduled \in Nat /\ Unscheduled = Never + 1
  BY <1>5 DEF Unscheduled
<1>7. Blocked \in Nat
  BY <1>2 DEF Blocked
<1>8. /\ Max({Day, MinInterval}) \in Nat
      /\ Day <= Max({Day, MinInterval}) /\ MinInterval <= Max({Day, MinInterval})
  BY <1>2, MaxOfTwo
<1>9. Unreadable \in Nat
  BY <1>2, AutomationAssumption DEF Unreadable
<1> QED BY <1>2, <1>3, <1>4, <1>5, <1>6, <1>7, <1>8, <1>9, ZenonT(30)

-----------------------------------------------------------------------------
(* The operations on the durable record.                                   *)

(* mark_root_dirty_at keeps the record's shape and the revision in flight. *)
LEMMA ScheduleTyped ==
    ASSUME NEW s \in Records, NEW r \in Roots, NEW changed \in BOOLEAN
    PROVE  /\ Schedule(s, r, changed) \in Records
           /\ Schedule(s, r, changed).inFlight = s.inFlight
           /\ Schedule(s, r, changed).reconcile = s.reconcile
<1>1. 0 \in 0 .. Unscheduled /\ Never \in 0 .. Never
  BY Periods
<1>2. CASE r \notin Scheduled(s)
  BY <1>1, <1>2, Zenon DEF Schedule, Records
<1>3. CASE r \in Scheduled(s) /\ changed
  BY <1>1, <1>3, Zenon DEF Schedule, Records
<1>4. CASE r \in Scheduled(s) /\ ~changed
  BY <1>4 DEF Schedule
<1> QED BY <1>2, <1>3, <1>4, Zenon

(* Dropping the schedules of clean roots does too, ... *)
LEMMA RetainDirtyTyped ==
    ASSUME NEW s \in Records, NEW D
    PROVE  /\ RetainDirty(s, D) \in Records
           /\ RetainDirty(s, D).inFlight = s.inFlight
           /\ RetainDirty(s, D).reconcile = s.reconcile
<1> DEFINE since == [r \in Roots |-> IF r \in D THEN s.since[r] ELSE Unscheduled]
           last == [r \in Roots |-> IF r \in D THEN s.last[r] ELSE Never]
<1>1. s.since \in [Roots -> 0 .. Unscheduled] /\ s.last \in [Roots -> 0 .. Never]
  BY DEF Records
<1>2. Unscheduled \in 0 .. Unscheduled /\ Never \in 0 .. Never
  BY Periods
<1>3. since \in [Roots -> 0 .. Unscheduled] /\ last \in [Roots -> 0 .. Never]
  BY <1>1, <1>2
<1>4. RetainDirty(s, D) = [s EXCEPT !.since = since, !.last = last]
  BY DEF RetainDirty
<1> HIDE DEF since, last
<1> QED BY <1>3, <1>4, Zenon DEF Records

(* ... and so does giving a dirty root without one the oldest time there is. *)
LEMMA ScheduleDirtyTyped ==
    ASSUME NEW s \in Records, NEW D
    PROVE  /\ ScheduleDirty(s, D) \in Records
           /\ ScheduleDirty(s, D).inFlight = s.inFlight
           /\ ScheduleDirty(s, D).reconcile = s.reconcile
<1> DEFINE kept == RetainDirty(s, D)
           since == [r \in Roots |-> IF r \in D \ Scheduled(kept) THEN DirtySince(s) ELSE kept.since[r]]
<1>1. kept \in Records /\ kept.inFlight = s.inFlight /\ kept.reconcile = s.reconcile
  BY RetainDirtyTyped
<1>2. DirtySince(s) \in 0 .. Unscheduled
  <2>1. CASE Scheduled(s) = {}
    BY <2>1, Periods, SMTT(30) DEF DirtySince
  <2>2. CASE Scheduled(s) # {}
    <3> DEFINE ages == {s.since[r] : r \in Scheduled(s)}
    <3>1. ages \in SUBSET (0 .. Unscheduled) /\ ages # {}
      BY <2>2 DEF Records, Scheduled
    <3>2. DirtySince(s) = Max(ages)
      BY <2>2 DEF DirtySince
    <3> HIDE DEF ages
    <3> QED BY <3>1, <3>2, MaxIsGreatest, Periods, Zenon
  <2> QED BY <2>1, <2>2, Zenon
<1>3. ScheduleDirty(s, D) = [kept EXCEPT !.since = since]
  BY DEF ScheduleDirty
<1> HIDE DEF kept
<1>4. since \in [Roots -> 0 .. Unscheduled]
  BY <1>1, <1>2 DEF Records
<1> HIDE DEF since
<1> QED BY <1>1, <1>3, <1>4, Zenon DEF Records

(* The daily window starts over within the record's bounds. *)
LEMMA WindowedTyped ==
    ASSUME NEW s \in Records
    PROVE  /\ Windowed(s) \in Records
           /\ Windowed(s).inFlight = s.inFlight
           /\ Windowed(s).reconcile = s.reconcile
<1>1. 0 \in 0 .. Day /\ 0 \in 0 .. CountLimit /\ 0 \in 0 .. ByteLimit
  BY Periods
<1>2. CASE s.window >= Day
  BY <1>1, <1>2, Zenon DEF Windowed, Records
<1>3. CASE ~(s.window >= Day)
  BY <1>3 DEF Windowed
<1> QED BY <1>2, <1>3

(* automatic_backup_finished without success leaves nothing in flight. *)
LEMMA FailedTyped ==
    ASSUME NEW s \in Records, NEW r, NEW hard \in BOOLEAN
    PROVE  /\ Failed(s, r, hard) \in Records
           /\ Failed(s, r, hard).inFlight = NoRoot
           /\ Failed(s, r, hard).reconcile = s.reconcile
<1>1. MinInterval \in 0 .. Max({Day, MinInterval}) /\ 0 \in 0 .. Day /\ NoRoot \in Roots \cup {NoRoot}
  BY Periods
<1>2. CASE hard
  BY <1>1, <1>2, Zenon DEF Failed, Records
<1>3. CASE ~hard
  BY <1>1, <1>3, Zenon DEF Failed, Records
<1> QED BY <1>2, <1>3, Zenon

(* A full reconciliation marks every root and notes the time. *)
LEMMA ReconciledTyped ==
    ASSUME NEW s \in Records
    PROVE  /\ Reconciled(s) \in Records
           /\ Reconciled(s).inFlight = s.inFlight
           /\ Reconciled(s).reconcile = 0
<1> DEFINE since == [r \in Roots |-> Schedule(s, r, FALSE).since[r]]
           last == [r \in Roots |-> Schedule(s, r, FALSE).last[r]]
<1>1. ASSUME NEW r \in Roots
      PROVE  Schedule(s, r, FALSE).since[r] \in 0 .. Unscheduled /\ Schedule(s, r, FALSE).last[r] \in 0 .. Never
  <2>1. Schedule(s, r, FALSE) \in Records
    BY ScheduleTyped, Zenon
  <2> QED BY <2>1, Zenon DEF Records
<1>2. since \in [Roots -> 0 .. Unscheduled] /\ last \in [Roots -> 0 .. Never]
  BY <1>1, Zenon
<1>3. Reconciled(s) = [s EXCEPT !.reconcile = 0, !.since = since, !.last = last]
  BY DEF Reconciled
<1>4. 0 \in 0 .. FullReconcile
  BY Periods
<1> HIDE DEF since, last
<1> QED BY <1>2, <1>3, <1>4, Zenon DEF Records

(* What the rest of poll_automatic_backup works with. *)
LEMMA PolledTyped ==
    ASSUME state \in Records, dirty \subseteq Roots
    PROVE  /\ Polled \in Records
           /\ Polled.inFlight = state.inFlight
           /\ Polled.reconcile = IF ReconciliationDue THEN 0 ELSE state.reconcile
           /\ PolledDirty \subseteq Roots
BY WindowedTyped, ReconciledTyped DEF Polled, PolledDirty

(* A scan puts the roots off that do not fit. *)
LEMMA AfterScanTyped ==
    ASSUME NEW s \in Records, NEW size
    PROVE  /\ AfterScan(s, size) \in Records
           /\ AfterScan(s, size).inFlight = s.inFlight
           /\ AfterScan(s, size).reconcile = s.reconcile
           /\ AfterScan(s, size).count = s.count
           /\ AfterScan(s, size).bytes = s.bytes
<1> DEFINE retry == [r \in Roots |-> IF r \notin Skipped(s, size) THEN s.retry[r]
                                     ELSE IF size[r] = Unreadable THEN MinInterval ELSE Day - s.window]
<1>1. s.retry \in [Roots -> 0 .. Max({Day, MinInterval})] /\ s.window \in 0 .. Day
  BY DEF Records
<1>2. MinInterval \in 0 .. Max({Day, MinInterval}) /\ Day - s.window \in 0 .. Max({Day, MinInterval})
  BY <1>1, Periods
<1>3. retry \in [Roots -> 0 .. Max({Day, MinInterval})]
  BY <1>1, <1>2
<1>4. AfterScan(s, size) = [s EXCEPT !.retry = retry]
  BY DEF AfterScan
<1> HIDE DEF retry
<1> QED BY <1>3, <1>4, Zenon DEF Records

(* poll_automatic_backup's order of roots has a first one in every set of  *)
(* candidates: the longest dirty, then the longest not attempted, then the *)
(* least id.                                                               *)
LEMMA FirstIsMember ==
    ASSUME NEW s \in Records, NEW S \in SUBSET Roots, S # {}
    PROVE  First(s, S) \in S
<1>1. s.since \in [Roots -> 0 .. Unscheduled] /\ s.last \in [Roots -> 0 .. Never]
  BY DEF Records
<1>2. Unscheduled \in Nat /\ Never \in Nat /\ Roots \subseteq Nat
  BY Periods, AutomationAssumption, Zenon
<1>10. \A r \in Roots : r \in Nat /\ s.since[r] \in Nat /\ s.last[r] \in Nat
  BY <1>1, <1>2, SMTT(30)
<1>3. PICK a \in S : \A q \in S : s.since[q] <= s.since[a]
  <2> DEFINE T == {s.since[q] : q \in S}
  <2>1. T \in SUBSET (0 .. Unscheduled) /\ T # {}
    BY <1>1
  <2>2. PICK x \in T : \A y \in T : y <= x
    <3> HIDE DEF T
    <3> QED BY <1>2, <2>1, GreatestElement, Zenon
  <2> QED BY <2>2
<1> DEFINE A == {q \in S : s.since[q] = s.since[a]}
<1>4. PICK b \in A : \A q \in A : s.last[q] <= s.last[b]
  <2> DEFINE T == {s.last[q] : q \in A}
  <2>1. T \in SUBSET (0 .. Never) /\ T # {}
    BY <1>1, <1>3
  <2>2. PICK x \in T : \A y \in T : y <= x
    <3> HIDE DEF T
    <3> QED BY <1>2, <2>1, GreatestElement, Zenon
  <2> QED BY <2>2
<1> DEFINE B == {q \in A : s.last[q] = s.last[b]}
<1>5. PICK c \in B : \A q \in B : c <= q
  <2>1. B \in SUBSET Nat /\ B # {}
    BY <1>2, <1>4, Zenon
  <2> HIDE DEF B
  <2> QED BY <2>1, LeastElement
<1>6. ASSUME NEW q \in S \ {c} PROVE Before(s, c, q)
  <2>1. s.since[c] = s.since[a] /\ s.last[c] = s.last[b] /\ c \in S
    OBVIOUS
  <2>2. /\ s.since[q] \in Nat /\ s.since[c] \in Nat /\ s.last[q] \in Nat /\ s.last[c] \in Nat
        /\ q \in Nat /\ c \in Nat
    <3>1. q \in Roots /\ c \in Roots
      BY <2>1
    <3> QED BY <1>2, <1>10, <3>1, Zenon
  <2>3. s.since[q] <= s.since[c]
    BY <1>3, <2>1, Zenon
  <2>4. s.since[q] = s.since[c] => s.last[q] <= s.last[c]
    BY <1>4, <2>1, Zenon
  <2>5. s.since[q] = s.since[c] /\ s.last[q] = s.last[c] => c <= q
    BY <1>5, <2>1, Zenon
  <2> HIDE DEF A, B
  <2> QED BY <2>2, <2>3, <2>4, <2>5, SMTT(30) DEF Before
<1>7. c \in S
  OBVIOUS
<1> HIDE DEF A, B
<1> QED BY <1>6, <1>7, Zenon DEF First

(* A schedule stays one as it ages, and its ages up to Oldest are exact. *)
LEMMA OlderKeeps ==
    ASSUME NEW N \in Nat, NEW ages \in [Roots -> 0 .. N], NEW keep \in SUBSET Roots, NEW r \in Roots \ keep
    PROVE  /\ Older(ages, keep)[r] \in 0 .. Oldest + Cardinality(Roots)
           /\ ages[r] + 1 <= Oldest => Older(ages, keep)[r] = ages[r] + 1
<1> DEFINE next == [x \in Roots |-> IF x \in keep THEN ages[x] ELSE ages[x] + 1]
<1>1. next \in [Roots -> Nat] /\ next[r] = ages[r] + 1
  OBVIOUS
<1>2. Older(ages, keep) = Squeeze(next, keep)
  BY DEF Older
<1> HIDE DEF next
<1> DEFINE old == {p \in Roots \ keep : Oldest < next[p] /\ next[p] <= next[r]}
           distinct == {next[x] : x \in old}
           f == [x \in old |-> next[x]]
<1>3. IsFiniteSet(Roots) /\ old \in SUBSET Roots
  BY AutomationAssumption
<1>4. IsFiniteSet(old) /\ Cardinality(old) <= Cardinality(Roots) /\ Cardinality(old) \in Nat
  <2> HIDE DEF old
  <2> QED BY <1>3, FS_Subset, FS_CardinalityType, Zenon
<1>5. f \in Surjection(old, distinct)
  BY DEF Surjection
<1>6. Cardinality(distinct) <= Cardinality(old) /\ Cardinality(distinct) \in Nat
  <2> HIDE DEF old, distinct, f
  <2> QED BY <1>4, <1>5, FS_Surjection, FS_CardinalityType, Zenon
<1>7. Squeeze(next, keep)[r] = IF next[r] <= Oldest THEN next[r] ELSE Oldest + Cardinality(distinct)
  BY DEF Squeeze
<1> HIDE DEF old, distinct, f
<1>8. Oldest \in Nat /\ Cardinality(Roots) \in Nat
  BY Periods, Zenon
<1> QED BY <1>1, <1>2, <1>4, <1>6, <1>7, <1>8, SMTT(30)

(* Ages grow, and those above Oldest are renumbered, within the bounds:    *)
(* there are no more of them than roots.                                   *)
LEMMA OlderTyped ==
    ASSUME NEW N \in Nat, N > Oldest + Cardinality(Roots), NEW ages \in [Roots -> 0 .. N], NEW keep \in SUBSET Roots
    PROVE  Older(ages, keep) \in [Roots -> 0 .. N]
<1>1. ASSUME NEW r \in Roots PROVE Older(ages, keep)[r] \in 0 .. N
  <2>1. CASE r \in keep
    <3>1. Older(ages, keep)[r] = ages[r]
      BY <2>1, Zenon DEF Older, Squeeze
    <3> QED BY <3>1
  <2>2. CASE r \notin keep
    <3>1. Older(ages, keep)[r] \in 0 .. Oldest + Cardinality(Roots)
      BY <2>2, OlderKeeps, Zenon
    <3>2. Oldest \in Nat /\ Cardinality(Roots) \in Nat
      BY Periods, Zenon
    <3> QED BY <3>1, <3>2
  <2> QED BY <2>1, <2>2, Zenon
<1>2. Older(ages, keep) = [r \in Roots |-> Older(ages, keep)[r]]
  BY Zenon DEF Older, Squeeze
<1> QED BY <1>1, <1>2, Zenon

-----------------------------------------------------------------------------
(* Types, and what a step does to the revision in flight and to the time   *)
(* of the last full reconciliation.                                        *)

(* Steps counted against their bound stay within it. *)
LEMMA DisturbTyped ==
    ASSUME disturbances \in 0 .. MaxDisturbances, Disturb
    PROVE  disturbances' \in 0 .. MaxDisturbances
BY AutomationAssumption DEF Disturb

(* The places at which the loop holds no backup. *)
LEMMA AtTyped ==
    ASSUME NEW place \in {"poll", "sleep", "query"}
    PROVE  At(place) \in Loops /\ At(place).at = place
BY DEF At, Loops

(* poll_automatic_backup leaves what is in flight alone, notes the time if *)
(* it reconciled, and chooses a root only if nothing is in flight.         *)
LEMMA PollStep ==
    ASSUME TypeOK, Poll
    PROVE  /\ TypeOK'
           /\ state'.inFlight = state.inFlight
           /\ state'.reconcile = IF ReconciliationDue THEN 0 ELSE state.reconcile
           /\ loop'.at \in {"sleep", "query", "prepare"}
           /\ loop'.at = "prepare" => loop'.root \in Roots /\ state.inFlight = NoRoot
           /\ UNCHANGED <<job, coordinator, starting>>
<1>1. PollBegins
  BY Zenon DEF Poll, PollInFlight, PollClean, PollWaits, PollWithoutGuild, PollCountLimit, PollScan, PollReady
<1>2. /\ Polled \in Records /\ Polled.inFlight = state.inFlight
      /\ Polled.reconcile = IF ReconciliationDue THEN 0 ELSE state.reconcile
      /\ PolledDirty \subseteq Roots
  BY PolledTyped DEF TypeOK
<1>3. UNCHANGED <<job, coordinator, starting>>
  BY <1>1 DEF PollBegins
<1>4. ASSUME state' \in Records, loop' \in Loops, disturbances' \in 0 .. MaxDisturbances
      PROVE  TypeOK'
  BY <1>1, <1>2, <1>4, Zenon DEF TypeOK, PollBegins
<1>5. ASSUME NEW t \in Records, PollIdles(t), t.inFlight = state.inFlight,
             t.reconcile = IF ReconciliationDue THEN 0 ELSE state.reconcile
      PROVE  /\ TypeOK'
             /\ state'.inFlight = state.inFlight
             /\ state'.reconcile = IF ReconciliationDue THEN 0 ELSE state.reconcile
             /\ loop'.at = "sleep"
  BY <1>4, <1>5, AtTyped, Zenon DEF PollIdles, TypeOK
<1>6. CASE PollInFlight
  <2>1. /\ state' = IF ReconciliationDue THEN Polled ELSE state
        /\ loop' = At("query") /\ disturbances' = disturbances
    BY <1>6 DEF PollInFlight
  <2>2. state' \in Records /\ state'.inFlight = state.inFlight
        /\ state'.reconcile = IF ReconciliationDue THEN 0 ELSE state.reconcile
    BY <1>2, <2>1, Zenon DEF TypeOK
  <2>3. loop' \in Loops /\ loop'.at = "query"
    BY <2>1, AtTyped, Zenon
  <2>4. TypeOK'
    BY <1>4, <2>1, <2>2, <2>3, Zenon DEF TypeOK
  <2> QED BY <1>3, <2>2, <2>3, <2>4, Zenon
<1>7. CASE PollClean
  <2> DEFINE kept == RetainDirty(Polled, {})
             t == [kept EXCEPT !.retry = [r \in Roots |-> 0]]
  <2>1. kept \in Records /\ kept.inFlight = Polled.inFlight /\ kept.reconcile = Polled.reconcile
    BY <1>2, RetainDirtyTyped, Zenon
  <2>2. PollIdles(t)
    BY <1>7 DEF PollClean
  <2> HIDE DEF kept
  <2>3. t \in Records /\ t.inFlight = kept.inFlight /\ t.reconcile = kept.reconcile
    BY <2>1, Periods, SMTT(30) DEF Records
  <2> HIDE DEF t
  <2> QED BY <1>2, <1>3, <1>5, <2>1, <2>2, <2>3, ZenonT(30)
<1>8. CASE PollWaits
  BY <1>2, <1>3, <1>5, <1>8, Zenon DEF PollWaits
<1>9. CASE PollWithoutGuild
  <2> DEFINE t == [Polled EXCEPT !.wait = Blocked]
  <2>1. t \in Records /\ t.inFlight = Polled.inFlight /\ t.reconcile = Polled.reconcile
    BY <1>2, Zenon DEF Records
  <2>2. PollIdles(t)
    BY <1>9 DEF PollWithoutGuild
  <2> HIDE DEF t
  <2> QED BY <1>2, <1>3, <1>5, <2>1, <2>2, ZenonT(30)
<1> DEFINE s == ScheduleDirty(Polled, PolledDirty)
<1>10. s \in Records /\ s.inFlight = Polled.inFlight /\ s.reconcile = Polled.reconcile
  BY <1>2, ScheduleDirtyTyped, Zenon
<1>11. CASE PollCountLimit
  <2> DEFINE t == [s EXCEPT !.wait = Day - s.window]
  <2>1. PollIdles(t)
    BY <1>11, Zenon DEF PollCountLimit
  <2> HIDE DEF s
  <2>2. Day - s.window \in 0 .. Day
    BY <1>10, Periods, SMTT(30) DEF Records
  <2>3. t \in Records /\ t.inFlight = s.inFlight /\ t.reconcile = s.reconcile
    BY <1>10, <2>2, Zenon DEF Records
  <2> HIDE DEF t
  <2> QED BY <1>2, <1>3, <1>5, <1>10, <2>1, <2>3, ZenonT(30)
<1>12. CASE PollScan
  <2>1. Polled.inFlight = NoRoot /\ CountLeft(s)
    BY <1>12, Zenon DEF PollScan, PollReady
  <2>2. PICK size \in [Roots -> Sizes \cup {Unreadable}] :
          /\ IF \E r \in Roots : size[r] = Unreadable THEN Disturb ELSE UNCHANGED disturbances
          /\ LET S == Selectable(s, size)
                 r == First(s, S)
             IN IF S = {}
                THEN state' = AfterScan(s, size) /\ loop' = At("sleep")
                ELSE /\ state' = [AfterScan(s, size) EXCEPT
                                     !.last[r] = 0, !.count = @ + 1, !.bytes = @ + size[r], !.wait = 0]
                     /\ loop' = [At("prepare") EXCEPT !.root = r]
    BY <1>12, Zenon DEF PollScan
  <2> HIDE DEF s
  <2> DEFINE S == Selectable(s, size)
             r == First(s, S)
             after == AfterScan(s, size)
  <2>3. disturbances' \in 0 .. MaxDisturbances
    BY <2>2, DisturbTyped, Zenon DEF TypeOK
  <2>4. /\ after \in Records /\ after.inFlight = s.inFlight /\ after.reconcile = s.reconcile
        /\ after.count = s.count /\ after.bytes = s.bytes
    BY <1>10, AfterScanTyped, Zenon
  <2>5. S \in SUBSET Roots /\ \A q \in S : size[q] + s.bytes <= ByteLimit
    BY DEF Selectable, Eligible, Scheduled
  <2>6. \A q \in Roots : size[q] \in Nat
    BY AutomationAssumption, Periods, SMTT(30)
  <2>7. S # {} => r \in S
    <3> HIDE DEF S
    <3> QED BY <1>10, <2>5, FirstIsMember, Zenon
  <2>8. IF S = {}
        THEN state' = after /\ loop' = At("sleep")
        ELSE /\ state' = [after EXCEPT !.last[r] = 0, !.count = @ + 1, !.bytes = @ + size[r], !.wait = 0]
             /\ loop' = [At("prepare") EXCEPT !.root = r]
    BY <2>2
  <2> HIDE DEF S, r, after
  <2>9. CASE S = {}
    BY <1>2, <1>3, <1>4, <1>10, <2>3, <2>4, <2>8, <2>9, AtTyped, ZenonT(30)
  <2>10. CASE S # {}
    <3>1. r \in Roots /\ size[r] \in Nat /\ size[r] + s.bytes <= ByteLimit
      BY <2>5, <2>6, <2>7, <2>10, ZenonT(30)
    <3>2. s.count + 1 \in 0 .. CountLimit /\ size[r] + s.bytes \in 0 .. ByteLimit
      BY <1>10, <2>1, <3>1, Periods, SMTT(30) DEF CountLeft, Records
    <3>3. state' = [after EXCEPT !.last[r] = 0, !.count = @ + 1, !.bytes = @ + size[r], !.wait = 0]
      BY <2>8, <2>10, ZenonT(30)
    <3>4. /\ after.count + 1 \in 0 .. CountLimit /\ after.bytes + size[r] \in 0 .. ByteLimit
          /\ 0 \in 0 .. Never /\ 0 \in 0 .. Day
      BY <2>4, <3>1, <3>2, <1>10, Periods, SMTT(30) DEF Records
    <3>5. /\ state' \in Records /\ state'.inFlight = after.inFlight /\ state'.reconcile = after.reconcile
      BY <2>4, <3>3, <3>4, ZenonT(30) DEF Records
    <3>6. loop' \in Loops /\ loop'.at = "prepare" /\ loop'.root = r
      BY <2>8, <2>10, <3>1, Zenon DEF At, Loops
    <3> QED BY <1>2, <1>3, <1>4, <1>10, <2>1, <2>3, <2>4, <3>1, <3>5, <3>6, ZenonT(30)
  <2> QED BY <2>9, <2>10, Zenon
<1> QED BY <1>6, <1>7, <1>8, <1>9, <1>11, <1>12, ZenonT(30) DEF Poll

-----------------------------------------------------------------------------
(* The revision in flight.                                                 *)

(* Where run_automatic_backups carries a root it has chosen. *)
Busy == {"prepare", "send", "record"}

(* The inductive invariant behind InFlightKnown: the loop chooses a root   *)
(* only when nothing is in flight, so that the capture that starts the     *)
(* jobs of a root anew never does so to the revision waited for; and a     *)
(* coordinator's answer is recorded only for a job it has.                 *)
Tracked ==
    /\ loop.at \in Busy => loop.root \in Roots /\ state.inFlight = NoRoot
    /\ loop.at = "record" => \E c \in 1 .. coordinator : job[c][loop.root] # "none"
    /\ InFlightKnown

(* Steps beside the loop, which take no job away, keep it. *)
LEMMA TrackedKept ==
    ASSUME TypeOK, Tracked, coordinator' \in {coordinator, coordinator + 1},
           state'.inFlight \in {state.inFlight, NoRoot},
           \A c \in Coordinators, r \in Roots : job[c][r] # "none" => job'[c][r] # "none",
           loop' = loop \/ loop'.at \notin Busy
    PROVE  Tracked'
<1>1. coordinator \in Coordinators /\ coordinator \in Nat /\ MaxCoordinators \in Nat
  BY AutomationAssumption DEF TypeOK, Coordinators
<1>2. 1 .. coordinator \subseteq Coordinators /\ 1 .. coordinator \subseteq 1 .. coordinator'
  BY <1>1 DEF Coordinators
<1>3. ASSUME NEW r \in Roots, \E c \in 1 .. coordinator : job[c][r] # "none"
      PROVE  \E c \in 1 .. coordinator' : job'[c][r] # "none"
  BY <1>2, <1>3, Zenon
<1>4. state.inFlight # NoRoot => state.inFlight \in Roots
  BY DEF TypeOK, Records
<1>5. InFlightKnown'
  BY <1>3, <1>4, Zenon DEF Tracked, InFlightKnown
<1>6. CASE loop' = loop
  <2>1. (loop.at \in Busy => loop.root \in Roots /\ state.inFlight = NoRoot)'
    BY <1>6 DEF Tracked, Busy
  <2>2. (loop.at = "record" => \E c \in 1 .. coordinator : job[c][loop.root] # "none")'
    BY <1>3, <1>6, Zenon DEF Tracked, Busy
  <2> QED BY <1>5, <2>1, <2>2, ZenonT(30) DEF Tracked
<1>7. CASE loop'.at \notin Busy
  BY <1>5, <1>7, Zenon DEF Tracked, Busy
<1> QED BY <1>6, <1>7, Zenon

(* submit_local_backup and query_local_backup_job, step by step. *)
LEMMA SubmitStep ==
    ASSUME TypeOK, Tracked, Submit
    PROVE  TypeOK' /\ Tracked' /\ state'.reconcile = state.reconcile /\ UNCHANGED starting
<1>1. /\ state \in Records /\ loop \in Loops /\ disturbances \in 0 .. MaxDisturbances
      /\ coordinator \in Coordinators
      /\ job \in [Coordinators -> [Roots -> {"none", "pending", "failed", "committed"}]]
      /\ head \in [Roots -> {"none", "open", "committed"}]
      /\ captured \subseteq Roots
  BY DEF TypeOK
<1>2. ASSUME NEW hard \in BOOLEAN, GivesUp(hard)
      PROVE  /\ state' \in Records /\ loop' \in Loops /\ disturbances' \in 0 .. MaxDisturbances
             /\ state'.inFlight = NoRoot /\ state'.reconcile = state.reconcile /\ loop'.at \notin Busy
  <2>1. state' = Failed(state, loop.root, hard) /\ loop' = At("sleep")
    BY <1>2 DEF GivesUp
  <2>2. disturbances' \in 0 .. MaxDisturbances
    BY <1>1, <1>2, DisturbTyped, Zenon DEF GivesUp
  <2>3. loop' \in Loops /\ loop'.at = "sleep"
    BY <2>1, AtTyped, Zenon
  <2> QED BY <1>1, <2>1, <2>2, <2>3, FailedTyped, ZenonT(30) DEF Busy
<1>3. CASE Prepare
  <2> DEFINE r == loop.root
  <2>1. r \in Roots /\ state.inFlight = NoRoot
    BY <1>3 DEF Prepare, Tracked, Busy
  <2>2. /\ loop' = [loop EXCEPT !.at = "send", !.to = coordinator]
        /\ UNCHANGED <<dirty, certified, state, guild, coordinator, starting, disturbances>>
    BY <1>3 DEF Prepare
  <2>3. loop' \in Loops /\ loop'.at = "send" /\ loop'.root = r
    BY <1>1, <2>2, Zenon DEF Loops
  <2>4. \/ UNCHANGED <<head, captured, job>>
        \/ /\ head' = [head EXCEPT ![r] = "open"]
           /\ captured' = captured \cup {r}
           /\ job' = [c \in Coordinators |-> [job[c] EXCEPT ![r] = "none"]]
    BY <1>3 DEF Prepare
  <2> HIDE DEF r
  <2>5. head' \in [Roots -> {"none", "open", "committed"}] /\ \A q \in Roots : head[q] = "open" => head'[q] = "open"
    BY <1>1, <2>1, <2>4, Zenon
  <2>6. captured' \subseteq Roots
    BY <1>1, <2>1, <2>4, Zenon
  <2>7. job' \in [Coordinators -> [Roots -> {"none", "pending", "failed", "committed"}]]
    BY <1>1, <2>1, <2>4, SMTT(30)
  <2>8. TypeOK'
    BY <2>2, <2>3, <2>5, <2>6, <2>7, ZenonT(30) DEF TypeOK
  <2>9. Tracked'
    BY <2>1, <2>2, <2>3, Zenon DEF Tracked, InFlightKnown
  <2> QED BY <2>2, <2>8, <2>9, Zenon
<1>4. CASE PrepareFails
  <2>1. PICK hard \in BOOLEAN : GivesUp(hard)
    BY <1>4 DEF PrepareFails
  <2>2. UNCHANGED <<dirty, captured, head, certified, guild, coordinator, job, starting>>
    BY <1>4 DEF PrepareFails
  <2>3. TypeOK'
    BY <1>2, <2>1, <2>2, Zenon DEF TypeOK
  <2> QED BY <1>2, <2>1, <2>2, <2>3, TrackedKept, ZenonT(30)
<1>5. CASE Enqueue
  <2> DEFINE r == loop.root
  <2>1. r \in Roots /\ state.inFlight = NoRoot
    BY <1>5 DEF Enqueue, Tracked, Busy
  <2>2. /\ job' = [job EXCEPT ![coordinator][r] = IF @ = "committed" THEN @ ELSE "pending"]
        /\ \/ loop' = [loop EXCEPT !.at = "record"] /\ UNCHANGED <<state, disturbances>>
           \/ GivesUp(FALSE)
        /\ UNCHANGED <<dirty, captured, head, certified, guild, coordinator, starting>>
    BY <1>5, Zenon DEF Enqueue
  <2> HIDE DEF r
  <2>3. /\ job' \in [Coordinators -> [Roots -> {"none", "pending", "failed", "committed"}]]
        /\ job'[coordinator][r] # "none"
    BY <1>1, <2>1, <2>2, Zenon
  <2>4. \A c \in Coordinators, q \in Roots : job[c][q] # "none" => job'[c][q] # "none"
    BY <1>1, <2>1, <2>2, Zenon
  <2>5. CASE GivesUp(FALSE)
    <3>1. TypeOK'
      BY <1>2, <2>2, <2>3, <2>5, ZenonT(30) DEF TypeOK
    <3> QED BY <1>2, <2>2, <2>4, <2>5, <3>1, TrackedKept, ZenonT(30)
  <2>6. CASE loop' = [loop EXCEPT !.at = "record"] /\ UNCHANGED <<state, disturbances>>
    <3>1. loop' \in Loops /\ loop'.at = "record" /\ loop'.root = r
      BY <1>1, <2>6, Zenon DEF Loops, r
    <3>2. TypeOK'
      BY <2>2, <2>3, <2>6, <3>1, ZenonT(30) DEF TypeOK
    <3>3. coordinator \in 1 .. coordinator
      BY <1>1, SMTT(30) DEF Coordinators
    <3>4. Tracked'
      BY <2>1, <2>2, <2>3, <2>6, <3>1, <3>3, ZenonT(30) DEF Tracked, InFlightKnown
    <3> QED BY <2>2, <2>6, <3>2, <3>4, Zenon
  <2> QED BY <2>2, <2>5, <2>6, Zenon
<1>6. CASE SendFails
  <2>1. GivesUp(FALSE) /\ UNCHANGED <<dirty, captured, head, certified, guild, coordinator, job, starting>>
    BY <1>6, Zenon DEF SendFails
  <2>2. TypeOK'
    BY <1>2, <2>1, Zenon DEF TypeOK
  <2> QED BY <1>2, <2>1, <2>2, TrackedKept, Zenon
<1>7. CASE Submitted
  <2>1. loop.root \in Roots /\ \E c \in 1 .. coordinator : job[c][loop.root] # "none"
    BY <1>7 DEF Submitted, Tracked, Busy
  <2>2. /\ state' = [state EXCEPT !.inFlight = loop.root, !.wait = 0]
        /\ loop' = At("sleep")
        /\ UNCHANGED <<dirty, captured, head, certified, guild, coordinator, job, starting, disturbances>>
    BY <1>7, Zenon DEF Submitted
  <2>3. state' \in Records /\ state'.inFlight = loop.root /\ state'.reconcile = state.reconcile
    <3>1. 0 \in 0 .. Day
      BY Periods
    <3> QED BY <1>1, <2>1, <2>2, <3>1, ZenonT(30) DEF Records
  <2>4. loop' \in Loops /\ loop'.at = "sleep"
    BY <2>2, AtTyped, Zenon
  <2>5. TypeOK'
    BY <2>2, <2>3, <2>4, Zenon DEF TypeOK
  <2>6. Tracked'
    BY <2>1, <2>2, <2>3, <2>4, Zenon DEF Tracked, InFlightKnown, Busy
  <2> QED BY <2>2, <2>3, <2>5, <2>6, ZenonT(30)
<1>8. CASE Query
  <2>1. UNCHANGED <<dirty, captured, head, certified, state, guild, coordinator, job, starting, disturbances>>
    BY <1>8 DEF Query
  <2>2. loop' \in Loops /\ loop'.at \notin Busy
    <3>1. CASE loop' = At("sleep")
      BY <3>1, AtTyped, Zenon DEF Busy
    <3>2. CASE loop' = [At("finish") EXCEPT !.root = state.inFlight,
                                            !.ok = job[coordinator][state.inFlight] = "committed"]
      <4>1. state.inFlight \in Roots \cup {NoRoot}
        BY <1>1 DEF Records
      <4>2. loop' = [at |-> "finish", root |-> state.inFlight, to |-> 0,
                     ok |-> (job[coordinator][state.inFlight] = "committed")]
        BY <3>2, Zenon DEF At
      <4>3. (job[coordinator][state.inFlight] = "committed") \in BOOLEAN
        OBVIOUS
      <4> QED BY <4>1, <4>2, <4>3, Zenon DEF Loops, Busy
    <3> QED BY <1>8, <3>1, <3>2, Zenon DEF Query
  <2>3. TypeOK'
    BY <2>1, <2>2, Zenon DEF TypeOK
  <2> QED BY <2>1, <2>2, <2>3, TrackedKept, Zenon
<1>9. CASE Finish
  <2>1. /\ loop' = At("sleep")
        /\ UNCHANGED <<dirty, captured, head, certified, guild, coordinator, job, starting, disturbances>>
    BY <1>9 DEF Finish
  <2>2. \/ state' = [state EXCEPT !.inFlight = NoRoot, !.wait = 0, !.retry[loop.root] = 0]
        \/ state' = Failed(state, loop.root, TRUE)
    BY <1>9, Zenon DEF Finish
  <2>3. state' \in Records /\ state'.inFlight = NoRoot /\ state'.reconcile = state.reconcile
    <3>1. CASE state' = Failed(state, loop.root, TRUE)
      BY <1>1, <3>1, FailedTyped, Zenon
    <3>2. CASE state' = [state EXCEPT !.inFlight = NoRoot, !.wait = 0, !.retry[loop.root] = 0]
      <4>1. 0 \in 0 .. Day /\ 0 \in 0 .. Max({Day, MinInterval}) /\ NoRoot \in Roots \cup {NoRoot}
        BY Periods
      <4> QED BY <1>1, <3>2, <4>1, ZenonT(30) DEF Records
    <3> QED BY <2>2, <3>1, <3>2, Zenon
  <2>4. loop' \in Loops /\ loop'.at \notin Busy
    BY <2>1, AtTyped, Zenon DEF Busy
  <2>5. TypeOK'
    BY <2>1, <2>3, <2>4, ZenonT(30) DEF TypeOK
  <2> QED BY <2>1, <2>3, <2>4, <2>5, TrackedKept, ZenonT(30)
<1> QED BY <1>3, <1>4, <1>5, <1>6, <1>7, <1>8, <1>9, ZenonT(30) DEF Submit

(* What a step beside the loop does: it takes no job away, and the loop    *)
(* stays where it is or starts over.                                       *)
Aside ==
    /\ coordinator' \in {coordinator, coordinator + 1}
    /\ state'.inFlight = state.inFlight
    /\ \A c \in Coordinators, r \in Roots : job[c][r] # "none" => job'[c][r] # "none"
    /\ loop' = loop \/ loop'.at \notin Busy

(* The coordinator's jobs, checkpoints, and changes of the guild. *)
LEMMA GuildStep ==
    ASSUME TypeOK,
           \/ \E r \in Roots : Coordinate(r)
           \/ AcceptCheckpoint \/ RemoveCoordinator \/ JoinGuild \/ ClearBlock
    PROVE  TypeOK' /\ Aside /\ state'.reconcile = state.reconcile /\ UNCHANGED starting
<1>1. /\ state \in Records /\ disturbances \in 0 .. MaxDisturbances
      /\ coordinator \in Coordinators
      /\ job \in [Coordinators -> [Roots -> {"none", "pending", "failed", "committed"}]]
      /\ head \in [Roots -> {"none", "open", "committed"}]
      /\ certified \subseteq Roots
  BY DEF TypeOK
<1>2. ASSUME NEW r \in Roots, Certify(r)
      PROVE  TypeOK' /\ Aside /\ state'.reconcile = state.reconcile /\ UNCHANGED starting
  BY <1>2, Zenon DEF TypeOK, Certify, Aside
<1>3. ASSUME NEW r \in Roots, CompleteJob(r) \/ FailJob(r)
      PROVE  TypeOK' /\ Aside /\ state'.reconcile = state.reconcile /\ UNCHANGED starting
  <2>1. /\ \E end \in {"committed", "failed"} : job' = [job EXCEPT ![coordinator][r] = end]
        /\ disturbances' = disturbances \/ Disturb
        /\ UNCHANGED <<dirty, captured, head, certified, state, guild, coordinator, loop, starting>>
    BY <1>3, Zenon DEF CompleteJob, FailJob
  <2>2. /\ job' \in [Coordinators -> [Roots -> {"none", "pending", "failed", "committed"}]]
        /\ \A c \in Coordinators, q \in Roots : job[c][q] # "none" => job'[c][q] # "none"
    BY <1>1, <2>1, SMTT(30)
  <2>3. disturbances' \in 0 .. MaxDisturbances
    BY <1>1, <2>1, DisturbTyped, Zenon
  <2>4. TypeOK'
    BY <2>1, <2>2, <2>3, Zenon DEF TypeOK
  <2> QED BY <2>1, <2>2, <2>4, ZenonT(30) DEF Aside
<1>4. CASE AcceptCheckpoint
  <2>1. /\ head' = [r \in Roots |-> IF r \in certified THEN "committed" ELSE head[r]]
        /\ certified' = {}
        /\ dirty' = dirty \ Cleared
        /\ state' = RetainDirty(state, dirty \ Cleared)
        /\ UNCHANGED <<captured, guild, coordinator, job, loop, starting, disturbances>>
    BY <1>4, Zenon DEF AcceptCheckpoint
  <2>2. head' \in [Roots -> {"none", "open", "committed"}]
    BY <1>1, <2>1, Zenon
  <2>3. state' \in Records /\ state'.inFlight = state.inFlight /\ state'.reconcile = state.reconcile
    BY <1>1, <2>1, RetainDirtyTyped, Zenon
  <2>4. TypeOK'
    BY <2>1, <2>2, <2>3, Zenon DEF TypeOK
  <2> QED BY <2>1, <2>3, <2>4, Zenon DEF Aside
<1>5. CASE RemoveCoordinator
  <2>1. /\ coordinator' = coordinator + 1 /\ coordinator' \in Coordinators
        /\ disturbances' \in 0 .. MaxDisturbances
        /\ UNCHANGED <<dirty, captured, head, certified, state, guild, job, loop, starting>>
    BY <1>1, <1>5, DisturbTyped, ZenonT(30) DEF RemoveCoordinator
  <2>2. TypeOK'
    BY <2>1, Zenon DEF TypeOK
  <2> QED BY <2>1, <2>2, Zenon DEF Aside
<1>6. CASE JoinGuild
  BY <1>6 DEF TypeOK, JoinGuild, Aside
<1>7. CASE ClearBlock
  <2>1. /\ state' = [state EXCEPT !.wait = 0, !.retry = [r \in Roots |-> 0]]
        /\ disturbances' \in 0 .. MaxDisturbances
        /\ UNCHANGED <<dirty, captured, head, certified, guild, coordinator, job, loop, starting>>
    BY <1>1, <1>7, DisturbTyped, ZenonT(30) DEF ClearBlock
  <2>2. state' \in Records /\ state'.inFlight = state.inFlight /\ state'.reconcile = state.reconcile
    <3>1. 0 \in 0 .. Day /\ [r \in Roots |-> 0] \in [Roots -> 0 .. Max({Day, MinInterval})]
      BY Periods, SMTT(30)
    <3> QED BY <1>1, <2>1, <3>1, ZenonT(30) DEF Records
  <2>3. TypeOK'
    BY <2>1, <2>2, Zenon DEF TypeOK
  <2> QED BY <2>1, <2>2, <2>3, Zenon DEF Aside
<1> QED BY <1>2, <1>3, <1>4, <1>5, <1>6, <1>7, ZenonT(30) DEF Coordinate

(* Marks of roots. *)
LEMMA MarkStep ==
    ASSUME TypeOK, NEW r \in Roots, Change(r) \/ Remark(r) \/ StartupMark(r)
    PROVE  /\ TypeOK' /\ Aside /\ state'.reconcile = state.reconcile
           /\ starting \ {r} \subseteq starting'
<1>1. PICK changed \in BOOLEAN : Mark(r, changed)
  BY Zenon DEF Change, Remark, StartupMark
<1>2. starting' \in {starting, starting \ {r}}
  BY Zenon DEF Change, Remark, StartupMark
<1>3. /\ dirty' = dirty \cup {r}
      /\ captured' = captured \ {r}
      /\ state' = Schedule(state, r, changed)
      /\ UNCHANGED <<head, certified, guild, coordinator, job, loop, disturbances>>
  BY <1>1 DEF Mark
<1>4. state' \in Records /\ state'.inFlight = state.inFlight /\ state'.reconcile = state.reconcile
  BY <1>3, ScheduleTyped, Zenon DEF TypeOK
<1>5. TypeOK'
  BY <1>2, <1>3, <1>4, ZenonT(30) DEF TypeOK
<1> QED BY <1>2, <1>3, <1>4, <1>5, ZenonT(30) DEF Aside

(* Crashes at rest and within an operation; the watcher is to mark every   *)
(* root again.                                                             *)
LEMMA CrashStep ==
    ASSUME TypeOK,
           \/ Crash \/ CrashInAccept
           \/ \E r \in Roots : CrashInMark(r)
           \/ \E S \in SUBSET Roots : CrashInReconcile(S)
    PROVE  TypeOK' /\ Aside /\ starting' = Roots
<1>1. Restart
  BY Zenon DEF Crash, CrashInAccept, CrashInMark, CrashInReconcile
<1>2. /\ loop' \in Loops /\ loop'.at \notin Busy /\ starting' = Roots
      /\ disturbances' \in 0 .. MaxDisturbances
  BY <1>1, AtTyped, DisturbTyped, ZenonT(30) DEF Restart, TypeOK, Busy
<1>3. UNCHANGED <<guild, coordinator, job>>
  BY Zenon DEF Crash, CrashInAccept, CrashInMark, CrashInReconcile
<1>4. ASSUME dirty' \subseteq Roots, captured' \subseteq Roots, state' \in Records,
             head' \in [Roots -> {"none", "open", "committed"}],
             certified' \subseteq {r \in Roots : head'[r] = "open"}
      PROVE  TypeOK'
  BY <1>2, <1>3, <1>4, ZenonT(30) DEF TypeOK
<1>5. CASE Crash
  BY <1>2, <1>3, <1>4, <1>5, ZenonT(30) DEF Crash, TypeOK, Aside
<1>6. CASE CrashInAccept
  <2>1. /\ head' = [r \in Roots |-> IF r \in certified THEN "committed" ELSE head[r]]
        /\ certified' = {} /\ dirty' = dirty \ Cleared /\ UNCHANGED <<captured, state>>
    BY <1>6, Zenon DEF CrashInAccept
  <2>2. head' \in [Roots -> {"none", "open", "committed"}]
    BY <2>1, Zenon DEF TypeOK
  <2>3. TypeOK'
    BY <1>4, <2>1, <2>2, ZenonT(30) DEF TypeOK
  <2> QED BY <1>2, <1>3, <2>1, <2>3, ZenonT(30) DEF Aside
<1>7. ASSUME NEW r \in Roots, CrashInMark(r)
      PROVE  TypeOK' /\ Aside
  <2>1. dirty' = dirty \cup {r} /\ captured' = captured \ {r} /\ UNCHANGED <<head, certified, state>>
    BY <1>7, Zenon DEF CrashInMark
  <2>2. TypeOK'
    BY <1>4, <2>1, Zenon DEF TypeOK
  <2> QED BY <1>2, <1>3, <2>1, <2>2, ZenonT(30) DEF Aside
<1>8. ASSUME NEW S \in SUBSET Roots, CrashInReconcile(S)
      PROVE  TypeOK' /\ Aside
  <2> DEFINE w == Windowed(state)
             since == [r \in Roots |-> IF r \in S THEN Polled.since[r] ELSE w.since[r]]
             last == [r \in Roots |-> IF r \in S THEN Polled.last[r] ELSE w.last[r]]
  <2>1. /\ dirty' = dirty \cup S /\ captured' = captured \ S /\ UNCHANGED <<head, certified>>
        /\ state' = [w EXCEPT !.reconcile = 0, !.since = since, !.last = last]
    BY <1>8, Zenon DEF CrashInReconcile
  <2>2. w \in Records /\ w.inFlight = state.inFlight
    BY WindowedTyped, Zenon DEF TypeOK
  <2>3. Polled \in Records
    BY PolledTyped, Zenon DEF TypeOK
  <2> HIDE DEF w
  <2>4. since \in [Roots -> 0 .. Unscheduled] /\ last \in [Roots -> 0 .. Never]
    BY <2>2, <2>3, Zenon DEF Records
  <2> HIDE DEF since, last
  <2>5. state' \in Records /\ state'.inFlight = state.inFlight
    <3>1. 0 \in 0 .. FullReconcile
      BY Periods, SMTT(30)
    <3> QED BY <2>1, <2>2, <2>4, <3>1, ZenonT(30) DEF Records
  <2>6. TypeOK'
    BY <1>4, <2>1, <2>5, ZenonT(30) DEF TypeOK
  <2> QED BY <1>2, <1>3, <2>5, <2>6, ZenonT(30) DEF Aside
<1> QED BY <1>2, <1>5, <1>6, <1>7, <1>8, ZenonT(30)

(* A unit of time. *)
LEMMA TickStep ==
    ASSUME TypeOK, Tick
    PROVE  /\ TypeOK' /\ Aside /\ UNCHANGED starting
           /\ state'.reconcile = Min({state.reconcile + 1, FullReconcile})
<1> DEFINE since == Older(state.since, {r \in Roots : state.since[r] = Unscheduled})
           last == Older(state.last, {r \in Roots : state.last[r] = Never})
           retry == [r \in Roots |-> Less(state.retry[r])]
           wait == IF state.wait = Blocked THEN state.wait ELSE Less(state.wait)
           window == Min({state.window + 1, Day})
           reconcile == Min({state.reconcile + 1, FullReconcile})
<1>1. state' = [state EXCEPT !.since = since, !.last = last, !.retry = retry, !.wait = wait,
                             !.window = window, !.reconcile = reconcile]
  BY DEF Tick
<1>2. /\ loop' = IF loop.at = "sleep" THEN At("poll") ELSE loop
      /\ UNCHANGED <<dirty, captured, head, certified, guild, coordinator, job, starting, disturbances>>
  BY Zenon DEF Tick
<1>3. /\ state \in Records
      /\ state.since \in [Roots -> 0 .. Unscheduled] /\ state.last \in [Roots -> 0 .. Never]
      /\ state.retry \in [Roots -> 0 .. Max({Day, MinInterval})] /\ state.wait \in 0 .. Day \cup {Blocked}
      /\ state.window \in 0 .. Day /\ state.reconcile \in 0 .. FullReconcile
  BY Zenon DEF TypeOK, Records
<1>4. since \in [Roots -> 0 .. Unscheduled]
  <2>1. Unscheduled \in Nat /\ Unscheduled > Oldest + Cardinality(Roots)
    BY Periods
  <2> QED BY <1>3, <2>1, OlderTyped, ZenonT(30)
<1>5. last \in [Roots -> 0 .. Never]
  <2>1. Never \in Nat /\ Never > Oldest + Cardinality(Roots)
    BY Periods, SMTT(30)
  <2> QED BY <1>3, <2>1, OlderTyped, ZenonT(30)
<1>6. retry \in [Roots -> 0 .. Max({Day, MinInterval})]
  <2>1. \A t \in 0 .. Max({Day, MinInterval}) : Less(t) \in 0 .. Max({Day, MinInterval})
    BY Periods, SMTT(30) DEF Less
  <2> QED BY <1>3, <2>1, Zenon
<1>7. wait \in 0 .. Day \cup {Blocked}
  <2>1. \A t \in 0 .. Day : Less(t) \in 0 .. Day
    BY Periods, SMTT(30) DEF Less
  <2> QED BY <1>3, <2>1, Zenon
<1>8. window \in 0 .. Day /\ reconcile \in 0 .. FullReconcile
  <2>1. window = IF state.window + 1 <= Day THEN state.window + 1 ELSE Day
    BY <1>3, Periods, MinOfTwo, SMTT(30)
  <2>2. reconcile = IF state.reconcile + 1 <= FullReconcile THEN state.reconcile + 1 ELSE FullReconcile
    BY <1>3, Periods, MinOfTwo, SMTT(30)
  <2> HIDE DEF window, reconcile
  <2> QED BY <1>3, <2>1, <2>2, Periods, SMTT(30)
<1> HIDE DEF since, last, retry, wait, window, reconcile
<1>9. state' \in Records /\ state'.inFlight = state.inFlight /\ state'.reconcile = reconcile
  BY <1>1, <1>3, <1>4, <1>5, <1>6, <1>7, <1>8, ZenonT(30) DEF Records
<1>10. loop' \in Loops /\ (loop' = loop \/ loop'.at \notin Busy)
  BY <1>2, AtTyped, Zenon DEF TypeOK, Busy
<1>11. TypeOK'
  BY <1>2, <1>9, <1>10, ZenonT(30) DEF TypeOK
<1>12. Aside
  BY <1>2, <1>9, <1>10, Zenon DEF Aside
<1> QED BY <1>2, <1>9, <1>11, <1>12, ZenonT(30) DEF reconcile

-----------------------------------------------------------------------------
(* The invariants.                                                         *)

(* Every step of the automation keeps the types and the tracked backups. *)
LEMMA NextStep ==
    ASSUME TypeOK, Tracked, Next
    PROVE  TypeOK' /\ Tracked'
<1>1. ASSUME Aside PROVE Tracked'
  BY <1>1, TrackedKept, Zenon DEF Aside
<1>2. CASE Poll
  <2>1. /\ TypeOK' /\ state'.inFlight = state.inFlight
        /\ loop'.at \in {"sleep", "query", "prepare"}
        /\ loop'.at = "prepare" => loop'.root \in Roots /\ state.inFlight = NoRoot
        /\ UNCHANGED <<job, coordinator>>
    BY <1>2, PollStep, Zenon
  <2>2. Tracked'
    BY <2>1, Zenon DEF Tracked, InFlightKnown, Busy
  <2> QED BY <2>1, <2>2, Zenon
<1>3. CASE Submit
  BY <1>3, SubmitStep, Zenon
<1>4. CASE \/ \E r \in Roots : Coordinate(r)
           \/ AcceptCheckpoint \/ RemoveCoordinator \/ JoinGuild \/ ClearBlock
  BY <1>1, <1>4, GuildStep, Zenon
<1>5. CASE \E r \in Roots : Change(r) \/ Remark(r) \/ StartupMark(r)
  BY <1>1, <1>5, MarkStep, ZenonT(30)
<1>6. CASE \/ Crash \/ CrashInAccept
           \/ \E r \in Roots : CrashInMark(r)
           \/ \E S \in SUBSET Roots : CrashInReconcile(S)
  BY <1>1, <1>6, CrashStep, ZenonT(30)
<1>7. CASE Tick
  BY <1>1, <1>7, TickStep, Zenon
<1>8. Noisy \subseteq Roots
  BY AutomationAssumption, Zenon
<1> QED BY <1>2, <1>3, <1>4, <1>5, <1>6, <1>7, <1>8, ZenonT(30) DEF Next, Unmarking

(* The first state. *)
LEMMA InitStep == Init => TypeOK /\ Tracked
<1> SUFFICES ASSUME Init PROVE TypeOK /\ Tracked
  BY Zenon
<1>1. loop = At("poll") /\ loop \in Loops /\ loop.at = "poll"
  BY AtTyped, Zenon DEF Init
<1>2. state \in Records /\ state.inFlight = NoRoot
  BY Periods, SMTT(30) DEF Init, Records
<1>3. 1 \in Coordinators /\ 0 \in 0 .. MaxDisturbances
  BY AutomationAssumption, SMTT(30) DEF Coordinators
<1>4. TypeOK
  BY <1>1, <1>2, <1>3, Zenon DEF Init, TypeOK
<1>5. Tracked
  BY <1>1, <1>2, Zenon DEF Tracked, InFlightKnown, Busy
<1> QED BY <1>4, <1>5, Zenon

(* So does a step of something else. *)
LEMMA StutterStep ==
    ASSUME TypeOK, Tracked, UNCHANGED vars
    PROVE  TypeOK' /\ Tracked'
<1>1. TypeOK'
  BY DEF vars, TypeOK
<1>2. Aside
  BY DEF vars, Aside
<1> QED BY <1>1, <1>2, TrackedKept, Zenon DEF Aside

(* The durable record of the automation keeps its shape: ages, retries and *)
(* budgets stay within what the policy allows, for any policy.             *)
THEOREM TypeCorrect == Spec => []TypeOK
<1>1. TypeOK /\ Tracked /\ [Next]_vars => (TypeOK /\ Tracked)'
  BY NextStep, StutterStep, Zenon
<1> QED BY <1>1, InitStep, PTL DEF Spec

(* The loop never waits for a backup no coordinator has accepted, whatever *)
(* is lost, restarted or handed over on the way.                           *)
THEOREM InFlightAccepted == Spec => []InFlightKnown
<1>1. TypeOK /\ Tracked /\ [Next]_vars => (TypeOK /\ Tracked)'
  BY NextStep, StutterStep, Zenon
<1>2. Tracked => InFlightKnown
  BY DEF Tracked
<1> QED BY <1>1, <1>2, InitStep, PTL DEF Spec

-----------------------------------------------------------------------------
(* Full reconciliations.                                                   *)

(* The ages of the last marks, with ReconcileMarks. *)
Marks == marked \in [Roots -> 0 .. FullReconcile] /\ ReconcileMarks

(* A step that marks the roots R, and leaves every other root as it was or *)
(* to the restarted watcher.                                               *)
LEMMA MarksKept ==
    ASSUME Marks, FullReconcile \in Nat, state'.reconcile \in Nat, NEW R \in SUBSET Roots,
           marked' = [r \in Roots |-> IF r \in R THEN 0 ELSE marked[r]],
           \A r \in Roots \ R : r \in starting' \/ (state'.reconcile = state.reconcile /\ r \notin starting)
    PROVE  Marks'
<1>2. marked' \in [Roots -> 0 .. FullReconcile]
  BY DEF Marks
<1>3. ASSUME NEW r \in Roots PROVE marked'[r] <= state'.reconcile \/ r \in starting'
  <2>1. CASE r \in R
    BY <2>1
  <2>2. CASE r \notin R
    <3>1. marked'[r] = marked[r] /\ (marked[r] <= state.reconcile \/ r \in starting)
      BY <2>2, Zenon DEF Marks, ReconcileMarks
    <3> QED BY <2>2, <3>1, Zenon
  <2> QED BY <2>1, <2>2, Zenon
<1> QED BY <1>2, <1>3, Zenon DEF Marks, ReconcileMarks

(* A step that marks no root and keeps the time of the reconciliation, or *)
(* one after which the watcher is about to mark every root.               *)
LEMMA NothingMarked ==
    ASSUME Marks, FullReconcile \in Nat, state'.reconcile \in Nat,
           marked' = [r \in Roots |-> IF r \in {} THEN 0 ELSE marked[r]],
           \/ starting' = Roots
           \/ state'.reconcile = state.reconcile /\ starting' = starting
    PROVE  Marks'
<1>1. \A r \in Roots \ {} : r \in starting' \/ (state'.reconcile = state.reconcile /\ r \notin starting)
  OBVIOUS
<1>2. {} \in SUBSET Roots
  OBVIOUS
<1> QED BY <1>1, <1>2, MarksKept, ZenonT(30)

(* Every step keeps the types, the tracked backups and the marks. *)
LEMMA MarksStep ==
    ASSUME TypeOK, Tracked, Marks, NextHistory
    PROVE  TypeOK' /\ Tracked' /\ Marks'
<1>1. TypeOK' /\ Tracked'
  <2>1. Next
    BY Zenon DEF NextHistory, Next
  <2> QED BY <2>1, NextStep, Zenon
<1> SUFFICES Marks'
  BY <1>1, Zenon
<1>2. marked \in [Roots -> 0 .. FullReconcile] /\ state.reconcile \in 0 .. FullReconcile /\ FullReconcile \in Nat \ {0}
  BY Periods, ZenonT(30) DEF Marks, TypeOK, Records
<1>4. state'.reconcile \in Nat
  BY <1>1, Periods, SMTT(30) DEF TypeOK, Records
<1>5. CASE Poll /\ Record(IF ReconciliationDue THEN Roots ELSE {})
  <2>1. /\ state'.reconcile = IF ReconciliationDue THEN 0 ELSE state.reconcile
        /\ starting' = starting
    BY <1>5, PollStep, Zenon
  <2>2. CASE ReconciliationDue
    <3>1. marked' = [r \in Roots |-> IF r \in Roots THEN 0 ELSE marked[r]]
      BY <1>5, <2>2, Zenon DEF Record
    <3>2. \A r \in Roots \ Roots : r \in starting' \/ (state'.reconcile = state.reconcile /\ r \notin starting)
      OBVIOUS
    <3>3. Roots \in SUBSET Roots
      OBVIOUS
    <3> QED BY <1>2, <1>4, <3>1, <3>2, <3>3, MarksKept, ZenonT(30)
  <2>3. CASE ~ReconciliationDue
    <3>1. marked' = [r \in Roots |-> IF r \in {} THEN 0 ELSE marked[r]]
      BY <1>5, <2>3, Zenon DEF Record
    <3> QED BY <1>2, <1>4, <2>1, <2>3, <3>1, NothingMarked, ZenonT(30)
  <2> QED BY <2>2, <2>3, Zenon
<1>6. CASE Unmarking /\ Record({})
  <2>0. marked' = [r \in Roots |-> IF r \in {} THEN 0 ELSE marked[r]]
    BY <1>6 DEF Record
  <2>1. CASE Crash \/ CrashInAccept
    <3>1. starting' = Roots
      BY <2>1, CrashStep, Zenon
    <3> QED BY <1>2, <1>4, <2>0, <3>1, NothingMarked, ZenonT(30)
  <2>2. CASE Submit
    <3>1. state'.reconcile = state.reconcile /\ starting' = starting
      BY <2>2, SubmitStep, ZenonT(30)
    <3> QED BY <1>2, <1>4, <2>0, <3>1, NothingMarked, ZenonT(30)
  <2>3. CASE \/ \E r \in Roots : Coordinate(r)
             \/ AcceptCheckpoint \/ RemoveCoordinator \/ JoinGuild \/ ClearBlock
    <3>1. state'.reconcile = state.reconcile /\ starting' = starting
      BY <2>3, GuildStep, Zenon
    <3> QED BY <1>2, <1>4, <2>0, <3>1, NothingMarked, Zenon
  <2> QED BY <1>6, <2>1, <2>2, <2>3, ZenonT(30) DEF Unmarking
<1>7. ASSUME NEW r \in Roots, Change(r) \/ Remark(r) \/ StartupMark(r), Record({r})
      PROVE  Marks'
  <2>1. state'.reconcile = state.reconcile /\ starting \ {r} \subseteq starting'
    BY <1>7, MarkStep, Zenon
  <2>2. marked' = [q \in Roots |-> IF q \in {r} THEN 0 ELSE marked[q]]
    BY <1>7 DEF Record
  <2>3. {r} \in SUBSET Roots
    BY <1>7
  <2>4. \A q \in Roots \ {r} : q \in starting' \/ (state'.reconcile = state.reconcile /\ q \notin starting)
    BY <2>1, Zenon
  <2> QED BY <1>2, <1>4, <2>2, <2>3, <2>4, MarksKept, ZenonT(30)
<1>8. ASSUME NEW R \in SUBSET Roots, Record(R),
             (\E r \in Roots : CrashInMark(r)) \/ (\E S \in SUBSET Roots : CrashInReconcile(S))
      PROVE  Marks'
  <2>1. starting' = Roots
    BY <1>8, CrashStep, Zenon
  <2>2. marked' = [q \in Roots |-> IF q \in R THEN 0 ELSE marked[q]]
    BY <1>8, Zenon DEF Record
  <2> QED BY <1>2, <1>4, <1>8, <2>1, <2>2, MarksKept, ZenonT(30)
<1>9. CASE Tick /\ RecordTick
  <2>1. state'.reconcile = Min({state.reconcile + 1, FullReconcile}) /\ starting' = starting
    BY <1>9, TickStep, Zenon
  <2>2. marked' = [r \in Roots |-> Min({marked[r] + 1, FullReconcile})]
    BY <1>9, Zenon DEF RecordTick
  <2>3. \A n \in 0 .. FullReconcile :
          Min({n + 1, FullReconcile}) = IF n + 1 <= FullReconcile THEN n + 1 ELSE FullReconcile
    BY <1>2, MinOfTwo, SMTT(30)
  <2>4. marked' \in [Roots -> 0 .. FullReconcile]
    BY <1>2, <2>2, <2>3, SMTT(30)
  <2>5. ASSUME NEW r \in Roots PROVE marked'[r] <= state'.reconcile \/ r \in starting'
    <3>1. marked[r] \in 0 .. FullReconcile
      BY <1>2
    <3>2. marked'[r] = IF marked[r] + 1 <= FullReconcile THEN marked[r] + 1 ELSE FullReconcile
      BY <2>2, <2>3, <3>1, Zenon
    <3>3. state'.reconcile = IF state.reconcile + 1 <= FullReconcile THEN state.reconcile + 1 ELSE FullReconcile
      BY <1>2, <2>1, <2>3, Zenon
    <3>4. marked[r] <= state.reconcile \/ r \in starting
      BY DEF Marks, ReconcileMarks
    <3>5. starting' = starting
      BY <2>1, Zenon
    <3>6. state.reconcile \in 0 .. FullReconcile
      BY <1>2, Zenon
    <3>7. marked[r] <= state.reconcile => marked'[r] <= state'.reconcile
      <4> DEFINE m == marked[r]
                 c == state.reconcile
                 mm == marked'[r]
                 cc == state'.reconcile
      <4>1. /\ m \in Nat /\ c \in Nat /\ FullReconcile \in Nat
            /\ m <= FullReconcile /\ c <= FullReconcile
        BY <1>2, <3>1, <3>6, SMTT(30)
      <4>2. /\ mm = IF m + 1 <= FullReconcile THEN m + 1 ELSE FullReconcile
            /\ cc = IF c + 1 <= FullReconcile THEN c + 1 ELSE FullReconcile
        BY <3>2, <3>3, Zenon
      <4> HIDE DEF m, c, mm, cc
      <4>3. m <= c => mm <= cc
        BY <4>1, <4>2, SMTT(30)
      <4> QED BY <4>3 DEF m, c, mm, cc
    <3> QED BY <3>4, <3>5, <3>7, Zenon
  <2> QED BY <2>4, <2>5, Zenon DEF Marks, ReconcileMarks
<1>10. Noisy \subseteq Roots
  BY AutomationAssumption
<1> QED BY <1>1, <1>5, <1>6, <1>7, <1>8, <1>9, <1>10, ZenonT(30) DEF NextHistory

(* No root misses a full reconciliation: one that was not marked since the *)
(* time poll_automatic_backup stored is one the restarted watcher is about *)
(* to mark, wherever the daemon crashed.                                   *)
THEOREM ReconciliationReachesAll == SpecHistory => []ReconcileMarks
<1>1. InitHistory => TypeOK /\ Tracked /\ Marks
  <2> SUFFICES ASSUME InitHistory PROVE TypeOK /\ Tracked /\ Marks
    OBVIOUS
  <2>1. TypeOK /\ Tracked
    BY InitStep, Zenon DEF InitHistory
  <2>2. marked = [r \in Roots |-> 0] /\ state.reconcile = FullReconcile /\ FullReconcile \in Nat
    BY Periods DEF InitHistory, Init
  <2>3. Marks
    BY <2>2 DEF Marks, ReconcileMarks
  <2> QED BY <2>1, <2>3, Zenon
<1>2. TypeOK /\ Tracked /\ Marks /\ [NextHistory]_historyVars => (TypeOK /\ Tracked /\ Marks)'
  <2> SUFFICES ASSUME TypeOK, Tracked, Marks, [NextHistory]_historyVars
               PROVE  TypeOK' /\ Tracked' /\ Marks'
    OBVIOUS
  <2>1. CASE NextHistory
    BY <2>1, MarksStep, Zenon
  <2>2. CASE UNCHANGED historyVars
    <3>1. UNCHANGED vars /\ UNCHANGED <<state, marked, starting>>
      BY <2>2 DEF historyVars, vars
    <3>2. Marks'
      BY <3>1 DEF Marks, ReconcileMarks
    <3> QED BY <3>1, <3>2, StutterStep, Zenon
  <2> QED BY <2>1, <2>2, Zenon
<1>3. Marks => ReconcileMarks
  BY DEF Marks
<1> QED BY <1>1, <1>2, <1>3, PTL DEF SpecHistory

-----------------------------------------------------------------------------
(* The starts of the last day.                                             *)

(* What a start is recorded with. *)
StartRecords == [root : Roots, age : Nat, total : Nat, cleaned : BOOLEAN]

(* The bytes of the first k backups of q. *)
Upto(q, k) == IF k = 0 THEN 0 ELSE q[k].total

(* The record q of the starts of the last day. *)
Recorded(q) ==
    /\ q \in Seq(StartRecords)
    /\ \A i \in 1 .. Len(q) : q[i].age < Day
    /\ \A i, j \in 0 .. Len(q) : i <= j => Upto(q, i) <= Upto(q, j)

(* The inductive invariant behind DailyLimits: the starts of the last day  *)
(* are those of the current window, which the counters of s cover, after k *)
(* starts of one earlier window, all at least as old as the current one.   *)
Split(s, q, k) ==
    /\ k <= CountLimit /\ Len(q) <= k + s.count
    /\ Upto(q, k) <= ByteLimit /\ Upto(q, Len(q)) <= Upto(q, k) + s.bytes
    /\ \A i \in 1 .. k : q[i].age >= s.window

Budgeted(s, q) == \E k \in 0 .. Len(q) : Split(s, q, k)

(* The inductive invariant behind AttemptsSpaced: a root that stayed dirty *)
(* keeps its schedule, and the last attempt in it is not older than any of *)
(* the starts, unless that one is past the minimum interval anyway.        *)
Spaced(q) ==
    \A i, j \in 1 .. Len(q) :
        i < j /\ q[i].root = q[j].root => q[i].cleaned \/ q[i].age >= q[j].age + MinInterval

Paced(s, q) ==
    \A i \in 1 .. Len(q) :
        \/ q[i].cleaned
        \/ /\ s.since[q[i].root] # Unscheduled
           /\ q[i].age >= MinInterval \/ s.last[q[i].root] <= q[i].age

Recall(s, q) == Recorded(q) /\ Budgeted(s, q) /\ Spaced(q) /\ Paced(s, q)

(* The record after a step that leaves the roots D dirty. *)
Obs(q, D) == [i \in DOMAIN q |-> [q[i] EXCEPT !.cleaned = @ \/ q[i].root \notin D]]

(* The counters of a window that goes on, or starts over after a day. *)
SameWindow(s, t) ==
    \/ t.window = s.window /\ t.count = s.count /\ t.bytes = s.bytes
    \/ s.window >= Day /\ t.window = 0 /\ t.count = 0 /\ t.bytes = 0

(* The roots D, if they had a schedule, keep it and its last attempt. *)
KeepsSchedules(s, t, D) ==
    \A r \in D : s.since[r] # Unscheduled => t.since[r] # Unscheduled /\ t.last[r] = s.last[r]

(* The numbers of a record. *)
LEMMA RecordFields ==
    ASSUME NEW s \in Records
    PROVE  /\ s.window \in Nat /\ s.window <= Day /\ s.count \in Nat /\ s.count <= CountLimit
           /\ s.bytes \in Nat /\ s.bytes <= ByteLimit
           /\ \A r \in Roots : s.last[r] \in Nat
<1>1. s.window \in 0 .. Day /\ s.count \in 0 .. CountLimit /\ s.bytes \in 0 .. ByteLimit /\ s.last \in [Roots -> 0 .. Never]
  BY Zenon DEF Records
<1> QED BY <1>1, Periods, SMTT(30)

(* Telling starts apart by their roots changes nothing else of them. *)
LEMMA ObsFields ==
    ASSUME NEW q \in Seq(StartRecords), NEW D
    PROVE  /\ Obs(q, D) \in Seq(StartRecords) /\ Len(Obs(q, D)) = Len(q)
           /\ \A i \in 1 .. Len(q) :
                /\ Obs(q, D)[i].root = q[i].root /\ Obs(q, D)[i].age = q[i].age
                /\ Obs(q, D)[i].total = q[i].total
                /\ q[i].cleaned => Obs(q, D)[i].cleaned
                /\ ~Obs(q, D)[i].cleaned => q[i].root \in D
<1>1. DOMAIN q = 1 .. Len(q) /\ Len(q) \in Nat /\ \A i \in 1 .. Len(q) : q[i] \in StartRecords
  OBVIOUS
<1>2. ASSUME NEW i \in 1 .. Len(q)
      PROVE  /\ Obs(q, D)[i] \in StartRecords
             /\ Obs(q, D)[i].root = q[i].root /\ Obs(q, D)[i].age = q[i].age
             /\ Obs(q, D)[i].total = q[i].total
             /\ Obs(q, D)[i].cleaned = (q[i].cleaned \/ q[i].root \notin D)
  <2>1. Obs(q, D)[i] = [q[i] EXCEPT !.cleaned = q[i].cleaned \/ q[i].root \notin D]
    BY <1>1, Zenon DEF Obs
  <2>2. q[i] \in StartRecords /\ (q[i].cleaned \/ q[i].root \notin D) \in BOOLEAN
    BY <1>1, Zenon
  <2> QED BY <2>1, <2>2, Zenon DEF StartRecords
<1>3. Obs(q, D) = [i \in 1 .. Len(q) |-> Obs(q, D)[i]]
  BY <1>1, Zenon DEF Obs
<1>4. Obs(q, D) \in [1 .. Len(q) -> StartRecords]
  BY <1>2, <1>3, Zenon
<1>5. Obs(q, D) \in Seq(StartRecords) /\ Len(Obs(q, D)) = Len(q)
  BY <1>1, <1>4
<1> QED BY <1>2, <1>5, Zenon

(* A step that starts nothing. *)
LEMMA RecallObserved ==
    ASSUME NEW s \in Records, NEW t \in Records, NEW q, NEW D, Recall(s, q),
           SameWindow(s, t), KeepsSchedules(s, t, D)
    PROVE  Recall(t, Obs(q, D))
<1> DEFINE o == Obs(q, D)
<1>1. q \in Seq(StartRecords) /\ Len(q) \in Nat /\ \A i \in 1 .. Len(q) : q[i] \in StartRecords
  BY DEF Recall, Recorded
<1>2. /\ o \in Seq(StartRecords) /\ Len(o) = Len(q)
      /\ \A i \in 1 .. Len(q) :
            /\ o[i].root = q[i].root /\ o[i].age = q[i].age /\ o[i].total = q[i].total
            /\ q[i].cleaned => o[i].cleaned
            /\ ~o[i].cleaned => q[i].root \in D
  BY <1>1, ObsFields
<1> HIDE DEF o
<1>3. \A k \in 0 .. Len(q) : Upto(o, k) = Upto(q, k)
  BY <1>1, <1>2 DEF Upto
<1>4. Recorded(o)
  <2>1. \A i \in 1 .. Len(o) : o[i].age < Day
    BY <1>2 DEF Recall, Recorded
  <2>2. \A i, j \in 0 .. Len(o) : i <= j => Upto(o, i) <= Upto(o, j)
    BY <1>2, <1>3 DEF Recall, Recorded
  <2> QED BY <1>2, <2>1, <2>2, Zenon DEF Recorded
<1>5. \A i \in 1 .. Len(q) : q[i].age \in Nat /\ q[i].age < Day /\ q[i].total \in Nat /\ q[i].root \in Roots
  BY <1>1 DEF Recall, Recorded, StartRecords
<1>6. PICK k \in 0 .. Len(q) : Split(s, q, k)
  BY DEF Recall, Budgeted
<1>7. Budgeted(t, o)
  <2>1. CASE t.window = s.window /\ t.count = s.count /\ t.bytes = s.bytes
    <3>1. Split(t, o, k)
      <4>1. \A i \in 1 .. k : i \in 1 .. Len(q)
        BY <1>1
      <4>2. \A i \in 1 .. k : o[i].age >= t.window
        BY <1>2, <1>6, <2>1, <4>1, Zenon DEF Split
      <4>3. Upto(o, k) = Upto(q, k) /\ Upto(o, Len(o)) = Upto(q, Len(q))
        BY <1>1, <1>2, <1>3
      <4> QED BY <1>2, <1>6, <2>1, <4>2, <4>3, Zenon DEF Split
    <3> QED BY <1>2, <3>1, Zenon DEF Budgeted
  <2>2. CASE s.window >= Day /\ t.window = 0 /\ t.count = 0 /\ t.bytes = 0
    <3>1. k = 0
      <4> SUFFICES ASSUME k # 0 PROVE FALSE
        OBVIOUS
      <4>1. 1 \in 1 .. k /\ 1 \in 1 .. Len(q)
        BY <1>1
      <4>2. q[1].age >= s.window /\ q[1].age < Day /\ q[1].age \in Nat
        BY <1>5, <1>6, <4>1 DEF Split
      <4>3. s.window \in Nat /\ Day \in Nat
        BY RecordFields, Periods, Zenon
      <4> QED BY <2>2, <4>2, <4>3
    <3>2. Len(q) <= CountLimit /\ Upto(q, Len(q)) <= ByteLimit /\ Upto(q, Len(q)) \in Nat
      <4>1. Len(q) <= 0 + s.count /\ Upto(q, Len(q)) <= 0 + s.bytes
        BY <1>6, <3>1 DEF Split, Upto
      <4>2. Upto(q, Len(q)) \in Nat
        BY <1>1, <1>5 DEF Upto
      <4>3. /\ s.count \in Nat /\ s.count <= CountLimit /\ s.bytes \in Nat /\ s.bytes <= ByteLimit
            /\ CountLimit \in Nat /\ ByteLimit \in Nat
        BY RecordFields, Periods, Zenon
      <4> QED BY <1>1, <4>1, <4>2, <4>3
    <3>3. Split(t, o, Len(o))
      <4>1. \A i \in 1 .. Len(o) : o[i].age >= t.window
        BY <1>2, <1>5, <2>2
      <4>2. Upto(o, Len(o)) = Upto(q, Len(q))
        BY <1>1, <1>2, <1>3
      <4>3. Upto(o, Len(o)) <= Upto(o, Len(o)) + t.bytes /\ Len(o) <= Len(o) + t.count
        BY <1>1, <1>2, <2>2, <3>2, <4>2, SMTT(30)
      <4> QED BY <1>2, <3>2, <4>1, <4>2, <4>3, Zenon DEF Split
    <3>4. Len(o) \in 0 .. Len(o)
      BY <1>1, <1>2
    <3> QED BY <3>3, <3>4, Zenon DEF Budgeted
  <2> QED BY <2>1, <2>2, Zenon DEF SameWindow
<1>8. Spaced(o)
  BY <1>2, Zenon DEF Recall, Spaced
<1>9. Paced(t, o)
  <2> SUFFICES ASSUME NEW i \in 1 .. Len(o), ~o[i].cleaned
               PROVE  /\ t.since[o[i].root] # Unscheduled
                      /\ o[i].age >= MinInterval \/ t.last[o[i].root] <= o[i].age
    BY Zenon DEF Paced
  <2>1. ~q[i].cleaned /\ q[i].root \in D /\ o[i].root = q[i].root /\ o[i].age = q[i].age
    BY <1>2, Zenon
  <2>2. s.since[q[i].root] # Unscheduled /\ (q[i].age >= MinInterval \/ s.last[q[i].root] <= q[i].age)
    BY <1>2, <2>1, Zenon DEF Recall, Paced
  <2> QED BY <2>1, <2>2, Zenon DEF KeepsSchedules
<1> QED BY <1>4, <1>7, <1>8, <1>9, Zenon DEF Recall, o

(* Sums of natural numbers. *)
LEMMA Sums ==
    /\ \A n \in Nat : \A i, j \in 1 .. n + 1 : i < j => i \in 1 .. n /\ (j \in 1 .. n \/ j = n + 1)
    /\ \A a, b \in Nat : ~(a + 1 >= b) => a + 1 < b
    /\ \A a, b, c, x, limit \in Nat :
          /\ b <= a /\ a <= limit => a - b <= limit
          /\ c <= a + x => c - b <= a - b + x
          /\ a <= b /\ c <= a + x => c - b <= 0 + x
    /\ \A a, l, m \in Nat : a >= m \/ l <= a => a + 1 >= m \/ (l + 1 <= a + 1 /\ l < m)
<1>1. \A n \in Nat : \A i, j \in 1 .. n + 1 : i < j => i \in 1 .. n /\ (j \in 1 .. n \/ j = n + 1)
  OBVIOUS
<1>2. \A a, b \in Nat : ~(a + 1 >= b) => a + 1 < b
  OBVIOUS
<1>3. \A a, b, c, x, limit \in Nat :
          /\ b <= a /\ a <= limit => a - b <= limit
          /\ c <= a + x => c - b <= a - b + x
          /\ a <= b /\ c <= a + x => c - b <= 0 + x
  OBVIOUS
<1>4. \A a, l, m \in Nat : a >= m \/ l <= a => a + 1 >= m \/ (l + 1 <= a + 1 /\ l < m)
  OBVIOUS
<1> QED BY <1>1, <1>2, <1>3, <1>4, Zenon

(* A poll that starts the root r, with size bytes. *)
LEMMA RecallStarted ==
    ASSUME NEW t \in Records, NEW u \in Records, NEW q, Recall(t, q),
           NEW r \in Roots, NEW size \in Nat,
           t.since[r] # Unscheduled, t.last[r] >= MinInterval,
           u.window = t.window, u.count = t.count + 1, u.bytes = t.bytes + size,
           u.since = t.since, u.last = [t.last EXCEPT ![r] = 0]
    PROVE  Recall(u, Append(q, [root |-> r, age |-> 0, cleaned |-> FALSE, total |-> Upto(q, Len(q)) + size]))
<1> DEFINE n == Len(q)
           new == [root |-> r, age |-> 0, cleaned |-> FALSE, total |-> Upto(q, n) + size]
           p == Append(q, new)
<1>1. q \in Seq(StartRecords) /\ n \in Nat /\ \A i \in 1 .. n : q[i] \in StartRecords
  BY DEF Recall, Recorded
<1>2. \A i \in 1 .. n : q[i].age \in Nat /\ q[i].age < Day /\ q[i].total \in Nat /\ q[i].root \in Roots
  BY <1>1 DEF Recall, Recorded, StartRecords
<1>3. \A k \in 0 .. n : Upto(q, k) \in Nat
  BY <1>1, <1>2 DEF Upto
<1>4. new \in StartRecords
  BY <1>1, <1>3 DEF StartRecords
<1>5. new.root = r /\ new.age = 0 /\ ~new.cleaned /\ new.total = Upto(q, n) + size
  OBVIOUS
<1>6. p \in Seq(StartRecords) /\ Len(p) = n + 1 /\ p[n + 1] = new /\ \A i \in 1 .. n : p[i] = q[i]
  <2> HIDE DEF new
  <2> QED BY <1>1, <1>4, AppendProperties
<1> HIDE DEF new, p
<1>7. Upto(p, n + 1) = Upto(q, n) + size /\ \A k \in 0 .. n : Upto(p, k) = Upto(q, k)
  <2>1. n + 1 # 0
    BY <1>1
  <2>2. \A k \in 0 .. n : k # 0 => k \in 1 .. n
    BY <1>1
  <2> QED BY <1>5, <1>6, <2>1, <2>2, Zenon DEF Upto
<1>8. \A i \in 1 .. n + 1 : i \in 1 .. n \/ i = n + 1
  BY <1>1
<1>9. Recorded(p)
  <2>1. \A i \in 1 .. Len(p) : p[i].age < Day
    <3>1. new.age < Day
      BY <1>5, Periods
    <3> QED BY <1>2, <1>6, <1>8, <3>1, Zenon
  <2>2. ASSUME NEW i \in 0 .. Len(p), NEW j \in 0 .. Len(p), i <= j
        PROVE  Upto(p, i) <= Upto(p, j)
    <3>1. CASE j \in 0 .. n
      <4>1. i \in 0 .. n
        BY <1>1, <2>2, <3>1
      <4>2. Upto(q, i) <= Upto(q, j)
        BY <2>2, <3>1, <4>1, Zenon DEF Recall, Recorded
      <4> QED BY <1>7, <3>1, <4>1, <4>2, Zenon
    <3>2. CASE j = n + 1 /\ i \in 0 .. n
      <4>1. n \in 0 .. n /\ i <= n
        BY <1>1, <3>2
      <4>2. Upto(q, i) <= Upto(q, n)
        BY <3>2, <4>1, Zenon DEF Recall, Recorded
      <4>3. Upto(q, i) \in Nat /\ Upto(q, n) \in Nat /\ Upto(p, i) = Upto(q, i) /\ Upto(p, j) = Upto(q, n) + size
        BY <1>3, <1>7, <3>2, <4>1, Zenon
      <4> QED BY <4>2, <4>3
    <3>3. CASE j = n + 1 /\ i = n + 1
      <4>1. Upto(p, i) \in Nat
        BY <1>1, <1>3, <1>7, <3>3
      <4> QED BY <3>3, <4>1
    <3> QED BY <1>1, <1>6, <2>2, <3>1, <3>2, <3>3
  <2> QED BY <1>6, <2>1, <2>2, Zenon DEF Recorded
<1>10. Budgeted(u, p)
  <2>1. PICK k \in 0 .. n : Split(t, q, k)
    BY Zenon DEF Recall, Budgeted
  <2>2. k \in 0 .. n + 1 /\ \A i \in 1 .. k : i \in 1 .. n
    BY <1>1
  <2>3. \A i \in 1 .. k : p[i].age >= u.window
    BY <1>6, <2>1, <2>2, Zenon DEF Split
  <2>4. Upto(p, k) = Upto(q, k) /\ Upto(q, k) \in Nat /\ Upto(q, n) \in Nat /\ Upto(p, n + 1) = Upto(q, n) + size
    BY <1>1, <1>3, <1>7
  <2>5. n <= k + t.count /\ Upto(q, n) <= Upto(q, k) + t.bytes /\ t.count \in Nat /\ t.bytes \in Nat
    BY <2>1, RecordFields, Zenon DEF Split
  <2>6. n + 1 <= k + u.count
    BY <1>1, <2>5
  <2>7. Upto(p, n + 1) <= Upto(p, k) + u.bytes
    BY <2>4, <2>5
  <2>8. Split(u, p, k)
    BY <1>6, <2>1, <2>3, <2>4, <2>6, <2>7, Zenon DEF Split
  <2> QED BY <1>6, <2>2, <2>8, Zenon DEF Budgeted
<1>11. \A i \in 1 .. n : q[i].root = r /\ ~q[i].cleaned => q[i].age >= MinInterval
  <2> SUFFICES ASSUME NEW i \in 1 .. n, q[i].root = r, ~q[i].cleaned PROVE q[i].age >= MinInterval
    BY Zenon
  <2>1. q[i].age >= MinInterval \/ t.last[r] <= q[i].age
    BY Zenon DEF Recall, Paced
  <2>2. t.last[r] \in Nat /\ MinInterval \in Nat /\ q[i].age \in Nat
    BY <1>2, RecordFields, Periods, ZenonT(30)
  <2> QED BY <2>1, <2>2
<1>12. Spaced(p)
  <2> SUFFICES ASSUME NEW i \in 1 .. Len(p), NEW j \in 1 .. Len(p), i < j, p[i].root = p[j].root, ~p[i].cleaned
               PROVE  p[i].age >= p[j].age + MinInterval
    BY Zenon DEF Spaced
  <2>1. i \in 1 .. n /\ (j \in 1 .. n \/ j = n + 1)
    BY <1>1, <1>6, Sums, Zenon
  <2>2. CASE j \in 1 .. n
    BY <1>6, <2>1, <2>2, Zenon DEF Recall, Spaced
  <2>3. CASE j = n + 1
    <3>1. q[i].root = r /\ ~q[i].cleaned /\ p[i].age = q[i].age /\ p[j].age = 0
      BY <1>5, <1>6, <2>1, <2>3, Zenon
    <3>2. q[i].age >= MinInterval
      BY <1>11, <2>1, <3>1, Zenon
    <3> QED BY <3>1, <3>2, Periods
  <2> QED BY <2>1, <2>2, <2>3, Zenon
<1>13. Paced(u, p)
  <2>0. t.last \in [Roots -> 0 .. Never]
    BY DEF Records
  <2>1. u.last[r] = 0 /\ \A x \in Roots : x # r => u.last[x] = t.last[x]
    BY <2>0, Zenon
  <2> SUFFICES ASSUME NEW i \in 1 .. Len(p), ~p[i].cleaned
               PROVE  /\ u.since[p[i].root] # Unscheduled
                      /\ p[i].age >= MinInterval \/ u.last[p[i].root] <= p[i].age
    BY Zenon DEF Paced
  <2>2. CASE i = n + 1
    <3>1. p[i].root = r /\ p[i].age = 0 /\ u.last[r] = 0 /\ 0 <= 0
      BY <1>5, <1>6, <2>1, <2>2
    <3> QED BY <3>1, Zenon
  <2>3. CASE i \in 1 .. n
    <3>1. p[i] = q[i] /\ q[i].root \in Roots /\ q[i].age \in Nat
      BY <1>2, <1>6, <2>3, Zenon
    <3>2. t.since[q[i].root] # Unscheduled /\ (q[i].age >= MinInterval \/ t.last[q[i].root] <= q[i].age)
      BY <2>3, <3>1, Zenon DEF Recall, Paced
    <3>3. CASE q[i].root = r
      BY <1>11, <2>3, <3>1, <3>2, <3>3, Zenon
    <3>4. CASE q[i].root # r
      BY <2>1, <3>1, <3>2, <3>4, Zenon
    <3> QED BY <3>3, <3>4, Zenon
  <2> QED BY <1>6, <1>8, <2>2, <2>3, Zenon
<1> QED BY <1>9, <1>10, <1>12, <1>13, Zenon DEF Recall, p, new

(* A unit of time, after which the first e starts are a day old. *)
LEMMA RecallAged ==
    ASSUME NEW s \in Records, NEW t \in Records, NEW q, Recall(s, q),
           t.window = Min({s.window + 1, Day}), t.count = s.count, t.bytes = s.bytes,
           \A r \in Roots : s.since[r] # Unscheduled => t.since[r] # Unscheduled,
           \A r \in Roots : s.last[r] < MinInterval => t.last[r] = s.last[r] + 1,
           NEW e \in 0 .. Len(q), \A i \in 1 .. Len(q) : q[i].age + 1 >= Day => i <= e
    PROVE  Recall(t, [i \in 1 .. Len(q) - e |->
                         [q[i + e] EXCEPT !.age = @ + 1, !.total = @ - Upto(q, e)]])
<1> DEFINE n == Len(q)
           p == [i \in 1 .. n - e |-> [q[i + e] EXCEPT !.age = @ + 1, !.total = @ - Upto(q, e)]]
<1>1. q \in Seq(StartRecords) /\ n \in Nat /\ \A i \in 1 .. n : q[i] \in StartRecords
  BY DEF Recall, Recorded
<1>2. \A i \in 1 .. n : q[i].age \in Nat /\ q[i].age < Day /\ q[i].total \in Nat /\ q[i].root \in Roots
  BY <1>1 DEF Recall, Recorded, StartRecords
<1>3. \A k \in 0 .. n : Upto(q, k) \in Nat
  BY <1>1, <1>2 DEF Upto
<1>4. \A k \in e .. n : Upto(q, e) <= Upto(q, k) /\ Upto(q, k) \in Nat /\ Upto(q, e) \in Nat
  <2>1. \A k \in e .. n : k \in 0 .. n /\ e <= k
    BY <1>1
  <2> QED BY <1>3, <2>1, Zenon DEF Recall, Recorded
<1>5. ASSUME NEW i \in 1 .. n - e
      PROVE  /\ i + e \in 1 .. n /\ i + e \in e .. n
             /\ p[i] \in StartRecords
             /\ p[i].root = q[i + e].root /\ p[i].cleaned = q[i + e].cleaned
             /\ p[i].age = q[i + e].age + 1 /\ p[i].total = q[i + e].total - Upto(q, e)
             /\ p[i].age < Day
  <2>1. i + e \in 1 .. n /\ i + e \in e .. n /\ i + e # 0 /\ ~(i + e <= e)
    BY <1>1
  <2>2. p[i] = [q[i + e] EXCEPT !.age = q[i + e].age + 1, !.total = q[i + e].total - Upto(q, e)]
    OBVIOUS
  <2> HIDE DEF p
  <2>3. q[i + e] \in StartRecords /\ q[i + e].age \in Nat /\ q[i + e].total \in Nat
    BY <1>1, <1>2, <2>1, Zenon
  <2>4. Upto(q, e) <= q[i + e].total /\ Upto(q, e) \in Nat
    BY <1>4, <2>1, Zenon DEF Upto
  <2>5. q[i + e].age + 1 \in Nat /\ q[i + e].total - Upto(q, e) \in Nat
    BY <2>3, <2>4
  <2>6. /\ p[i] \in StartRecords
        /\ p[i].root = q[i + e].root /\ p[i].cleaned = q[i + e].cleaned
        /\ p[i].age = q[i + e].age + 1 /\ p[i].total = q[i + e].total - Upto(q, e)
    BY <2>2, <2>3, <2>5, ZenonT(30) DEF StartRecords
  <2>7. ~(q[i + e].age + 1 >= Day)
    BY <2>1, Zenon
  <2>8. q[i + e].age + 1 < Day
    <3>1. Day \in Nat
      BY Periods, Zenon
    <3> QED BY <2>3, <2>7, <3>1, Sums, Zenon
  <2> QED BY <2>1, <2>6, <2>8, Zenon
<1>6. p \in Seq(StartRecords) /\ Len(p) = n - e
  <2>1. p = [i \in 1 .. n - e |-> p[i]]
    OBVIOUS
  <2>2. n - e \in Nat
    BY <1>1
  <2> HIDE DEF p
  <2>3. p \in [1 .. n - e -> StartRecords]
    BY <1>5, <2>1, Zenon
  <2> QED BY <2>2, <2>3
<1> HIDE DEF p
<1>7. ASSUME NEW k \in 0 .. n - e
      PROVE  k + e \in e .. n /\ Upto(p, k) = Upto(q, k + e) - Upto(q, e)
  <2>1. k + e \in e .. n
    BY <1>1
  <2>2. CASE k = 0
    <3>1. Upto(p, k) = 0 /\ k + e = e /\ Upto(q, e) \in Nat
      BY <1>3, <2>2 DEF Upto
    <3> QED BY <2>1, <3>1
  <2>3. CASE k # 0
    <3>1. k \in 1 .. n - e /\ k + e # 0
      BY <1>1, <2>3
    <3> QED BY <1>5, <2>1, <2>3, <3>1, Zenon DEF Upto
  <2> QED BY <2>2, <2>3, Zenon
<1>8. Recorded(p)
  <2>1. ASSUME NEW i \in 0 .. Len(p), NEW j \in 0 .. Len(p), i <= j
        PROVE  Upto(p, i) <= Upto(p, j)
    <3>1. /\ i \in 0 .. n - e /\ j \in 0 .. n - e
          /\ i + e \in 0 .. n /\ j + e \in 0 .. n /\ i + e <= j + e
      BY <1>1, <1>6, <2>1
    <3>2. Upto(q, i + e) <= Upto(q, j + e) /\ Upto(q, i + e) \in Nat /\ Upto(q, j + e) \in Nat /\ Upto(q, e) \in Nat
      BY <1>3, <3>1, Zenon DEF Recall, Recorded
    <3>3. Upto(p, i) = Upto(q, i + e) - Upto(q, e) /\ Upto(p, j) = Upto(q, j + e) - Upto(q, e)
      BY <1>7, <3>1, Zenon
    <3> QED BY <3>2, <3>3
  <2> QED BY <1>5, <1>6, <2>1, Zenon DEF Recorded
<1>9. Budgeted(t, p)
  <2>1. PICK k \in 0 .. n : Split(s, q, k)
    BY Zenon DEF Recall, Budgeted
  <2>2. /\ s.window \in Nat /\ s.count \in Nat /\ s.bytes \in Nat /\ CountLimit \in Nat /\ ByteLimit \in Nat /\ Day \in Nat
        /\ t.window = IF s.window + 1 <= Day THEN s.window + 1 ELSE Day
    <3>1. s.window \in Nat /\ s.count \in Nat /\ s.bytes \in Nat /\ CountLimit \in Nat /\ ByteLimit \in Nat /\ Day \in Nat
      BY RecordFields, Periods, ZenonT(30)
    <3>2. s.window + 1 \in Nat
      BY <3>1
    <3> QED BY <3>1, <3>2, MinOfTwo, Zenon
  <2>3. k <= CountLimit /\ n <= k + s.count /\ Upto(q, k) <= ByteLimit /\ Upto(q, n) <= Upto(q, k) + s.bytes
    BY <2>1, Zenon DEF Split
  <2>4. Upto(q, k) \in Nat /\ Upto(q, n) \in Nat /\ Upto(q, e) \in Nat /\ Upto(q, e) <= Upto(q, n)
    BY <1>1, <1>3, <1>4
  <2>5. Upto(p, n - e) = Upto(q, n) - Upto(q, e)
    <3>1. n - e \in 0 .. n - e /\ n - e + e = n
      BY <1>1
    <3> QED BY <1>7, <3>1, Zenon
  <2>6. CASE e <= k
    <3>1. k - e \in 0 .. n - e /\ k - e + e = k /\ k \in e .. n
      BY <1>1, <2>6
    <3>2. Upto(p, k - e) = Upto(q, k) - Upto(q, e) /\ Upto(q, e) <= Upto(q, k)
      BY <1>4, <1>7, <3>1, Zenon
    <3>3. ASSUME NEW i \in 1 .. k - e PROVE p[i].age >= t.window
      <4>1. i \in 1 .. n - e /\ i + e \in 1 .. k /\ i + e \in 1 .. n
        BY <1>1, <2>6
      <4>2. p[i].age = q[i + e].age + 1 /\ q[i + e].age >= s.window /\ q[i + e].age \in Nat
        BY <1>2, <1>5, <2>1, <4>1, Zenon DEF Split
      <4> QED BY <2>2, <4>2, SMTT(30)
    <3>4. k - e <= CountLimit /\ n - e <= k - e + t.count
      BY <1>1, <2>2, <2>3, <2>6
    <3>5. Upto(p, k - e) <= ByteLimit /\ Upto(p, n - e) <= Upto(p, k - e) + t.bytes
      <4>1. Upto(q, k) - Upto(q, e) <= ByteLimit
        BY <2>2, <2>3, <2>4, <3>2, Sums, ZenonT(30)
      <4>2. Upto(q, n) - Upto(q, e) <= Upto(q, k) - Upto(q, e) + t.bytes
        BY <2>2, <2>3, <2>4, Sums, ZenonT(30)
      <4> QED BY <2>5, <3>2, <4>1, <4>2, Zenon
    <3>6. Split(t, p, k - e)
      BY <1>6, <3>3, <3>4, <3>5, Zenon DEF Split
    <3> QED BY <1>6, <3>1, <3>6, Zenon DEF Budgeted
  <2>7. CASE k < e
    <3>1. 0 \in 0 .. n - e /\ k <= e /\ k \in 0 .. n /\ e \in 0 .. n
      BY <1>1, <2>7
    <3>2. Upto(q, k) <= Upto(q, e)
      BY <3>1, Zenon DEF Recall, Recorded
    <3>3. Upto(p, 0) = 0
      BY Zenon DEF Upto
    <3>4. 0 <= CountLimit /\ n - e <= 0 + t.count
      BY <1>1, <2>2, <2>3, <2>7
    <3>5. Upto(p, 0) <= ByteLimit /\ Upto(p, n - e) <= Upto(p, 0) + t.bytes
      <4>1. 0 <= ByteLimit
        BY <2>2
      <4>2. Upto(q, n) - Upto(q, e) <= 0 + t.bytes
        BY <2>2, <2>3, <2>4, <3>2, Sums, ZenonT(30)
      <4> QED BY <2>5, <3>3, <4>1, <4>2, Zenon
    <3>6. \A i \in 1 .. 0 : p[i].age >= t.window
      OBVIOUS
    <3>7. Split(t, p, 0)
      BY <1>6, <3>4, <3>5, <3>6, Zenon DEF Split
    <3> QED BY <1>6, <3>1, <3>7, Zenon DEF Budgeted
  <2> QED BY <1>1, <2>6, <2>7
<1>10. Spaced(p)
  <2> SUFFICES ASSUME NEW i \in 1 .. Len(p), NEW j \in 1 .. Len(p), i < j, p[i].root = p[j].root, ~p[i].cleaned
               PROVE  p[i].age >= p[j].age + MinInterval
    BY Zenon DEF Spaced
  <2>1. i \in 1 .. n - e /\ j \in 1 .. n - e /\ i + e < j + e
    BY <1>1, <1>6
  <2>2. /\ i + e \in 1 .. n /\ j + e \in 1 .. n /\ q[i + e].root = q[j + e].root /\ ~q[i + e].cleaned
        /\ p[i].age = q[i + e].age + 1 /\ p[j].age = q[j + e].age + 1
    BY <1>5, <2>1, Zenon
  <2>3. q[i + e].age >= q[j + e].age + MinInterval
    BY <2>1, <2>2, Zenon DEF Recall, Spaced
  <2>4. q[i + e].age \in Nat /\ q[j + e].age \in Nat /\ MinInterval \in Nat
    BY <1>2, <2>2, Periods, Zenon
  <2> DEFINE a == q[i + e].age
             b == q[j + e].age
  <2>5. a \in Nat /\ b \in Nat /\ a >= b + MinInterval
    BY <2>3, <2>4, Zenon
  <2> HIDE DEF a, b
  <2>6. a + 1 >= b + 1 + MinInterval
    BY <2>4, <2>5
  <2> QED BY <2>2, <2>6, Zenon DEF a, b
<1>11. Paced(t, p)
  <2> SUFFICES ASSUME NEW i \in 1 .. Len(p), ~p[i].cleaned
               PROVE  /\ t.since[p[i].root] # Unscheduled
                      /\ p[i].age >= MinInterval \/ t.last[p[i].root] <= p[i].age
    BY Zenon DEF Paced
  <2>1. i \in 1 .. n - e
    BY <1>6
  <2> DEFINE x == q[i + e].root
             a == q[i + e].age
  <2>2. p[i].root = x /\ p[i].age = a + 1 /\ x \in Roots /\ a \in Nat /\ ~q[i + e].cleaned /\ i + e \in 1 .. n
    BY <1>2, <1>5, <2>1, Zenon
  <2>3. s.since[x] # Unscheduled /\ (a >= MinInterval \/ s.last[x] <= a)
    BY <2>2, Zenon DEF Recall, Paced
  <2>4. s.last[x] \in Nat /\ MinInterval \in Nat
    BY <2>2, RecordFields, Periods, Zenon
  <2>5. s.last[x] < MinInterval => t.last[x] = s.last[x] + 1
    BY <2>2, Zenon
  <2> HIDE DEF x, a
  <2>6. a + 1 >= MinInterval \/ t.last[x] <= a + 1
    <3>1. a + 1 >= MinInterval \/ (s.last[x] + 1 <= a + 1 /\ s.last[x] < MinInterval)
      BY <2>2, <2>3, <2>4, Sums, ZenonT(30)
    <3> QED BY <2>5, <3>1, Zenon
  <2> QED BY <2>2, <2>3, <2>6, Zenon
<1> QED BY <1>8, <1>9, <1>10, <1>11, Zenon DEF Recall, p

-----------------------------------------------------------------------------
(* What the operations do to the window and to the schedules.              *)

(* The counters of the window, untouched. *)
SameCounters(s, t) == t.window = s.window /\ t.count = s.count /\ t.bytes = s.bytes

(* mark_root_dirty_at *)
LEMMA ScheduleKeeps ==
    ASSUME NEW s \in Records, NEW r \in Roots, NEW changed \in BOOLEAN
    PROVE  SameCounters(s, Schedule(s, r, changed)) /\ KeepsSchedules(s, Schedule(s, r, changed), Roots)
<1>0. s.since \in [Roots -> 0 .. Unscheduled] /\ s.last \in [Roots -> 0 .. Never] /\ 0 # Unscheduled
  BY Periods, SMTT(30) DEF Records
<1>1. CASE r \notin Scheduled(s)
  <2> DEFINE t == [s EXCEPT !.since[r] = 0, !.last[r] = Never]
  <2>1. Schedule(s, r, changed) = t /\ s.since[r] = Unscheduled
    BY <1>1, Zenon DEF Schedule, Scheduled
  <2>2. SameCounters(s, t) /\ t.since = [s.since EXCEPT ![r] = 0] /\ t.last = [s.last EXCEPT ![r] = Never]
    BY DEF Records, SameCounters
  <2> HIDE DEF t
  <2> QED BY <1>0, <2>1, <2>2, Zenon DEF KeepsSchedules
<1>2. CASE r \in Scheduled(s) /\ changed
  <2> DEFINE t == [s EXCEPT !.since[r] = 0]
  <2>1. Schedule(s, r, changed) = t
    BY <1>2, Zenon DEF Schedule
  <2>2. SameCounters(s, t) /\ t.since = [s.since EXCEPT ![r] = 0] /\ t.last = s.last
    BY DEF Records, SameCounters
  <2> HIDE DEF t
  <2> QED BY <1>0, <2>1, <2>2, Zenon DEF KeepsSchedules
<1>3. CASE r \in Scheduled(s) /\ ~changed
  BY <1>3, Zenon DEF Schedule, KeepsSchedules, SameCounters
<1> QED BY <1>1, <1>2, <1>3, Zenon

(* The schedules of the dirty roots are kept, ... *)
LEMMA RetainDirtyKeeps ==
    ASSUME NEW s \in Records, NEW D \in SUBSET Roots
    PROVE  SameCounters(s, RetainDirty(s, D)) /\ KeepsSchedules(s, RetainDirty(s, D), D)
<1> DEFINE t == RetainDirty(s, D)
<1>1. /\ SameCounters(s, t)
      /\ t.since = [r \in Roots |-> IF r \in D THEN s.since[r] ELSE Unscheduled]
      /\ t.last = [r \in Roots |-> IF r \in D THEN s.last[r] ELSE Never]
  BY DEF Records, SameCounters, RetainDirty
<1> HIDE DEF t
<1>2. KeepsSchedules(s, t, D)
  BY <1>1, Zenon DEF KeepsSchedules
<1> QED BY <1>1, <1>2, Zenon DEF t

(* ... also by what gives the others one. *)
LEMMA ScheduleDirtyKeeps ==
    ASSUME NEW s \in Records, NEW D \in SUBSET Roots
    PROVE  SameCounters(s, ScheduleDirty(s, D)) /\ KeepsSchedules(s, ScheduleDirty(s, D), D)
<1> DEFINE kept == RetainDirty(s, D)
           t == ScheduleDirty(s, D)
<1>1. kept \in Records /\ SameCounters(s, kept) /\ KeepsSchedules(s, kept, D)
  BY RetainDirtyTyped, RetainDirtyKeeps, Zenon
<1>2. t = [kept EXCEPT !.since = [r \in Roots |-> IF r \in D \ Scheduled(kept) THEN DirtySince(s) ELSE kept.since[r]]]
  BY DEF ScheduleDirty
<1> HIDE DEF kept, t
<1>3. /\ SameCounters(kept, t) /\ t.last = kept.last
      /\ t.since = [r \in Roots |-> IF r \in D \ Scheduled(kept) THEN DirtySince(s) ELSE kept.since[r]]
  BY <1>1, <1>2 DEF Records, SameCounters
<1>4. SameCounters(s, t)
  BY <1>1, <1>3, Zenon DEF SameCounters
<1>5. KeepsSchedules(s, t, D)
  <2> SUFFICES ASSUME NEW r \in D, s.since[r] # Unscheduled
               PROVE  t.since[r] # Unscheduled /\ t.last[r] = s.last[r]
    BY Zenon DEF KeepsSchedules
  <2>1. kept.since[r] # Unscheduled /\ kept.last[r] = s.last[r] /\ r \in Roots
    BY <1>1, Zenon DEF KeepsSchedules
  <2>2. r \in Scheduled(kept)
    BY <2>1, Zenon DEF Scheduled
  <2>3. t.since[r] = kept.since[r]
    BY <1>3, <2>1, <2>2, Zenon
  <2> QED BY <1>3, <2>1, <2>3, Zenon
<1> QED BY <1>4, <1>5, Zenon DEF t

(* The daily window. *)
LEMMA WindowedKeeps ==
    ASSUME NEW s \in Records
    PROVE  SameWindow(s, Windowed(s)) /\ Windowed(s).since = s.since /\ Windowed(s).last = s.last
<1>1. CASE s.window >= Day
  <2> DEFINE t == [s EXCEPT !.window = 0, !.count = 0, !.bytes = 0, !.wait = 0]
  <2>1. Windowed(s) = t
    BY <1>1, Zenon DEF Windowed
  <2>2. t.window = 0 /\ t.count = 0 /\ t.bytes = 0 /\ t.since = s.since /\ t.last = s.last
    BY DEF Records
  <2> HIDE DEF t
  <2> QED BY <1>1, <2>1, <2>2, Zenon DEF SameWindow
<1>2. CASE ~(s.window >= Day)
  BY <1>2, Zenon DEF Windowed, SameWindow
<1> QED BY <1>1, <1>2, Zenon

(* What poll_automatic_backup works with. *)
LEMMA PolledKeeps ==
    ASSUME state \in Records
    PROVE  /\ SameCounters(Windowed(state), Polled)
           /\ SameWindow(state, Polled) /\ KeepsSchedules(state, Polled, Roots)
<1> DEFINE w == Windowed(state)
<1>1. w \in Records /\ SameWindow(state, w) /\ w.since = state.since /\ w.last = state.last
  BY WindowedTyped, WindowedKeeps, Zenon
<1>2. CASE ~ReconciliationDue
  <2>1. Polled = w
    BY <1>2, Zenon DEF Polled
  <2> HIDE DEF w
  <2>2. SameCounters(w, Polled) /\ SameWindow(state, Polled) /\ KeepsSchedules(state, Polled, Roots)
    BY <1>1, <2>1, Zenon DEF SameCounters, KeepsSchedules
  <2> QED BY <2>2, Zenon DEF w
<1>3. CASE ReconciliationDue
  <2>1. Polled = Reconciled(w)
    BY <1>3, Zenon DEF Polled
  <2> HIDE DEF w
  <2> DEFINE t == Reconciled(w)
  <2>2. /\ SameCounters(w, t)
        /\ t.since = [r \in Roots |-> Schedule(w, r, FALSE).since[r]]
        /\ t.last = [r \in Roots |-> Schedule(w, r, FALSE).last[r]]
    BY <1>1 DEF Records, SameCounters, Reconciled
  <2> HIDE DEF t
  <2>3. KeepsSchedules(state, t, Roots)
    <3> SUFFICES ASSUME NEW r \in Roots, state.since[r] # Unscheduled
                 PROVE  t.since[r] # Unscheduled /\ t.last[r] = state.last[r]
      BY Zenon DEF KeepsSchedules
    <3>1. KeepsSchedules(w, Schedule(w, r, FALSE), Roots)
      BY <1>1, ScheduleKeeps, Zenon
    <3>2. Schedule(w, r, FALSE).since[r] # Unscheduled /\ Schedule(w, r, FALSE).last[r] = w.last[r]
      BY <1>1, <3>1, Zenon DEF KeepsSchedules
    <3> QED BY <1>1, <2>2, <3>2, Zenon
  <2>4. SameWindow(state, t)
    BY <1>1, <2>2, Zenon DEF SameWindow, SameCounters
  <2> QED BY <2>1, <2>2, <2>3, <2>4, Zenon DEF t, w
<1> QED BY <1>2, <1>3, Zenon

(* A step that starts no backup. *)
Quietly == ~Started /\ SameWindow(state, state') /\ KeepsSchedules(state, state', dirty')

(* A step that starts the backup of root r from the record s. *)
Starts(s, r) ==
    /\ Started /\ loop'.root = r
    /\ SameWindow(state, s) /\ KeepsSchedules(state, s, dirty') /\ s.bytes = Windowed(state).bytes
    /\ s.since[r] # Unscheduled /\ s.last[r] >= MinInterval
    /\ state'.window = s.window /\ state'.count = s.count + 1 /\ state'.bytes - s.bytes \in Nat
    /\ state'.since = s.since /\ state'.last = [s.last EXCEPT ![r] = 0]

(* poll_automatic_backup starts at most one root, one that is due. *)
LEMMA PollRecalls ==
    ASSUME TypeOK, Poll
    PROVE  Quietly \/ \E s \in Records, r \in Roots : Starts(s, r)
<1>1. PollBegins
  BY Zenon DEF Poll, PollInFlight, PollClean, PollWaits, PollWithoutGuild, PollCountLimit, PollScan, PollReady
<1>2. /\ dirty' = PolledDirty /\ PolledDirty \in SUBSET Roots /\ Polled \in Records /\ state \in Records
      /\ loop.at = "poll"
  BY <1>1, PolledTyped, Zenon DEF PollBegins, TypeOK
<1>3. /\ SameCounters(Windowed(state), Polled)
      /\ SameWindow(state, Polled) /\ KeepsSchedules(state, Polled, Roots)
  BY <1>2, PolledKeeps, Zenon
<1>4. ASSUME NEW t, SameCounters(Polled, t), KeepsSchedules(Polled, t, dirty')
      PROVE  SameWindow(state, t) /\ KeepsSchedules(state, t, dirty')
  <2>1. SameWindow(state, t)
    BY <1>3, <1>4, Zenon DEF SameWindow, SameCounters
  <2>2. KeepsSchedules(state, t, dirty')
    BY <1>2, <1>3, <1>4, Zenon DEF KeepsSchedules
  <2> QED BY <2>1, <2>2, Zenon
<1>5. ASSUME NEW t, state' = t, loop' = At("sleep") \/ loop' = At("query"),
             SameCounters(Polled, t), KeepsSchedules(Polled, t, dirty')
      PROVE  Quietly
  <2>1. loop'.at # "prepare"
    BY <1>5, AtTyped
  <2> QED BY <1>4, <1>5, <2>1, Zenon DEF Quietly, Started
<1>6. CASE PollInFlight
  <2>1. loop' = At("query") /\ loop'.at # "prepare" /\ state' = IF ReconciliationDue THEN Polled ELSE state
    BY <1>6, AtTyped DEF PollInFlight
  <2>2. SameWindow(state, state) /\ KeepsSchedules(state, state, dirty') /\ KeepsSchedules(state, Polled, dirty')
    BY <1>2, <1>3, Zenon DEF SameWindow, KeepsSchedules
  <2>3. SameWindow(state, state') /\ KeepsSchedules(state, state', dirty')
    BY <1>3, <2>1, <2>2, Zenon
  <2> QED BY <2>1, <2>3, Zenon DEF Quietly, Started
<1>7. CASE PollClean
  <2> DEFINE kept == RetainDirty(Polled, {})
             t == [kept EXCEPT !.retry = [r \in Roots |-> 0]]
  <2>1. kept \in Records /\ SameCounters(Polled, kept)
    BY <1>2, RetainDirtyTyped, RetainDirtyKeeps, Zenon
  <2>2. state' = t /\ loop' = At("sleep") /\ PolledDirty = {}
    BY <1>7 DEF PollClean, PollIdles
  <2> HIDE DEF kept
  <2>3. SameCounters(kept, t)
    BY <2>1 DEF Records, SameCounters
  <2> HIDE DEF t
  <2>4. SameCounters(Polled, t) /\ KeepsSchedules(Polled, t, dirty')
    BY <1>2, <2>1, <2>2, <2>3, Zenon DEF SameCounters, KeepsSchedules
  <2> QED BY <1>5, <2>2, <2>4, Zenon
<1>8. CASE PollWaits
  <2>1. SameCounters(Polled, Polled) /\ KeepsSchedules(Polled, Polled, dirty')
    BY Zenon DEF SameCounters, KeepsSchedules
  <2> QED BY <1>5, <1>8, <2>1, Zenon DEF PollWaits, PollIdles
<1>9. CASE PollWithoutGuild
  <2> DEFINE t == [Polled EXCEPT !.wait = Blocked]
  <2>1. SameCounters(Polled, t) /\ t.since = Polled.since /\ t.last = Polled.last
    BY <1>2 DEF Records, SameCounters
  <2>2. state' = t /\ loop' = At("sleep")
    BY <1>9 DEF PollWithoutGuild, PollIdles
  <2> HIDE DEF t
  <2>3. KeepsSchedules(Polled, t, dirty')
    BY <2>1, Zenon DEF KeepsSchedules
  <2> QED BY <1>5, <2>1, <2>2, <2>3, Zenon
<1> DEFINE s == ScheduleDirty(Polled, PolledDirty)
<1>10. s \in Records /\ SameCounters(Polled, s) /\ KeepsSchedules(Polled, s, dirty')
  BY <1>2, ScheduleDirtyTyped, ScheduleDirtyKeeps, Zenon
<1>11. CASE PollCountLimit
  <2> DEFINE t == [s EXCEPT !.wait = Day - s.window]
  <2>1. state' = t /\ loop' = At("sleep")
    BY <1>11, Zenon DEF PollCountLimit, PollIdles
  <2> HIDE DEF s
  <2>2. SameCounters(s, t) /\ t.since = s.since /\ t.last = s.last
    BY <1>10 DEF Records, SameCounters
  <2> HIDE DEF t
  <2>3. SameCounters(Polled, t) /\ KeepsSchedules(Polled, t, dirty')
    BY <1>10, <2>2, Zenon DEF SameCounters, KeepsSchedules
  <2> QED BY <1>5, <2>1, <2>3, Zenon
<1>12. CASE PollScan
  <2>1. PICK size \in [Roots -> Sizes \cup {Unreadable}] :
          LET S == Selectable(s, size)
              r == First(s, S)
          IN IF S = {}
             THEN state' = AfterScan(s, size) /\ loop' = At("sleep")
             ELSE /\ state' = [AfterScan(s, size) EXCEPT
                                  !.last[r] = 0, !.count = @ + 1, !.bytes = @ + size[r], !.wait = 0]
                  /\ loop' = [At("prepare") EXCEPT !.root = r]
    BY <1>12, Zenon DEF PollScan
  <2> HIDE DEF s
  <2> DEFINE S == Selectable(s, size)
             r == First(s, S)
             after == AfterScan(s, size)
  <2>2. after \in Records
    BY <1>10, AfterScanTyped, Zenon
  <2>3. SameCounters(s, after) /\ after.since = s.since /\ after.last = s.last
    BY <1>10 DEF Records, SameCounters, AfterScan
  <2>4. IF S = {}
        THEN state' = after /\ loop' = At("sleep")
        ELSE /\ state' = [after EXCEPT !.last[r] = 0, !.count = @ + 1, !.bytes = @ + size[r], !.wait = 0]
             /\ loop' = [At("prepare") EXCEPT !.root = r]
    BY <2>1, Zenon
  <2>5. S \in SUBSET Roots /\ \A q \in S : s.since[q] # Unscheduled /\ s.last[q] >= MinInterval
    BY Zenon DEF Selectable, Eligible, Scheduled
  <2>6. S # {} => r \in S
    <3> HIDE DEF S
    <3> QED BY <1>10, <2>5, FirstIsMember, Zenon
  <2>7. \A q \in Roots : size[q] \in Nat
    BY AutomationAssumption, Periods, SMTT(30)
  <2> HIDE DEF S, r, after
  <2>8. CASE S = {}
    <3>1. SameCounters(Polled, after) /\ KeepsSchedules(Polled, after, dirty')
      BY <1>10, <2>3, Zenon DEF SameCounters, KeepsSchedules
    <3> QED BY <1>5, <2>4, <2>8, <3>1, Zenon
  <2>9. CASE S # {}
    <3>1. r \in Roots /\ s.since[r] # Unscheduled /\ s.last[r] >= MinInterval /\ size[r] \in Nat
      BY <2>5, <2>6, <2>7, <2>9, ZenonT(30)
    <3>2. state' = [after EXCEPT !.last[r] = 0, !.count = @ + 1, !.bytes = @ + size[r], !.wait = 0]
      BY <2>4, <2>9, Zenon
    <3>3. /\ state'.window = after.window /\ state'.count = after.count + 1 /\ state'.bytes = after.bytes + size[r]
          /\ state'.since = after.since /\ state'.last = [after.last EXCEPT ![r] = 0]
      BY <2>2, <3>2 DEF Records
    <3>4. loop'.at = "prepare" /\ loop'.root = r
      BY <2>4, <2>9, <3>1, Zenon DEF At
    <3>5. SameWindow(state, s) /\ KeepsSchedules(state, s, dirty')
      BY <1>4, <1>10, Zenon
    <3>6. s.bytes = Windowed(state).bytes
      BY <1>3, <1>10, Zenon DEF SameCounters
    <3>7. s.bytes \in Nat /\ state'.bytes = s.bytes + size[r]
      BY <1>10, <2>3, <3>3, RecordFields, Zenon DEF SameCounters
    <3>8. state'.bytes - s.bytes \in Nat
      BY <3>1, <3>7
    <3>9. /\ state'.window = s.window /\ state'.count = s.count + 1
          /\ state'.since = s.since /\ state'.last = [s.last EXCEPT ![r] = 0]
      BY <2>3, <3>3, Zenon DEF SameCounters
    <3>10. Starts(s, r)
      BY <1>2, <3>1, <3>4, <3>5, <3>6, <3>8, <3>9, ZenonT(30) DEF Starts, Started
    <3> QED BY <1>10, <3>1, <3>10, Zenon
  <2> QED BY <2>8, <2>9, Zenon
<1> QED BY <1>6, <1>7, <1>8, <1>9, <1>11, <1>12, ZenonT(30) DEF Poll

(* A step after which the record has the counters and schedules it had. *)
LEMMA QuietlyKept ==
    ASSUME ~Started, SameCounters(state, state'), state'.since = state.since, state'.last = state.last
    PROVE  Quietly
BY Zenon DEF Quietly, SameWindow, SameCounters, KeepsSchedules

(* The loop waits for its requests, and records how they ended. *)
LEMMA SubmitRecalls ==
    ASSUME TypeOK, Submit
    PROVE  Quietly
<1>1. ~Started
  BY Zenon DEF Submit, Prepare, PrepareFails, Enqueue, SendFails, Submitted, Query, Finish, Started
<1>2. state \in Records
  BY DEF TypeOK
<1> DEFINE Kept(t) == SameCounters(state, t) /\ t.since = state.since /\ t.last = state.last
<1>3. \A r : \A hard \in BOOLEAN : Kept(Failed(state, r, hard))
  BY <1>2 DEF Records, SameCounters, Failed
<1>4. ASSUME NEW hard \in BOOLEAN, GivesUp(hard) PROVE Kept(state')
  BY <1>3, <1>4, Zenon DEF GivesUp
<1>5. Kept(state)
  BY Zenon DEF SameCounters
<1>6. CASE Prepare \/ Query
  <2>1. state' = state
    BY <1>6, Zenon DEF Prepare, Query
  <2> QED BY <1>1, <1>5, <2>1, QuietlyKept, Zenon
<1>7. CASE PrepareFails \/ SendFails
  <2>1. Kept(state')
    <3> HIDE DEF Kept
    <3> QED BY <1>4, <1>7, Zenon DEF PrepareFails, SendFails
  <2> QED BY <1>1, <2>1, QuietlyKept, Zenon
<1>8. CASE Enqueue
  <2>1. state' = state \/ GivesUp(FALSE)
    BY <1>8, Zenon DEF Enqueue
  <2>2. Kept(state')
    <3> HIDE DEF Kept
    <3> QED BY <1>4, <1>5, <2>1, Zenon
  <2> QED BY <1>1, <2>2, QuietlyKept, Zenon
<1>9. CASE Submitted
  <2>1. state' = [state EXCEPT !.inFlight = loop.root, !.wait = 0]
    BY <1>9, Zenon DEF Submitted
  <2>2. Kept(state')
    BY <1>2, <2>1, SMTT(30) DEF Records, SameCounters
  <2> QED BY <1>1, <2>2, QuietlyKept, Zenon
<1>10. CASE Finish
  <2>1. \/ state' = [state EXCEPT !.inFlight = NoRoot, !.wait = 0, !.retry[loop.root] = 0]
        \/ state' = Failed(state, loop.root, TRUE)
    BY <1>10, Zenon DEF Finish
  <2>2. Kept([state EXCEPT !.inFlight = NoRoot, !.wait = 0, !.retry[loop.root] = 0])
    BY <1>2 DEF Records, SameCounters
  <2>3. Kept(state')
    <3> HIDE DEF Kept
    <3> QED BY <1>3, <2>1, <2>2, Zenon
  <2> QED BY <1>1, <2>3, QuietlyKept, Zenon
<1> QED BY <1>6, <1>7, <1>8, <1>9, <1>10, Zenon DEF Submit

(* A step beside the loop starts nothing. *)
LEMMA AsideStartsNothing ==
    ASSUME Aside
    PROVE  ~Started
BY DEF Aside, Started, Busy

(* The coordinator's jobs, checkpoints, and changes of the guild: only a   *)
(* checkpoint changes schedules, and those of clean roots.                 *)
LEMMA GuildRecalls ==
    ASSUME TypeOK,
           \/ \E r \in Roots : Coordinate(r)
           \/ AcceptCheckpoint \/ RemoveCoordinator \/ JoinGuild \/ ClearBlock
    PROVE  Quietly
<1>1. ~Started
  BY GuildStep, AsideStartsNothing, Zenon
<1>2. state \in Records /\ dirty \subseteq Roots
  BY DEF TypeOK
<1>3. CASE AcceptCheckpoint
  <2>1. dirty' = dirty \ Cleared /\ state' = RetainDirty(state, dirty \ Cleared)
    BY <1>3, Zenon DEF AcceptCheckpoint
  <2>2. dirty \ Cleared \in SUBSET Roots
    BY <1>2, Zenon
  <2>3. SameCounters(state, state') /\ KeepsSchedules(state, state', dirty')
    BY <1>2, <2>1, <2>2, RetainDirtyKeeps, Zenon
  <2> QED BY <1>1, <2>3, Zenon DEF Quietly, SameWindow, SameCounters
<1>4. CASE ClearBlock
  <2>1. state' = [state EXCEPT !.wait = 0, !.retry = [r \in Roots |-> 0]]
    BY <1>4, Zenon DEF ClearBlock
  <2>2. SameCounters(state, state') /\ state'.since = state.since /\ state'.last = state.last
    BY <1>2, <2>1, SMTT(30) DEF Records, SameCounters
  <2> QED BY <1>1, <2>2, QuietlyKept, Zenon
<1>5. CASE RemoveCoordinator \/ JoinGuild \/ \E r \in Roots : Coordinate(r)
  <2>1. state' = state
    BY <1>5, ZenonT(30) DEF RemoveCoordinator, JoinGuild, Coordinate, Certify, CompleteJob, FailJob
  <2>2. SameCounters(state, state') /\ state'.since = state.since /\ state'.last = state.last
    BY <2>1, Zenon DEF SameCounters
  <2> QED BY <1>1, <2>2, QuietlyKept, Zenon
<1> QED BY <1>3, <1>4, <1>5, Zenon

(* Marks of roots: an existing schedule keeps its last attempt. *)
LEMMA MarkRecalls ==
    ASSUME TypeOK, NEW r \in Roots, Change(r) \/ Remark(r) \/ StartupMark(r)
    PROVE  Quietly
<1>1. ~Started /\ dirty' \subseteq Roots
  BY MarkStep, AsideStartsNothing, Zenon DEF TypeOK
<1>2. PICK changed \in BOOLEAN : state' = Schedule(state, r, changed)
  BY Zenon DEF Change, Remark, StartupMark, Mark
<1>3. SameCounters(state, state') /\ KeepsSchedules(state, state', Roots)
  BY <1>2, ScheduleKeeps, Zenon DEF TypeOK
<1> QED BY <1>1, <1>3, Zenon DEF Quietly, SameWindow, SameCounters, KeepsSchedules

(* Crashes leave each schedule as it was or as the operation makes it. *)
LEMMA CrashRecalls ==
    ASSUME TypeOK,
           \/ Crash \/ CrashInAccept
           \/ \E r \in Roots : CrashInMark(r)
           \/ \E S \in SUBSET Roots : CrashInReconcile(S)
    PROVE  Quietly
<1>1. ~Started /\ dirty' \subseteq Roots
  BY CrashStep, AsideStartsNothing, Zenon DEF TypeOK
<1>2. CASE Crash \/ CrashInAccept \/ \E r \in Roots : CrashInMark(r)
  <2>1. state' = state
    BY <1>2, Zenon DEF Crash, CrashInAccept, CrashInMark
  <2>2. SameCounters(state, state') /\ state'.since = state.since /\ state'.last = state.last
    BY <2>1, Zenon DEF SameCounters
  <2> QED BY <1>1, <2>2, QuietlyKept, Zenon
<1>3. ASSUME NEW S \in SUBSET Roots, CrashInReconcile(S) PROVE Quietly
  <2> DEFINE w == Windowed(state)
             since == [r \in Roots |-> IF r \in S THEN Polled.since[r] ELSE w.since[r]]
             last == [r \in Roots |-> IF r \in S THEN Polled.last[r] ELSE w.last[r]]
  <2>1. state' = [w EXCEPT !.reconcile = 0, !.since = since, !.last = last]
    BY <1>3, Zenon DEF CrashInReconcile
  <2>2. w \in Records /\ SameWindow(state, w) /\ w.since = state.since /\ w.last = state.last
    BY WindowedTyped, WindowedKeeps, Zenon DEF TypeOK
  <2>3. KeepsSchedules(state, Polled, Roots)
    BY PolledKeeps, Zenon DEF TypeOK
  <2>4. \A r \in Roots : state.since[r] # Unscheduled => since[r] # Unscheduled /\ last[r] = state.last[r]
    BY <2>2, <2>3, Zenon DEF KeepsSchedules
  <2> HIDE DEF w, since, last
  <2>5. SameCounters(w, state') /\ state'.since = since /\ state'.last = last
    BY <2>1, <2>2 DEF Records, SameCounters
  <2>6. SameWindow(state, state')
    BY <2>2, <2>5, Zenon DEF SameWindow, SameCounters
  <2>7. KeepsSchedules(state, state', dirty')
    BY <1>1, <2>4, <2>5, Zenon DEF KeepsSchedules
  <2> QED BY <1>1, <2>6, <2>7, Zenon DEF Quietly
<1> QED BY <1>2, <1>3, Zenon

(* A unit of time. *)
LEMMA TickRecalls ==
    ASSUME TypeOK, Recall(state, starts), Tick, RecordTick
    PROVE  Recall(state', starts')
<1>1. state \in Records /\ state' \in Records
  BY TickStep, Zenon DEF TypeOK
<1>2. /\ state.since \in [Roots -> 0 .. Unscheduled] /\ state.last \in [Roots -> 0 .. Never]
  BY <1>1, Zenon DEF Records
<1> DEFINE unscheduled == {r \in Roots : state.since[r] = Unscheduled}
           never == {r \in Roots : state.last[r] = Never}
<1>3. /\ state'.window = Min({state.window + 1, Day}) /\ state'.count = state.count /\ state'.bytes = state.bytes
      /\ state'.since = Older(state.since, unscheduled) /\ state'.last = Older(state.last, never)
  <2> DEFINE since == Older(state.since, unscheduled)
             last == Older(state.last, never)
             retry == [r \in Roots |-> Less(state.retry[r])]
             wait == IF state.wait = Blocked THEN state.wait ELSE Less(state.wait)
             window == Min({state.window + 1, Day})
             reconcile == Min({state.reconcile + 1, FullReconcile})
  <2>1. state' = [state EXCEPT !.since = since, !.last = last, !.retry = retry, !.wait = wait,
                               !.window = window, !.reconcile = reconcile]
    BY DEF Tick
  <2> HIDE DEF since, last, retry, wait, window, reconcile
  <2>2. /\ state'.window = window /\ state'.count = state.count /\ state'.bytes = state.bytes
        /\ state'.since = since /\ state'.last = last
    BY <1>1, <2>1 DEF Records
  <2> QED BY <2>2, Zenon DEF since, last, window
<1>4. ASSUME NEW r \in Roots, state.since[r] # Unscheduled PROVE state'.since[r] # Unscheduled
  <2>1. unscheduled \in SUBSET Roots /\ r \in Roots \ unscheduled /\ Unscheduled \in Nat
    BY <1>4, Periods, Zenon
  <2> HIDE DEF unscheduled
  <2>2. state'.since[r] \in 0 .. Oldest + Cardinality(Roots)
    BY <1>2, <1>3, <2>1, OlderKeeps, Zenon
  <2>3. /\ Oldest \in Nat /\ Cardinality(Roots) \in Nat
        /\ Never = Oldest + Cardinality(Roots) + 1 /\ Unscheduled = Never + 1
    BY Periods, Zenon
  <2> QED BY <2>2, <2>3
<1>5. ASSUME NEW r \in Roots, state.last[r] < MinInterval PROVE state'.last[r] = state.last[r] + 1
  <2>1. MinInterval \in Nat /\ MinInterval <= Oldest /\ Oldest \in Nat
    <3>1. Quiet \in Nat /\ MinInterval \in Nat
      BY AutomationAssumption
    <3> QED BY <3>1, MaxOfTwo, Periods, Zenon DEF Oldest
  <2>2. state.last[r] \in Nat
    BY <1>1, RecordFields, Zenon
  <2>3. state.last[r] # Never /\ state.last[r] + 1 <= Oldest /\ Never \in Nat
    <3>1. Never \in Nat /\ Never = Oldest + Cardinality(Roots) + 1 /\ Cardinality(Roots) \in Nat
      BY Periods, Zenon
    <3> QED BY <1>5, <2>1, <2>2, <3>1
  <2>4. never \in SUBSET Roots /\ r \in Roots \ never
    BY <2>3, Zenon
  <2> HIDE DEF never
  <2>5. state.last[r] + 1 <= Oldest => Older(state.last, never)[r] = state.last[r] + 1
    BY <1>2, <2>3, <2>4, OlderKeeps, ZenonT(30)
  <2> QED BY <1>3, <2>3, <2>5, Zenon
<1>6. starts \in Seq(StartRecords) /\ Len(starts) \in Nat /\ DOMAIN starts = 1 .. Len(starts)
  BY DEF Recall, Recorded
<1> DEFINE old == {0} \cup {i \in DOMAIN starts : starts[i].age + 1 >= Day}
<1>7. old \in SUBSET (0 .. Len(starts)) /\ old # {}
  BY <1>6
<1>8. Expired = Max(old)
  BY Zenon DEF Expired
<1>9. Expired \in old /\ \A i \in old : i <= Expired
  <2> HIDE DEF old
  <2>1. PICK x \in old : \A y \in old : y <= x
    BY <1>6, <1>7, GreatestElement, Zenon
  <2>2. \A y \in old : x >= y
    BY <1>6, <1>7, <2>1
  <2>3. Max(old) \in old /\ \A y \in old : Max(old) >= y
    BY <2>2, Zenon DEF Max
  <2> QED BY <1>6, <1>7, <1>8, <2>3
<1>10. Expired \in 0 .. Len(starts) /\ \A i \in 1 .. Len(starts) : starts[i].age + 1 >= Day => i <= Expired
  BY <1>6, <1>7, <1>9, Zenon
<1>11. FirstBytes(Expired) = Upto(starts, Expired)
  BY Zenon DEF FirstBytes, Upto
<1>12. starts' = [i \in 1 .. Len(starts) - Expired |->
                    [starts[i + Expired] EXCEPT !.age = @ + 1, !.total = @ - Upto(starts, Expired)]]
  <2>1. starts' = [i \in 1 .. Len(starts) - Expired |->
                    [starts[i + Expired] EXCEPT !.age = @ + 1, !.total = @ - FirstBytes(Expired)]]
    BY Zenon DEF RecordTick
  <2> QED BY <1>11, <2>1, Zenon
<1> HIDE DEF old
<1> QED BY <1>1, <1>3, <1>4, <1>5, <1>10, <1>12, RecallAged, ZenonT(30)

(* Every step keeps the record of the starts in line with the counters and *)
(* schedules of poll_automatic_backup.                                     *)
LEMMA RecallStep ==
    ASSUME TypeOK, Tracked, Recall(state, starts), NextHistory
    PROVE  Recall(state', starts')
<1>1. Next
  BY Zenon DEF NextHistory, Next
<1>2. state \in Records /\ state' \in Records
  BY <1>1, NextStep, Zenon DEF TypeOK
<1>3. Observed = Obs(starts, dirty')
  BY Zenon DEF Observed, Obs
<1>4. ASSUME NEW marks, Record(marks), Quietly
      PROVE  Recall(state', starts')
  <2>1. starts' = Obs(starts, dirty')
    BY <1>3, <1>4, Zenon DEF Record, Quietly
  <2> QED BY <1>2, <1>4, <2>1, RecallObserved, Zenon DEF Quietly
<1>5. ASSUME NEW marks, Record(marks), NEW s \in Records, NEW r \in Roots, Starts(s, r)
      PROVE  Recall(state', starts')
  <2> DEFINE o == Obs(starts, dirty')
             size == state'.bytes - s.bytes
  <2>1. Recall(s, o)
    BY <1>2, <1>5, RecallObserved, Zenon DEF Starts
  <2>2. starts \in Seq(StartRecords) /\ Len(starts) \in Nat
    BY DEF Recall, Recorded
  <2>3. Len(o) = Len(starts) /\ \A i \in 1 .. Len(starts) : o[i].total = starts[i].total
    BY <2>2, ObsFields, Zenon
  <2> HIDE DEF o
  <2>4. FirstBytes(Len(starts)) = Upto(o, Len(o))
    <3>1. Len(starts) # 0 => Len(starts) \in 1 .. Len(starts)
      BY <2>2
    <3> QED BY <2>3, <3>1, Zenon DEF FirstBytes, Upto
  <2>5. starts' = Append(o, [root |-> r, age |-> 0, cleaned |-> FALSE, total |-> Upto(o, Len(o)) + size])
    <3>1. starts' = Append(Observed, [root |-> loop'.root, age |-> 0, cleaned |-> FALSE,
                              total |-> FirstBytes(Len(starts)) + (state'.bytes - Windowed(state).bytes)])
      BY <1>5, Zenon DEF Record, Starts
    <3>2. loop'.root = r /\ s.bytes = Windowed(state).bytes
      BY <1>5, Zenon DEF Starts
    <3> QED BY <1>3, <2>4, <3>1, <3>2, Zenon DEF o
  <2>6. /\ size \in Nat /\ s.since[r] # Unscheduled /\ s.last[r] >= MinInterval
        /\ state'.window = s.window /\ state'.count = s.count + 1
        /\ state'.since = s.since /\ state'.last = [s.last EXCEPT ![r] = 0]
    BY <1>5, Zenon DEF Starts
  <2>7. state'.bytes = s.bytes + size
    <3>1. state'.bytes \in Nat /\ s.bytes \in Nat
      BY <1>2, <1>5, RecordFields, Zenon
    <3> QED BY <3>1
  <2> HIDE DEF size
  <2> QED BY <1>2, <2>1, <2>5, <2>6, <2>7, RecallStarted, ZenonT(30)
<1>6. CASE Poll /\ Record(IF ReconciliationDue THEN Roots ELSE {})
  <2>1. Quietly \/ \E s \in Records, r \in Roots : Starts(s, r)
    BY <1>6, PollRecalls, Zenon
  <2> QED BY <1>4, <1>5, <1>6, <2>1, Zenon
<1>7. CASE Unmarking /\ Record({})
  <2>1. Quietly
    BY <1>7, SubmitRecalls, GuildRecalls, CrashRecalls, ZenonT(30) DEF Unmarking
  <2> QED BY <1>4, <1>7, <2>1, Zenon
<1>8. ASSUME NEW r \in Roots, Change(r) \/ Remark(r) \/ StartupMark(r) \/ CrashInMark(r), Record({r})
      PROVE  Recall(state', starts')
  <2>1. Quietly
    BY <1>8, MarkRecalls, CrashRecalls, Zenon
  <2> QED BY <1>4, <1>8, <2>1, Zenon
<1>9. ASSUME NEW S \in SUBSET Roots, CrashInReconcile(S), Record(S)
      PROVE  Recall(state', starts')
  <2>1. Quietly
    BY <1>9, CrashRecalls, Zenon
  <2> QED BY <1>4, <1>9, <2>1, Zenon
<1>10. CASE Tick /\ RecordTick
  BY <1>10, TickRecalls, Zenon
<1>11. Noisy \subseteq Roots
  BY AutomationAssumption
<1> QED BY <1>6, <1>7, <1>8, <1>9, <1>10, <1>11, ZenonT(30) DEF NextHistory

(* Types, tracked backups and the record of the starts are invariant. *)
LEMMA RecallInvariant == SpecHistory => [](TypeOK /\ Tracked /\ Recall(state, starts))
<1>1. InitHistory => TypeOK /\ Tracked /\ Recall(state, starts)
  <2> SUFFICES ASSUME InitHistory PROVE TypeOK /\ Tracked /\ Recall(state, starts)
    OBVIOUS
  <2>1. TypeOK /\ Tracked
    BY InitStep, Zenon DEF InitHistory
  <2>2. starts = << >> /\ Len(starts) = 0 /\ starts \in Seq(StartRecords)
    BY DEF InitHistory
  <2>3. state.count \in Nat /\ state.bytes \in Nat /\ CountLimit \in Nat /\ ByteLimit \in Nat
    BY <2>1, RecordFields, Periods, ZenonT(30) DEF TypeOK
  <2>4. Recorded(starts) /\ Spaced(starts) /\ Paced(state, starts)
    BY <2>2 DEF Recorded, Spaced, Paced, Upto
  <2>5. Split(state, starts, 0)
    BY <2>2, <2>3 DEF Split, Upto
  <2>6. 0 \in 0 .. Len(starts)
    BY <2>2
  <2>7. Budgeted(state, starts)
    BY <2>5, <2>6, Zenon DEF Budgeted
  <2> QED BY <2>1, <2>4, <2>7, Zenon DEF Recall
<1>2. TypeOK /\ Tracked /\ Recall(state, starts) /\ [NextHistory]_historyVars
        => (TypeOK /\ Tracked /\ Recall(state, starts))'
  <2> SUFFICES ASSUME TypeOK, Tracked, Recall(state, starts), [NextHistory]_historyVars
               PROVE  TypeOK' /\ Tracked' /\ Recall(state', starts')
    OBVIOUS
  <2>1. CASE NextHistory
    <3>1. Next
      BY <2>1, Zenon DEF NextHistory, Next
    <3> QED BY <2>1, <3>1, NextStep, RecallStep, Zenon
  <2>2. CASE UNCHANGED historyVars
    <3>1. UNCHANGED vars /\ state' = state /\ starts' = starts
      BY <2>2 DEF historyVars, vars
    <3> QED BY <3>1, StutterStep, Zenon
  <2> QED BY <2>1, <2>2, Zenon
<1> QED BY <1>1, <1>2, PTL DEF SpecHistory

(* The daily limits hold for every span of a day, whatever crashes and     *)
(* however the windows of poll_automatic_backup fall: such a span meets at *)
(* most two of them.                                                       *)
THEOREM LimitsKept == SpecHistory => []DailyLimits
<1>1. TypeOK /\ Recall(state, starts) => DailyLimits
  <2> SUFFICES ASSUME TypeOK, Recall(state, starts) PROVE DailyLimits
    OBVIOUS
  <2>1. starts \in Seq(StartRecords) /\ Len(starts) \in Nat
    BY DEF Recall, Recorded
  <2>2. PICK k \in 0 .. Len(starts) : Split(state, starts, k)
    BY Zenon DEF Recall, Budgeted
  <2>3. /\ state.count \in Nat /\ state.count <= CountLimit /\ state.bytes \in Nat /\ state.bytes <= ByteLimit
        /\ CountLimit \in Nat /\ ByteLimit \in Nat
    BY RecordFields, Periods, ZenonT(30) DEF TypeOK
  <2>4. \A j \in 0 .. Len(starts) : Upto(starts, j) \in Nat
    <3>1. \A j \in 1 .. Len(starts) : starts[j] \in StartRecords
      BY <2>1
    <3>2. \A j \in 1 .. Len(starts) : starts[j].total \in Nat
      BY <3>1, Zenon DEF StartRecords
    <3> QED BY <2>1, <3>2 DEF Upto
  <2>5. Upto(starts, k) \in Nat /\ Upto(starts, Len(starts)) \in Nat
    BY <2>1, <2>4
  <2>6. Len(starts) <= 2 * CountLimit /\ Upto(starts, Len(starts)) <= 2 * ByteLimit
    BY <2>1, <2>2, <2>3, <2>5 DEF Split
  <2>7. FirstBytes(Len(starts)) = Upto(starts, Len(starts))
    BY Zenon DEF FirstBytes, Upto
  <2> QED BY <2>6, <2>7, Zenon DEF DailyLimits
<1> QED BY <1>1, RecallInvariant, PTL

(* The attempts of a root that stays dirty are minimum_interval_seconds    *)
(* apart, whatever rewrites its schedule in between.                       *)
THEOREM IntervalKept == SpecHistory => []AttemptsSpaced
<1>1. Recall(state, starts) => AttemptsSpaced
  <2> SUFFICES ASSUME Recall(state, starts) PROVE AttemptsSpaced
    OBVIOUS
  <2>1. DOMAIN starts = 1 .. Len(starts)
    BY DEF Recall, Recorded
  <2> QED BY <2>1, Zenon DEF Recall, Spaced, AttemptsSpaced
<1> QED BY <1>1, RecallInvariant, PTL

=============================================================================
