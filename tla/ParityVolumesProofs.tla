------------------------- MODULE ParityVolumesProofs -------------------------
(***************************************************************************)
(* The records of a node's parity volumes, for any number of volumes,      *)
(* coding attempts and repairs, wherever a crash or an error cuts an       *)
(* operation short.  A volume that was declared safe to remove stays so:   *)
(* what a write adds it adds to open volumes, and a retired volume is      *)
(* closed.  The shard of a group that is owed stays: a write either adds   *)
(* rows and loses no READY one, or drops the rows of an attempt that       *)
(* failed or of a group that nobody retains.  The removal of an emergency  *)
(* shard that completes leaves no copy, since a record led to every row.   *)
(***************************************************************************)
EXTENDS ParityVolumes, TLAPS, WellFoundedInduction, FiniteSetTheorems

(* No record leads to v, and v holds nothing. *)
Clean(d, v) == ~Owes(d, v) /\ d.receipt # v /\ d.mig.src # v

(* The records of a disk, among them a transfer between two volumes or     *)
(* none at all.                                                            *)
WellFormed(d) ==
    d \in Disks /\ (d.mig = NoMigration \/ {d.mig.src, d.mig.dst} \subseteq Volumes)

(* A write that retires no volume and leaves closed, clean volumes so. *)
Confined(d, e) ==
    \A v \in Volumes :
      /\ e.state[v] = "Retired" => d.state[v] = "Retired"
      /\ v \notin open /\ Clean(d, v) => Clean(e, v)

(* What every write of an operation does. *)
Writes(d, e) == WellFormed(e) /\ Confined(d, e)

-----------------------------------------------------------------------------

(* None is neither a volume nor an attempt. *)
LEMMA NoneIsNone == None \notin Volumes /\ None \notin Attempts /\ None \notin Coding
BY VolumesAssumption DEF None, Volumes, Attempts, Coding, Repairs

(* Writes compose. *)
LEMMA WritesCompose ==
    ASSUME NEW d, NEW e, NEW f, Writes(d, e), Writes(e, f)
    PROVE  Writes(d, f)
BY DEF Writes, Confined

(* A write that touches no record of a volume. *)
LEMMA WritesNothing ==
    ASSUME NEW d, NEW e, e \in Disks, WellFormed(d),
           e.obj = d.obj, e.held = d.held, e.receipt = d.receipt, e.mig = d.mig,
           e.resv = d.resv, e.rec = d.rec, e.retire = d.retire,
           \A v \in Volumes : e.state[v] = "Retired" => d.state[v] = "Retired"
    PROVE  Writes(d, e)
BY DEF Writes, Confined, WellFormed, Clean, Owes, Empty

-----------------------------------------------------------------------------
(* Uploads and activation.                                                 *)

(* reserve_attempt. *)
LEMMA RecordedWrites ==
    ASSUME NEW d, WellFormed(d), NEW x \in Attempts, NEW v \in open, open \subseteq Volumes
    PROVE  Writes(d, Recorded(d, x, v))
<1> DEFINE e == Recorded(d, x, v)
<1>1. e \in Disks
  BY Zenon DEF WellFormed, Disks, Recorded
<1>2. /\ e.obj = d.obj /\ e.held = d.held /\ e.receipt = d.receipt /\ e.mig = d.mig /\ e.state = d.state
      /\ e.rec = d.rec /\ e.retire = d.retire /\ e.resv = [d.resv EXCEPT ![x] = v]
  BY DEF WellFormed, Disks, Recorded
<1>3. d.resv \in [Attempts -> Volumes \cup {None}]
  BY DEF WellFormed, Disks
<1> HIDE DEF e
<1>4. \A y \in Attempts : e.resv[y] = d.resv[y] \/ e.resv[y] = v
  BY <1>2, <1>3
<1>5. Confined(d, e)
  BY <1>2, <1>4, Zenon DEF Confined, Clean, Owes, Empty
<1> QED BY <1>1, <1>2, <1>5 DEF Writes, WellFormed, e

(* The reservation in the volume's database follows the control record. *)
LEMMA ReservedWrites ==
    ASSUME NEW d, WellFormed(d), NEW x \in Attempts, NEW v \in open, open \subseteq Volumes
    PROVE  Writes(d, Reserved(d, x, v)) /\ Reserved(d, x, v).resv[x] = v
<1> DEFINE r == Recorded(d, x, v)
           e == [r EXCEPT !.held = @ \cup {<<v, x>>}]
<1>0. Reserved(d, x, v) = e
  BY DEF Reserved
<1>1. Writes(d, r) /\ r.resv[x] = v
  <2>1. r.resv[x] = v
    BY DEF WellFormed, Disks, Recorded
  <2> QED BY <2>1, RecordedWrites
<1> HIDE DEF r
<1>2. WellFormed(r)
  BY <1>1 DEF Writes
<1>3. e \in Disks
  BY <1>2, SMTT(30) DEF WellFormed, Disks
<1>4. /\ e.obj = r.obj /\ e.held = r.held \cup {<<v, x>>} /\ e.receipt = r.receipt /\ e.mig = r.mig
      /\ e.state = r.state /\ e.rec = r.rec /\ e.retire = r.retire /\ e.resv = r.resv
  BY <1>2 DEF WellFormed, Disks
<1> HIDE DEF e
<1>5. \A u \in Volumes : u # v => \A y : <<u, y>> \in e.held => <<u, y>> \in r.held
  BY <1>4
<1>6. Confined(r, e)
  BY <1>4, <1>5, Zenon DEF Confined, Clean, Owes, Empty
<1>7. Writes(r, e)
  BY <1>2, <1>3, <1>4, <1>6 DEF Writes, WellFormed
<1> QED BY <1>0, <1>1, <1>4, <1>7, WritesCompose

(* finish_attempt_upload puts the bytes into the reserved volume, which is *)
(* open.                                                                   *)
LEMMA StagedWrites ==
    ASSUME NEW d, WellFormed(d), NEW x \in Attempts, UploadVolume(d, x) \in open, open \subseteq Volumes
    PROVE  Writes(d, Staged(d, x))
<1> DEFINE v == UploadVolume(d, x)
           e == Staged(d, x)
           row == IF Empty(d, v) THEN [NoRow EXCEPT !.att = x] ELSE d.obj[v]
<1>1. d \in Disks /\ d.obj \in [Volumes -> Rows] /\ v \in Volumes
  BY DEF WellFormed, Disks
<1>2. row \in Rows
  <2> HIDE DEF v
  <2> QED BY <1>1, Zenon DEF Rows, NoRow
<1>3. e = [d EXCEPT !.obj[v] = row, !.held = @ \ {<<v, x>>}]
  BY <1>1 DEF Staged
<1> HIDE DEF v, e, row
<1>4. e \in Disks
  BY <1>1, <1>2, <1>3, Zenon DEF Disks
<1>5. /\ e.obj = [d.obj EXCEPT ![v] = row] /\ e.held = d.held \ {<<v, x>>}
      /\ e.receipt = d.receipt /\ e.mig = d.mig /\ e.state = d.state
      /\ e.rec = d.rec /\ e.retire = d.retire /\ e.resv = d.resv
  BY <1>1, <1>3 DEF Disks
<1>6. \A u \in Volumes : u # v => e.obj[u] = d.obj[u]
  BY <1>1, <1>5
<1>7. Confined(d, e)
  BY <1>5, <1>6 DEF Confined, Clean, Owes, Empty, v
<1> QED BY <1>4, <1>5, <1>7 DEF Writes, WellFormed, e

(* finish_attempt_upload, write by write. *)
LEMMA FinishWrites ==
    ASSUME NEW d, WellFormed(d), NEW x \in Attempts, UploadVolume(d, x) \in open, open \subseteq Volumes
    PROVE  /\ \A e \in FinishSteps(d, x) : Writes(d, e)
           /\ Finished(d, x).rec[x] \in open
<1> DEFINE v == UploadVolume(d, x)
           s == Staged(d, x)
           r == Received(d, x)
           f == Finished(d, x)
<1>1. Writes(d, s)
  BY StagedWrites
<1>2. r = [s EXCEPT !.rec[x] = v]
  BY DEF Received
<1>3. f = [r EXCEPT !.resv[x] = None]
  BY DEF Finished
<1> HIDE DEF s, r, f, v
<1>4. s \in Disks
  BY <1>1 DEF Writes, WellFormed
<1>5. v \in Volumes /\ v \in open
  BY DEF v
<1>6. r \in Disks
  BY <1>2, <1>4, <1>5, Zenon DEF Disks
<1>7. /\ r.obj = s.obj /\ r.held = s.held /\ r.receipt = s.receipt /\ r.mig = s.mig /\ r.state = s.state
      /\ r.resv = s.resv /\ r.retire = s.retire
      /\ r.rec[x] = v /\ \A y \in Attempts : r.rec[y] = s.rec[y] \/ r.rec[y] = v
  BY <1>2, <1>4 DEF Disks
<1>8. Confined(s, r)
  BY <1>5, <1>7 DEF Confined, Clean, Owes, Empty
<1>9. Writes(s, r)
  BY <1>1, <1>6, <1>7, <1>8 DEF Writes, WellFormed
<1>10. f \in Disks
  BY <1>3, <1>6, Zenon DEF Disks
<1>11. /\ f.obj = r.obj /\ f.held = r.held /\ f.receipt = r.receipt /\ f.mig = r.mig /\ f.state = r.state
       /\ f.rec = r.rec /\ f.retire = r.retire
       /\ \A y \in Attempts : f.resv[y] = r.resv[y] \/ f.resv[y] = None
  BY <1>3, <1>6 DEF Disks
<1>12. Confined(r, f)
  BY <1>11, NoneIsNone, Zenon DEF Confined, Clean, Owes, Empty
<1>13. Writes(r, f)
  BY <1>9, <1>10, <1>11, <1>12 DEF Writes, WellFormed
<1>14. Writes(d, r) /\ Writes(d, f)
  BY <1>1, <1>9, <1>13, WritesCompose
<1>15. f.rec[x] \in open
  BY <1>5, <1>7, <1>11
<1> QED BY <1>1, <1>14, <1>15 DEF FinishSteps, s, r, f

(* activate_attempt_object, write by write. *)
LEMMA ActivateWrites ==
    ASSUME NEW d, WellFormed(d), NEW x \in Attempts, NEW h \in Coding, d.rec[x] \in open, open \subseteq Volumes
    PROVE  /\ \A e \in ActivateSteps(d, x, h) : Writes(d, e)
           /\ Writes(d, Activated(d, x, h))
<1> DEFINE v == d.rec[x]
           r == Ready(d, x, h)
           s == Superseded(d, x, h)
           a == Activated(d, x, h)
           row == [[d.obj[v] EXCEPT !.ready = TRUE] EXCEPT !.hash = h]
           more == IF d.receipt \in {None, v} THEN r.cleanup ELSE r.cleanup \cup {d.receipt}
<1>1. d \in Disks /\ d.obj \in [Volumes -> Rows] /\ v \in Volumes /\ v \in open
      /\ d.receipt \in Volumes \cup {None}
  BY DEF WellFormed, Disks
<1>2. row \in Rows /\ row.att = d.obj[v].att
  <2>1. d.obj[v] \in Rows
    BY <1>1
  <2> HIDE DEF v
  <2> QED BY <2>1, Zenon DEF Rows
<1>3. r = [d EXCEPT !.obj = [d.obj EXCEPT ![v] = row]]
  <2> DEFINE one == [d.obj[v] EXCEPT !.ready = TRUE]
             e == [d EXCEPT !.obj[v].ready = TRUE]
  <2>1. e = [d EXCEPT !.obj = [d.obj EXCEPT ![v] = one]]
    BY <1>1
  <2>2. e.obj = [d.obj EXCEPT ![v] = one]
    BY <1>1, <2>1 DEF Disks
  <2>3. r = [e EXCEPT !.obj[v].hash = h]
    BY DEF Ready
  <2>4. e.obj[v] = one
    BY <1>1, <2>2
  <2>5. r = [e EXCEPT !.obj = [e.obj EXCEPT ![v] = row]]
    <3> HIDE DEF e, r, one
    <3>1. r = [e EXCEPT !.obj = [e.obj EXCEPT ![v] = [e.obj[v] EXCEPT !.hash = h]]]
      BY <2>3
    <3> QED BY <2>4, <3>1 DEF one
  <2>6. [e.obj EXCEPT ![v] = row] = [d.obj EXCEPT ![v] = row]
    <3> HIDE DEF row, one, e
    <3> QED BY <1>1, <2>2
  <2> HIDE DEF one, row
  <2> QED BY <1>1, <2>1, <2>5, <2>6, Zenon DEF Disks
<1>4. s = [r EXCEPT !.cleanup = more]
  BY DEF Superseded
<1>5. a = [s EXCEPT !.receipt = v]
  BY DEF Activated
<1>6. more = r.cleanup \/ (d.receipt \in Volumes /\ more = r.cleanup \cup {d.receipt})
  BY <1>1
<1> HIDE DEF v, r, s, a, row, more
<1>7. r \in Disks
  BY <1>1, <1>2, <1>3, Zenon DEF Disks
<1>8. /\ r.held = d.held /\ r.receipt = d.receipt /\ r.mig = d.mig /\ r.state = d.state
      /\ r.rec = d.rec /\ r.resv = d.resv /\ r.retire = d.retire
      /\ r.obj = [d.obj EXCEPT ![v] = row]
  BY <1>1, <1>3 DEF Disks
<1>9. \A u \in Volumes : r.obj[u].att = d.obj[u].att
  BY <1>1, <1>2, <1>8
<1>10. Writes(d, r)
  BY <1>7, <1>8, <1>9 DEF Writes, WellFormed, Confined, Clean, Owes, Empty
<1>11. more \subseteq Volumes
  BY <1>6, <1>7 DEF Disks
<1>12. s \in Disks
  BY <1>4, <1>7, <1>11 DEF Disks
<1>13. Writes(r, s)
  <2>1. /\ s.obj = r.obj /\ s.held = r.held /\ s.receipt = r.receipt /\ s.mig = r.mig /\ s.state = r.state
        /\ s.rec = r.rec /\ s.resv = r.resv /\ s.retire = r.retire
    BY <1>4, <1>7 DEF Disks
  <2> QED BY <1>10, <1>12, <2>1, WritesNothing DEF Writes
<1>14. a \in Disks
  BY <1>1, <1>5, <1>12, Zenon DEF Disks
<1>15. /\ a.obj = s.obj /\ a.held = s.held /\ a.receipt = v /\ a.mig = s.mig /\ a.state = s.state
       /\ a.rec = s.rec /\ a.resv = s.resv /\ a.retire = s.retire
  BY <1>5, <1>12 DEF Disks
<1>16. Writes(s, a)
  BY <1>1, <1>13, <1>14, <1>15 DEF Writes, WellFormed, Confined, Clean, Owes, Empty
<1>17. Writes(d, s) /\ Writes(d, a)
  BY <1>10, <1>13, <1>16, WritesCompose
<1> QED BY <1>10, <1>17 DEF ActivateSteps, r, s, a

-----------------------------------------------------------------------------
(* Removal of rows.                                                        *)

(* Any set of volumes that is not empty has a first one. *)
LEMMA FirstVolume ==
    ASSUME NEW S \in SUBSET Volumes, S # {}
    PROVE  Min(S) \in S
<1>1. S \in SUBSET Nat
  BY VolumesAssumption DEF Volumes
<1>2. PICK n \in S : \A m \in S : ~(<<m, n>> \in OpToRel(<, Nat))
  BY <1>1, WFMin, NatLessThanWellFounded, Zenon
<1>3. \A m \in S : ~(m < n)
  BY <1>1, <1>2, Zenon DEF OpToRel
<1>4. \E k \in S : \A m \in S : k <= m
  BY <1>1, <1>3
<1> QED BY <1>4, Zenon DEF Min

(* settle_attempt_retirements only deletes records. *)
LEMMA SettleWrites ==
    ASSUME NEW d, WellFormed(d), NEW h
    PROVE  Writes(d, Settle(d, h))
<1> DEFINE done == {x \in Considered(d, h) : RowsGone(d, x)}
           rec == [x \in Attempts |-> IF x \in done THEN None ELSE d.rec[x]]
           retire == [x \in Attempts |-> IF x \in done THEN NoRetirement ELSE d.retire[x]]
           e == Settle(d, h)
<1>1. d \in Disks /\ d.rec \in [Attempts -> Volumes \cup {None}] /\ d.retire \in [Attempts -> Retirements]
  BY DEF WellFormed, Disks
<1>2. e = [d EXCEPT !.rec = rec, !.retire = retire]
  BY <1>1 DEF Settle, Disks
<1>3. /\ rec \in [Attempts -> Volumes \cup {None}] /\ retire \in [Attempts -> Retirements]
      /\ \A x \in Attempts : rec[x] \in {d.rec[x], None} /\ retire[x].vol \in {d.retire[x].vol, None}
  <2>1. NoRetirement \in Retirements /\ NoRetirement.vol = None
    BY DEF NoRetirement, Retirements
  <2> HIDE DEF done
  <2> QED BY <1>1, <2>1
<1> HIDE DEF e, rec, retire, done
<1>4. e \in Disks
  BY <1>1, <1>2, <1>3, Zenon DEF Disks
<1>5. /\ e.obj = d.obj /\ e.held = d.held /\ e.receipt = d.receipt /\ e.mig = d.mig /\ e.state = d.state
      /\ e.resv = d.resv /\ e.rec = rec /\ e.retire = retire
  BY <1>1, <1>2 DEF Disks
<1>6. ASSUME NEW v \in Volumes, Clean(d, v) PROVE Clean(e, v)
  <2>1. v # None
    BY NoneIsNone
  <2>2. ASSUME NEW x \in Attempts
        PROVE  <<v, x>> \notin e.held /\ v \notin {e.rec[x], e.resv[x], e.retire[x].vol}
    <3>1. <<v, x>> \notin d.held /\ v # d.rec[x] /\ v # d.resv[x] /\ v # d.retire[x].vol
      BY <1>6, Zenon DEF Clean, Owes
    <3>2. e.held = d.held /\ e.resv[x] = d.resv[x] /\ e.rec[x] \in {d.rec[x], None}
          /\ e.retire[x].vol \in {d.retire[x].vol, None}
      BY <1>3, <1>5, Zenon
    <3> QED BY <2>1, <3>1, <3>2, Zenon
  <2> QED BY <1>5, <1>6, <2>2, Zenon DEF Clean, Owes, Empty
<1>7. Confined(d, e)
  BY <1>5, <1>6, Zenon DEF Confined
<1> QED BY <1>4, <1>5, <1>7 DEF Writes, WellFormed, e

(* cancel_variable_migration_for_gc. *)
LEMMA CancelWrites ==
    ASSUME NEW d, WellFormed(d), NEW h
    PROVE  Writes(d, CancelMigration(d, h))
<1> DEFINE e == CancelMigration(d, h)
<1>1. d \in Disks
  BY DEF WellFormed
<1>2. CASE e = d
  BY <1>1, <1>2, WritesNothing DEF e
<1>3. CASE e # d
  <2>1. d.mig \in Migrations /\ {d.mig.src, d.mig.dst} \subseteq Volumes
    BY <1>1, <1>3 DEF CancelMigration, WellFormed, Disks
  <2> DEFINE m == [d.mig EXCEPT !.cancelled = TRUE]
  <2>2. m \in Migrations /\ m.src = d.mig.src /\ m.dst = d.mig.dst
    BY <2>1, Zenon DEF Migrations
  <2>3. e = [d EXCEPT !.cleanup = d.cleanup \cup {d.mig.src, d.mig.dst}, !.mig = m]
    BY <1>1, <1>3 DEF CancelMigration, Disks
  <2> HIDE DEF e, m
  <2>4. e \in Disks
    BY <1>1, <2>1, <2>2, <2>3, Zenon DEF Disks
  <2>5. /\ e.obj = d.obj /\ e.held = d.held /\ e.receipt = d.receipt /\ e.mig = m /\ e.state = d.state
        /\ e.resv = d.resv /\ e.rec = d.rec /\ e.retire = d.retire
    BY <1>1, <2>3 DEF Disks
  <2>6. Confined(d, e)
    BY <2>2, <2>5, Zenon DEF Confined, Clean, Owes, Empty
  <2> QED BY <2>1, <2>2, <2>4, <2>5, <2>6 DEF Writes, WellFormed, e
<1> QED BY <1>2, <1>3

(* The visit of the open volumes names, in a retirement, a volume it has   *)
(* just visited.                                                           *)
LEMMA VisitWrites ==
    ASSUME NEW d, WellFormed(d), NEW x, NEW h \in Coding \cup {None}, NEW V, open \subseteq Volumes
    PROVE  Writes(d, Visit(d, x, h, V))
<1> DEFINE old == {v \in V \cap open : Old(d, v, x, h)}
           first(y) == {v \in old : d.obj[v].att = y}
           retire == [y \in Attempts |-> IF d.retire[y].vol = None /\ first(y) # {}
                                         THEN [vol |-> Min(first(y)), hash |-> h] ELSE d.retire[y]]
           obj == [v \in Volumes |-> IF v \in old /\ d.obj[v].ready THEN NoRow ELSE d.obj[v]]
           e == Visit(d, x, h, V)
<1>1. d \in Disks /\ d.obj \in [Volumes -> Rows] /\ d.retire \in [Attempts -> Retirements]
  BY DEF WellFormed, Disks
<1>2. e = [d EXCEPT !.retire = retire, !.obj = obj]
  BY <1>1 DEF Visit, Disks
<1>3. \A y : first(y) # {} => Min(first(y)) \in open
  <2>1. old \subseteq open
    OBVIOUS
  <2> HIDE DEF old
  <2>2. \A y : first(y) \in SUBSET Volumes /\ first(y) \subseteq open
    BY <2>1
  <2> HIDE DEF first
  <2> QED BY <2>2, FirstVolume
<1> HIDE DEF old, first
<1>4. /\ retire \in [Attempts -> Retirements]
      /\ \A y \in Attempts : retire[y].vol = d.retire[y].vol \/ retire[y].vol \in open
  <2>1. \A y : first(y) # {} => [vol |-> Min(first(y)), hash |-> h] \in Retirements
    BY <1>3 DEF Retirements
  <2>2. \A y \in Attempts : retire[y] \in Retirements
    BY <1>1, <2>1
  <2>3. \A y \in Attempts : retire[y].vol = d.retire[y].vol \/ retire[y].vol \in open
    BY <1>3
  <2> QED BY <2>2, <2>3
<1>5. /\ obj \in [Volumes -> Rows]
      /\ \A v \in Volumes : obj[v].att \in {d.obj[v].att, None}
  <2>1. NoRow \in Rows /\ NoRow.att = None
    BY DEF NoRow, Rows
  <2> QED BY <1>1, <2>1
<1> HIDE DEF retire, obj, e
<1>6. e \in Disks
  BY <1>1, <1>2, <1>4, <1>5, Zenon DEF Disks
<1>7. /\ e.obj = obj /\ e.held = d.held /\ e.receipt = d.receipt /\ e.mig = d.mig /\ e.state = d.state
      /\ e.resv = d.resv /\ e.rec = d.rec /\ e.retire = retire
  BY <1>1, <1>2 DEF Disks
<1>8. Confined(d, e)
  BY <1>4, <1>5, <1>7, Zenon DEF Confined, Clean, Owes, Empty
<1> QED BY <1>6, <1>7, <1>8 DEF Writes, WellFormed, e

(* The records of the visit: what is left over, and failed volumes. *)
LEMMA VisitedWrites ==
    ASSUME NEW d, WellFormed(d), NEW x, NEW h \in Coding \cup {None}, open \subseteq Volumes
    PROVE  Writes(d, Visited(d, x, h))
<1> DEFINE e == Visit(d, x, h, Volumes)
           state == [v \in Volumes |-> IF v \in Refused(d, x, h) THEN "Failed" ELSE e.state[v]]
           f == Visited(d, x, h)
<1>1. Writes(d, e)
  BY VisitWrites
<1>2. f = [e EXCEPT !.cleanup = Leftover(d, x, h), !.state = state]
  BY DEF Visited
<1>3. Leftover(d, x, h) \subseteq Volumes
  BY DEF Leftover, Refused, WellFormed, Disks
<1> HIDE DEF e, f
<1>4. e \in Disks /\ e.state \in [Volumes -> VolumeStates]
  BY <1>1 DEF Writes, WellFormed, Disks
<1>5. state \in [Volumes -> VolumeStates] /\ \A v \in Volumes : state[v] = "Retired" => e.state[v] = "Retired"
  BY <1>4 DEF VolumeStates
<1> HIDE DEF state
<1>6. f \in Disks
  BY <1>2, <1>3, <1>4, <1>5, Zenon DEF Disks
<1>7. /\ f.obj = e.obj /\ f.held = e.held /\ f.receipt = e.receipt /\ f.mig = e.mig /\ f.state = state
      /\ f.resv = e.resv /\ f.rec = e.rec /\ f.retire = e.retire
  BY <1>2, <1>4 DEF Disks
<1>8. Writes(e, f)
  BY <1>1, <1>5, <1>6, <1>7, WritesNothing DEF Writes
<1> QED BY <1>1, <1>8, WritesCompose DEF f

(* Deleting the active receipt. *)
LEMMA DropReceiptWrites ==
    ASSUME NEW d, WellFormed(d), NEW clear
    PROVE  Writes(d, DropReceipt(d, clear))
<1> DEFINE e == DropReceipt(d, clear)
<1>1. d \in Disks
  BY DEF WellFormed
<1>2. CASE clear
  <2>1. e = [d EXCEPT !.receipt = None]
    BY <1>2 DEF DropReceipt
  <2> HIDE DEF e
  <2>2. e \in Disks
    BY <1>1, <2>1 DEF Disks
  <2>3. /\ e.obj = d.obj /\ e.held = d.held /\ e.receipt = None /\ e.mig = d.mig /\ e.state = d.state
        /\ e.resv = d.resv /\ e.rec = d.rec /\ e.retire = d.retire
    BY <1>1, <2>1 DEF Disks
  <2>4. Confined(d, e)
    BY <2>3, NoneIsNone, Zenon DEF Confined, Clean, Owes, Empty
  <2> QED BY <2>2, <2>3, <2>4 DEF Writes, WellFormed, e
<1>3. CASE ~clear
  <2>1. e = d
    BY <1>3 DEF DropReceipt
  <2> QED BY <1>1, <2>1, WritesNothing
<1> QED BY <1>2, <1>3

(* Deleting the transfer, and with it the obligations it came with. *)
LEMMA DropMigrationWrites ==
    ASSUME NEW d, WellFormed(d), NEW c \in SUBSET Volumes
    PROVE  Writes(d, [d EXCEPT !.mig = NoMigration, !.cleanup = c])
<1> DEFINE e == [d EXCEPT !.mig = NoMigration, !.cleanup = c]
<1>1. d \in Disks
  BY DEF WellFormed
<1>2. NoMigration \in Migrations /\ NoMigration.src = None
  BY DEF NoMigration, Migrations
<1>3. e \in Disks
  BY <1>1, <1>2, Zenon DEF Disks
<1>4. /\ e.obj = d.obj /\ e.held = d.held /\ e.receipt = d.receipt /\ e.mig = NoMigration
      /\ e.state = d.state /\ e.resv = d.resv /\ e.rec = d.rec /\ e.retire = d.retire
  BY <1>1 DEF Disks
<1> HIDE DEF e
<1>5. Confined(d, e)
  BY <1>2, <1>4, NoneIsNone, Zenon DEF Confined, Clean, Owes, Empty
<1> QED BY <1>3, <1>4, <1>5 DEF Writes, WellFormed, e

(* remove_unreachable_matching_attempt, write by write. *)
LEMMA RemovalWrites ==
    ASSUME NEW d, WellFormed(d), NEW x, NEW h \in Coding \cup {None}, open \subseteq Volumes
    PROVE  /\ Writes(d, CancelMigration(d, h)) /\ Writes(d, RemovalStart(d, h))
           /\ \A e \in RemovalSteps(d, x, h) : Writes(d, e)
           /\ Writes(d, Removed(d, x, h))
<1>1. Writes(d, CancelMigration(d, h)) /\ Writes(d, RemovalStart(d, h))
  <2>1. Writes(d, CancelMigration(d, h))
    BY CancelWrites
  <2>2. Writes(CancelMigration(d, h), Settle(CancelMigration(d, h), h))
    BY <2>1, SettleWrites DEF Writes
  <2> QED BY <2>1, <2>2, WritesCompose DEF RemovalStart
<1> DEFINE e1 == Visited(d, x, h)
           e2 == Settle(e1, h)
           e3 == RemovalLocated(d, x, h)
           e4 == Removed(d, x, h)
<1>2. Writes(d, e1)
  BY VisitedWrites
<1>3. Writes(e1, e2)
  <2> HIDE DEF e1
  <2> QED BY <1>2, SettleWrites DEF Writes
<1>4. Writes(d, e2)
  <2> HIDE DEF e1, e2
  <2> QED BY <1>2, <1>3, WritesCompose
<1>5. e3 = DropReceipt(e2, RemovalClear(d, x, h) /\ Newer(d, x, h) = {})
  BY DEF RemovalLocated
<1>6. Writes(d, e3)
  <2> HIDE DEF e2, e3
  <2>1. Writes(e2, e3)
    BY <1>4, <1>5, DropReceiptWrites DEF Writes
  <2> QED BY <1>4, <2>1, WritesCompose
<1>7. Writes(d, e4)
  <2>1. e4 = DropMigration(e3, h, RemovalClear(d, x, h))
    BY DEF Removed
  <2> HIDE DEF e3, e4
  <2>2. e4 = e3 \/ e4 = [e3 EXCEPT !.mig = NoMigration]
    BY <2>1 DEF DropMigration
  <2>3. [e3 EXCEPT !.mig = NoMigration] = [e3 EXCEPT !.mig = NoMigration, !.cleanup = e3.cleanup]
        /\ e3.cleanup \subseteq Volumes
    BY <1>6, Zenon DEF Writes, WellFormed, Disks
  <2>4. Writes(e3, [e3 EXCEPT !.mig = NoMigration])
    BY <1>6, <2>3, DropMigrationWrites, Zenon DEF Writes
  <2> QED BY <1>6, <2>2, <2>4, WritesCompose
<1>8. Writes(d, d)
  BY WritesNothing DEF WellFormed
<1>9. \A k \in Volumes : Writes(d, Visit(d, x, h, 1 .. k))
  BY VisitWrites
<1> HIDE DEF e1, e2, e3, e4
<1> QED BY <1>1, <1>2, <1>4, <1>6, <1>7, <1>8, <1>9 DEF RemovalSteps, e1, e2, e3, e4

-----------------------------------------------------------------------------
(* Discarding an attempt.                                                  *)

(* Deleting the receipt of an attempt, as finalize_attempt does. *)
LEMMA FinalizeWrites ==
    ASSUME NEW d, WellFormed(d), NEW x \in Attempts
    PROVE  Writes(d, [d EXCEPT !.rec[x] = None])
<1> DEFINE e == [d EXCEPT !.rec[x] = None]
<1>1. d \in Disks
  BY DEF WellFormed
<1>2. e \in Disks
  BY <1>1, Zenon DEF Disks
<1>3. /\ e.obj = d.obj /\ e.held = d.held /\ e.receipt = d.receipt /\ e.mig = d.mig /\ e.state = d.state
      /\ e.resv = d.resv /\ e.retire = d.retire
      /\ \A y \in Attempts : e.rec[y] \in {d.rec[y], None}
  BY <1>1 DEF Disks
<1> HIDE DEF e
<1>4. Confined(d, e)
  BY <1>3, NoneIsNone DEF Confined, Clean, Owes, Empty
<1> QED BY <1>2, <1>3, <1>4 DEF Writes, WellFormed, e

(* Deleting its reservation record. *)
LEMMA DropReservationWrites ==
    ASSUME NEW d, WellFormed(d), NEW x \in Attempts
    PROVE  Writes(d, [d EXCEPT !.resv[x] = None])
<1> DEFINE e == [d EXCEPT !.resv[x] = None]
<1>1. d \in Disks
  BY DEF WellFormed
<1>2. e \in Disks
  BY <1>1, Zenon DEF Disks
<1>3. /\ e.obj = d.obj /\ e.held = d.held /\ e.receipt = d.receipt /\ e.mig = d.mig /\ e.state = d.state
      /\ e.rec = d.rec /\ e.retire = d.retire
      /\ \A y \in Attempts : e.resv[y] \in {d.resv[y], None}
  BY <1>1 DEF Disks
<1> HIDE DEF e
<1>4. Confined(d, e)
  BY <1>3, NoneIsNone DEF Confined, Clean, Owes, Empty
<1> QED BY <1>2, <1>3, <1>4 DEF Writes, WellFormed, e

(* The transfer of a discarded attempt is cancelled first. *)
LEMMA CancelForWrites ==
    ASSUME NEW d, WellFormed(d), NEW x \in Attempts
    PROVE  Writes(d, CancelFor(d, x))
<1> DEFINE e == CancelFor(d, x)
           m == [d.mig EXCEPT !.cancelled = TRUE]
<1>1. d \in Disks
  BY DEF WellFormed
<1>2. CASE d.mig.att # x
  <2>1. e = d
    BY <1>2 DEF CancelFor
  <2> QED BY <1>1, <2>1, WritesNothing
<1>3. CASE d.mig.att = x
  <2>1. d.mig # NoMigration
    BY <1>3, NoneIsNone DEF NoMigration
  <2>2. e = [d EXCEPT !.mig = m]
    BY <1>3 DEF CancelFor
  <2>3. m \in Migrations /\ m.src = d.mig.src /\ m.dst = d.mig.dst
    BY <1>1, Zenon DEF Disks, Migrations
  <2> HIDE DEF e, m
  <2>4. e \in Disks
    BY <1>1, <2>2, <2>3 DEF Disks
  <2>5. /\ e.obj = d.obj /\ e.held = d.held /\ e.receipt = d.receipt /\ e.mig = m /\ e.state = d.state
        /\ e.resv = d.resv /\ e.rec = d.rec /\ e.retire = d.retire
    BY <1>1, <2>2 DEF Disks
  <2>6. Confined(d, e)
    BY <2>3, <2>5, Zenon DEF Confined, Clean, Owes, Empty
  <2> QED BY <2>1, <2>3, <2>4, <2>5, <2>6 DEF Writes, WellFormed, e
<1> QED BY <1>2, <1>3

(* Its rows and reservations go from the open volumes. *)
LEMMA WipeWrites ==
    ASSUME NEW d, WellFormed(d), NEW x, NEW V
    PROVE  Writes(d, Wipe(d, x, V))
<1> DEFINE obj == [v \in Volumes |-> IF v \in V \cap open /\ d.obj[v].att = x THEN NoRow ELSE d.obj[v]]
           held == d.held \ ((V \cap open) \X {x})
           e == Wipe(d, x, V)
<1>1. d \in Disks /\ d.obj \in [Volumes -> Rows]
  BY DEF WellFormed, Disks
<1>2. e = [d EXCEPT !.obj = obj, !.held = held]
  BY <1>1 DEF Wipe, Disks
<1>3. obj \in [Volumes -> Rows] /\ \A v \in Volumes : obj[v].att \in {d.obj[v].att, None}
  <2>1. NoRow \in Rows /\ NoRow.att = None
    BY DEF NoRow, Rows
  <2> QED BY <1>1, <2>1
<1>4. held \subseteq d.held
  OBVIOUS
<1> HIDE DEF obj, held, e
<1>5. e \in Disks
  BY <1>1, <1>2, <1>3, <1>4, Zenon DEF Disks
<1>6. /\ e.obj = obj /\ e.held = held /\ e.receipt = d.receipt /\ e.mig = d.mig /\ e.state = d.state
      /\ e.resv = d.resv /\ e.rec = d.rec /\ e.retire = d.retire
  BY <1>1, <1>2 DEF Disks
<1>7. Confined(d, e)
  BY <1>3, <1>4, <1>6 DEF Confined, Clean, Owes, Empty
<1> QED BY <1>5, <1>6, <1>7 DEF Writes, WellFormed, e

(* discard_attempt, write by write. *)
LEMMA DiscardWrites ==
    ASSUME NEW d, WellFormed(d), NEW x \in Attempts
    PROVE  /\ \A e \in DiscardSteps(d, x) : Writes(d, e)
           /\ Writes(d, Discarded(d, x))
<1> DEFINE d0 == CancelFor(d, x)
           d1 == Wipe(d0, x, Volumes)
           d2 == DropActive(d1, x)
           d3 == DropRecord(d2, x)
           d4 == DropReservation(d3, x)
           d5 == DropCancelled(d4, x, Required(d, x) \subseteq open)
<1>1. Writes(d, d0)
  BY CancelForWrites
<1>2. Writes(d0, d1) /\ \A k \in Volumes : Writes(d0, Wipe(d0, x, 1 .. k))
  <2> HIDE DEF d0
  <2> QED BY <1>1, WipeWrites DEF Writes
<1>3. Writes(d1, d2)
  <2>1. d2 = DropReceipt(d1, d1.rec[x] \in open)
    BY DEF DropActive
  <2> HIDE DEF d1, d2
  <2> QED BY <1>2, <2>1, DropReceiptWrites DEF Writes
<1>4. Writes(d2, d3)
  <2>1. d3 = d2 \/ d3 = [d2 EXCEPT !.rec[x] = None]
    BY DEF DropRecord
  <2> HIDE DEF d2, d3
  <2>2. Writes(d2, d2)
    BY <1>3, WritesNothing DEF Writes, WellFormed
  <2> QED BY <1>3, <2>1, <2>2, FinalizeWrites DEF Writes
<1>5. Writes(d3, d4)
  <2>1. d4 = d3 \/ d4 = [d3 EXCEPT !.resv[x] = None]
    BY DEF DropReservation
  <2> HIDE DEF d3, d4
  <2>2. Writes(d3, d3)
    BY <1>4, WritesNothing, Zenon DEF Writes, WellFormed
  <2> QED BY <1>4, <2>1, <2>2, DropReservationWrites DEF Writes
<1>6. Writes(d4, d5)
  <2> DEFINE c == d4.cleanup \ {d4.mig.src, d4.mig.dst}
  <2>1. d5 = d4 \/ d5 = [d4 EXCEPT !.mig = NoMigration, !.cleanup = c]
    BY DEF DropCancelled
  <2> HIDE DEF d4, d5
  <2>2. Writes(d4, d4)
    BY <1>5, WritesNothing, Zenon DEF Writes, WellFormed
  <2>3. c \in SUBSET Volumes /\ WellFormed(d4)
    BY <1>5 DEF Writes, WellFormed, Disks
  <2> HIDE DEF c
  <2> QED BY <2>1, <2>2, <2>3, DropMigrationWrites, Zenon
<1>7. /\ DiscardSteps(d, x) \subseteq {d0, d1, d2, d3, d4, Discarded(d, x)} \cup {Wipe(d0, x, 1 .. k) : k \in Volumes}
      /\ Discarded(d, x) \in {d1, d5}
  BY DEF DiscardSteps, Discarded
<1> HIDE DEF d0, d1, d2, d3, d4, d5
<1>8. Writes(d, d1) /\ \A k \in Volumes : Writes(d, Wipe(d0, x, 1 .. k))
  BY <1>1, <1>2, WritesCompose
<1>9. Writes(d, d2)
  BY <1>8, <1>3, WritesCompose
<1>10. Writes(d, d3)
  BY <1>9, <1>4, WritesCompose
<1>11. Writes(d, d4)
  BY <1>10, <1>5, WritesCompose
<1>12. Writes(d, d5)
  BY <1>11, <1>6, WritesCompose
<1> QED BY <1>1, <1>7, <1>8, <1>9, <1>10, <1>11, <1>12

-----------------------------------------------------------------------------
(* Repair.                                                                 *)

(* prepare_variable_repair, write by write. *)
LEMMA PreparedWrites ==
    ASSUME NEW d, WellFormed(d), open \subseteq Volumes
    PROVE  Writes(d, Suspected(d)) /\ Writes(d, Unlocated(d)) /\ Writes(d, Prepared(d))
<1> DEFINE c == IF d.receipt # None /\ (d.receipt \notin open \/ Damaged(d))
                  THEN d.cleanup \cup {d.receipt} ELSE d.cleanup
           s == Suspected(d)
           u == Unlocated(d)
           p == Prepared(d)
<1>1. d \in Disks
  BY DEF WellFormed
<1>2. c \subseteq Volumes
  BY <1>1 DEF Disks
<1>3. s = [d EXCEPT !.cleanup = c]
  BY DEF Suspected
<1>4. u = DropReceipt(s, TRUE)
  BY DEF Unlocated
<1>5. p = u \/ (d.receipt \in Volumes /\ p = [u EXCEPT !.state[d.receipt] = "Failed"])
  BY DEF Prepared, Damaged
<1> HIDE DEF c, s, u, p
<1>6. Writes(d, s)
  <2>1. s \in Disks
    BY <1>1, <1>2, <1>3 DEF Disks
  <2>2. /\ s.obj = d.obj /\ s.held = d.held /\ s.receipt = d.receipt /\ s.mig = d.mig /\ s.state = d.state
        /\ s.resv = d.resv /\ s.rec = d.rec /\ s.retire = d.retire
    BY <1>1, <1>3 DEF Disks
  <2> QED BY <2>1, <2>2, WritesNothing
<1>7. Writes(d, u)
  <2>1. Writes(s, u)
    BY <1>4, <1>6, DropReceiptWrites, Zenon DEF Writes
  <2> QED BY <1>6, <2>1, WritesCompose
<1>8. CASE p = u
  BY <1>6, <1>7, <1>8 DEF s, u, p
<1>9. CASE d.receipt \in Volumes /\ p = [u EXCEPT !.state[d.receipt] = "Failed"]
  <2>1. u \in Disks
    BY <1>7 DEF Writes, WellFormed
  <2>2. p \in Disks
    BY <1>9, <2>1, Zenon DEF Disks, VolumeStates
  <2>3. /\ p.obj = u.obj /\ p.held = u.held /\ p.receipt = u.receipt /\ p.mig = u.mig
        /\ p.resv = u.resv /\ p.rec = u.rec /\ p.retire = u.retire
        /\ p.state = [u.state EXCEPT ![d.receipt] = "Failed"]
    BY <1>9, <2>1 DEF Disks
  <2>4. \A v \in Volumes : p.state[v] = "Retired" => u.state[v] = "Retired"
    BY <1>9, <2>1, <2>3 DEF Disks
  <2>5. Writes(u, p)
    BY <1>7, <2>2, <2>3, <2>4, WritesNothing, Zenon DEF Writes
  <2> QED BY <1>6, <1>7, <2>5, WritesCompose DEF s, u, p
<1> QED BY <1>5, <1>8, <1>9

-----------------------------------------------------------------------------
(* The inductive invariant.                                                *)

(* A retired volume is closed, and nothing leads to it: no write of an     *)
(* operation can reach it.                                                 *)
RetiredIsClosed ==
    \A v \in Volumes : disk.state[v] = "Retired" => v \notin open /\ Clean(disk, v)

(* What TypeOK says of the guild and of the node's memory. *)
Bookkeeping ==
    /\ life \in [Coding -> Lives]
    /\ known \in [Coding -> {"none", "added", "forgotten"}]
    /\ acked \subseteq Coding
    /\ used \subseteq Repairs
    /\ settled \subseteq Coding
    /\ setting \in Settings

Holding == WellFormed(disk) /\ open \subseteq Volumes /\ RetiredIsClosed /\ Bookkeeping

(* An operation that leaves the open volumes alone and whose outcome is a  *)
(* write in the sense above.                                               *)
LEMMA OperationKeeps ==
    ASSUME Holding, Writes(disk, disk'), open' = open, Bookkeeping'
    PROVE  Holding'
<1>1. WellFormed(disk') /\ open' \subseteq Volumes
  BY DEF Holding, Writes
<1>2. RetiredIsClosed'
  BY DEF Holding, RetiredIsClosed, Writes, Confined
<1> QED BY <1>1, <1>2 DEF Holding

(* The initial state: volumes that are not in use count as retired. *)
LEMMA InitHolds == Init => Holding
<1> SUFFICES ASSUME Init PROVE Holding
  OBVIOUS
<1>1. NoRow \in Rows /\ NoRow.att = None
  BY DEF NoRow, Rows
<1>2. NoMigration \in Migrations /\ NoMigration.src = None
  BY DEF NoMigration, Migrations
<1>3. NoRetirement \in Retirements /\ NoRetirement.vol = None
  BY DEF NoRetirement, Retirements
<1>4. open \subseteq Volumes
  BY DEF Init
<1>5. (IF Emergency THEN {1} ELSE {}) \subseteq Coding
  BY VolumesAssumption DEF Coding
<1>6. /\ disk.obj = [v \in Volumes |-> NoRow] /\ disk.held = {} /\ disk.receipt = None
      /\ disk.mig = NoMigration /\ disk.resv = [x \in Attempts |-> None]
      /\ disk.rec = [x \in Attempts |-> None] /\ disk.retire = [x \in Attempts |-> NoRetirement]
      /\ disk.state = [v \in Volumes |-> IF v \in open THEN "Online" ELSE "Retired"]
  BY Zenon DEF Init
<1>7. disk \in Disks
  <2>1. disk.state \in [Volumes -> VolumeStates]
    BY <1>6 DEF VolumeStates
  <2> HIDE DEF NoRow, NoMigration, NoRetirement
  <2> QED BY <1>1, <1>2, <1>3, <1>5, <1>6, <2>1, Zenon DEF Init, Disks
<1>8. WellFormed(disk)
  BY <1>6, <1>7 DEF WellFormed
<1>9. RetiredIsClosed
  BY <1>1, <1>2, <1>3, <1>6, NoneIsNone, Zenon DEF RetiredIsClosed, Clean, Owes, Empty
<1>10. Bookkeeping
  BY DEF Init, Bookkeeping, Lives
<1> QED BY <1>4, <1>8, <1>9, <1>10 DEF Holding

(* Records that name no volume. *)
LEMMA MarksWrite ==
    ASSUME NEW d, WellFormed(d), NEW s \in SUBSET Coding, NEW r \in Repairs \cup {None}, NEW b \in BOOLEAN
    PROVE  /\ Writes(d, [d EXCEPT !.transcript = s]) /\ Writes(d, [d EXCEPT !.oblig = s])
           /\ Writes(d, [d EXCEPT !.repair = r]) /\ Writes(d, [d EXCEPT !.marker = b])
           /\ Writes(d, [d EXCEPT !.repair = r, !.marker = b])
<1> DEFINE Marked == {[d EXCEPT !.transcript = s], [d EXCEPT !.oblig = s], [d EXCEPT !.repair = r],
                      [d EXCEPT !.marker = b], [d EXCEPT !.repair = r, !.marker = b]}
<1>1. ASSUME NEW e \in Marked PROVE Writes(d, e)
  <2>1. d \in Disks
    BY DEF WellFormed
  <2>2. e \in Disks
    <3>1. [d EXCEPT !.transcript = s] \in Disks /\ [d EXCEPT !.oblig = s] \in Disks
      BY <2>1, Zenon DEF Disks
    <3>2. [d EXCEPT !.repair = r] \in Disks /\ [d EXCEPT !.marker = b] \in Disks
      BY <2>1, Zenon DEF Disks
    <3>3. [d EXCEPT !.repair = r, !.marker = b] \in Disks
      BY <2>1, Zenon DEF Disks
    <3> QED BY <3>1, <3>2, <3>3
  <2>3. /\ e.obj = d.obj /\ e.held = d.held /\ e.receipt = d.receipt /\ e.mig = d.mig /\ e.state = d.state
        /\ e.resv = d.resv /\ e.rec = d.rec /\ e.retire = d.retire
    BY <2>1, ZenonT(30) DEF Disks
  <2> QED BY <2>2, <2>3, WritesNothing
<1> QED BY <1>1

-----------------------------------------------------------------------------
(* One lemma per group of actions.                                         *)

(* The guild's log and its installation. *)
LEMMA GuildStepHolds ==
    ASSUME Holding, GuildStep
    PROVE  Holding'
<1>0. PICK x \in Coding : \/ Plan(x) \/ Abort(x) \/ Certify(x)
                          \/ InstallAdd(x) \/ InstallAddAgain(x) \/ InstallForget(x)
  BY DEF GuildStep
<1>1. x \in Attempts /\ WellFormed(disk) /\ disk \in Disks
  BY DEF Attempts, Holding, WellFormed
<1>2. disk.transcript \cup {x} \in SUBSET Coding /\ disk.oblig \cup {x} \in SUBSET Coding
  BY <1>1 DEF Disks
<1>3. CASE Plan(x) \/ Abort(x) \/ Certify(x)
  <2>1. disk' = disk /\ open' = open
    BY <1>3 DEF Plan, Abort, Certify
  <2>2. Writes(disk, disk')
    BY <1>1, <2>1, WritesNothing
  <2>3. \E k \in Lives : life' = [life EXCEPT ![x] = k]
    BY <1>3 DEF Plan, Abort, Certify, Lives
  <2>4. Bookkeeping'
    BY <1>3, <2>3 DEF Holding, Bookkeeping, Plan, Abort, Certify
  <2> QED BY <2>1, <2>2, <2>4, OperationKeeps
<1>4. CASE InstallAdd(x)
  <2> DEFINE e == [disk EXCEPT !.transcript = disk.transcript \cup {x}]
  <2>1. Writes(disk, e)
    BY <1>1, <1>2, MarksWrite, Zenon
  <2>2. disk' = e \/ disk' = [e EXCEPT !.rec[x] = None]
    BY <1>4 DEF InstallAdd, Performs, FinalizeAttempt
  <2> HIDE DEF e
  <2>3. Writes(e, [e EXCEPT !.rec[x] = None])
    BY <1>1, <2>1, FinalizeWrites DEF Writes
  <2>4. Writes(disk, disk')
    BY <2>1, <2>2, <2>3, WritesCompose
  <2>5. open' = open /\ Bookkeeping'
    BY <1>4 DEF InstallAdd, Holding, Bookkeeping
  <2> QED BY <2>4, <2>5, OperationKeeps, Zenon
<1>5. CASE InstallAddAgain(x)
  <2>1. Writes(disk, disk')
    BY <1>1, <1>5, FinalizeWrites DEF InstallAddAgain, FinalizeAttempt
  <2>2. open' = open /\ Bookkeeping'
    BY <1>5, Zenon DEF InstallAddAgain, guildVars, Holding, Bookkeeping
  <2> QED BY <2>1, <2>2, OperationKeeps
<1>6. CASE InstallForget(x)
  <2>1. Writes(disk, disk')
    BY <1>1, <1>2, <1>6, MarksWrite, Zenon DEF InstallForget
  <2>2. open' = open /\ Bookkeeping'
    BY <1>6 DEF InstallForget, Holding, Bookkeeping
  <2> QED BY <2>1, <2>2, OperationKeeps
<1> QED BY <1>0, <1>3, <1>4, <1>5, <1>6

(* Uploads of the coordinator. *)
LEMMA UploadHolds ==
    ASSUME Holding, NEW x \in Coding, UploadParity(x)
    PROVE  Holding'
<1>1. x \in Attempts /\ WellFormed(disk) /\ open \subseteq Volumes
  BY DEF Attempts, Holding
<1>2. open' = open /\ Bookkeeping'
  BY DEF UploadParity, guildVars, Holding, Bookkeeping
<1>3. Writes(disk, disk')
  <2>1. CASE \E v \in Volumes : /\ MayReserve(disk, x, v)
                                /\ Performs({Recorded(disk, x, v)}, Reserved(disk, x, v))
    <3>1. PICK v \in Volumes : v \in open /\ disk' \in {Recorded(disk, x, v), Reserved(disk, x, v)}
      BY <2>1 DEF MayReserve, Performs
    <3> QED BY <1>1, <3>1, RecordedWrites, ReservedWrites
  <2>2. CASE MayFinish(disk, x) /\ Performs(FinishSteps(disk, x), Finished(disk, x))
    <3>1. UploadVolume(disk, x) \in open /\ disk' \in FinishSteps(disk, x)
      BY <2>2 DEF MayFinish, Performs, FinishSteps
    <3> QED BY <1>1, <3>1, FinishWrites
  <2> QED BY <2>1, <2>2, Zenon DEF UploadParity
<1> QED BY <1>2, <1>3, OperationKeeps

(* activate_verified_coding_attempt. *)
LEMMA ActivationHolds ==
    ASSUME Holding, NEW x \in Coding, ActivateCoding(x)
    PROVE  Holding'
<1> DEFINE a == Activated(disk, x, x)
<1>1. x \in Attempts /\ WellFormed(disk) /\ open \subseteq Volumes
  BY DEF Attempts, Holding
<1>2. open' = open /\ Bookkeeping'
  BY DEF ActivateCoding, Holding, Bookkeeping
<1>3. disk.rec[x] \in open
  BY DEF ActivateCoding, MayActivate
<1>4. Writes(disk, a) /\ \A e \in ActivateSteps(disk, x, x) : Writes(disk, e)
  BY <1>1, <1>3, ActivateWrites
<1>5. disk' \in ActivateSteps(disk, x, x) \/ disk' = [a EXCEPT !.transcript = a.transcript \cup {x}]
  BY Zenon DEF ActivateCoding
<1> HIDE DEF a
<1>6. a.transcript \cup {x} \in SUBSET Coding
  BY <1>4, Zenon DEF Writes, WellFormed, Disks
<1>7. Writes(a, [a EXCEPT !.transcript = a.transcript \cup {x}])
  BY <1>4, <1>6, MarksWrite, Zenon DEF Writes
<1>8. Writes(disk, disk')
  BY <1>4, <1>5, <1>7, WritesCompose
<1> QED BY <1>2, <1>8, OperationKeeps

(* discard_coding_attempt, wherever it is cut. *)
LEMMA DiscardHolds ==
    ASSUME Holding, NEW x \in Coding, DiscardCoding(x)
    PROVE  Holding'
<1> DEFINE owed == [disk EXCEPT !.oblig = disk.oblig \cup {x}]
           d == Discarded(disk, x)
           start == RemovalStart(d, x)
           r == Removed(start, x, x)
<1>1. x \in Attempts /\ WellFormed(disk) /\ open \subseteq Volumes /\ disk \in Disks
  BY DEF Attempts, Holding, WellFormed
<1>2. open' = open /\ Bookkeeping'
  BY DEF DiscardCoding, Holding, Bookkeeping
<1>3. Writes(disk, owed) /\ Writes(disk, [owed EXCEPT !.rec[x] = None])
  <2>1. disk.oblig \cup {x} \in SUBSET Coding
    BY <1>1, Zenon DEF Disks
  <2>2. Writes(disk, owed)
    BY <1>1, <2>1, MarksWrite, Zenon
  <2> HIDE DEF owed
  <2>3. Writes(owed, [owed EXCEPT !.rec[x] = None])
    BY <1>1, <2>2, FinalizeWrites DEF Writes
  <2> QED BY <2>2, <2>3, WritesCompose
<1>4. Writes(disk, d) /\ \A e \in DiscardSteps(disk, x) : Writes(disk, e)
  BY <1>1, DiscardWrites
<1>5. Writes(disk, CancelMigration(d, x)) /\ Writes(disk, start)
  <2> HIDE DEF d
  <2> QED BY <1>1, <1>4, RemovalWrites, WritesCompose DEF Writes
<1>6. Writes(disk, r) /\ \A e \in RemovalSteps(start, x, x) : Writes(disk, e)
  <2> HIDE DEF start
  <2>1. WellFormed(start)
    BY <1>5 DEF Writes
  <2>2. Writes(start, r) /\ \A e \in RemovalSteps(start, x, x) : Writes(start, e)
    BY <1>1, <2>1, RemovalWrites
  <2> QED BY <1>5, <2>2, WritesCompose
<1>7. \/ disk' \in {owed, [owed EXCEPT !.rec[x] = None]}
      \/ disk' \in DiscardSteps(disk, x) \cup {CancelMigration(d, x)} \cup RemovalSteps(start, x, x) \cup {d, r}
      \/ disk' = [d EXCEPT !.oblig = d.oblig \ {x}]
      \/ disk' = [r EXCEPT !.oblig = r.oblig \ {x}]
  BY DEF DiscardCoding, Performs, FinalizeAttempt
<1> HIDE DEF owed, d, start, r
<1>8. \A e : Writes(disk, e) => Writes(disk, [e EXCEPT !.oblig = e.oblig \ {x}])
  <2>1. ASSUME NEW e, Writes(disk, e) PROVE Writes(disk, [e EXCEPT !.oblig = e.oblig \ {x}])
    <3>1. e.oblig \ {x} \in SUBSET Coding
      BY <2>1, Zenon DEF Writes, WellFormed, Disks
    <3>2. Writes(e, [e EXCEPT !.oblig = e.oblig \ {x}])
      BY <2>1, <3>1, MarksWrite, Zenon DEF Writes
    <3> QED BY <2>1, <3>2, WritesCompose
  <2> QED BY <2>1
<1>9. Writes(disk, disk')
  BY <1>3, <1>4, <1>5, <1>6, <1>7, <1>8
<1> QED BY <1>2, <1>9, OperationKeeps

(* install_repaired_variable_shard, wherever it is cut. *)
LEMMA RepairHolds ==
    ASSUME Holding, NEW x \in Coding, NEW r \in Repairs, NEW v \in Volumes, Repair(x, r, v)
    PROVE  Holding'
<1> DEFINE begun == [disk EXCEPT !.repair = r, !.marker = Emergency]
           ended == [begun EXCEPT !.repair = None]
           prepared == Prepared(begun)
           reserved == Reserved(prepared, r, v)
           finished == Finished(reserved, r)
           preparing == {begun, Suspected(begun), Unlocated(begun), prepared}
           uploading == preparing \cup {Recorded(prepared, r, v), reserved}
           activating == uploading \cup FinishSteps(reserved, r)
           active == Activated(finished, r, x)
<1>1. r \in Attempts /\ WellFormed(disk) /\ open \subseteq Volumes /\ disk \in Disks
  BY DEF Attempts, Holding, WellFormed
<1>2. open' = open /\ Bookkeeping'
  BY DEF Repair, Holding, Bookkeeping
<1>3. Writes(disk, begun) /\ Writes(disk, ended)
  <2>1. Emergency \in BOOLEAN
    BY VolumesAssumption, Zenon DEF Holding, Bookkeeping, Emergency
  <2>2. Writes(disk, begun)
    BY <1>1, <2>1, MarksWrite, ZenonT(30)
  <2> HIDE DEF begun
  <2>3. Writes(begun, ended)
    <3>1. None \in Repairs \cup {None}
      OBVIOUS
    <3> QED BY <2>2, <3>1, MarksWrite, Zenon DEF Writes
  <2> HIDE DEF ended
  <2> QED BY <2>2, <2>3, WritesCompose
<1>4. Writes(disk, prepared) /\ \A e \in preparing : Writes(disk, e)
  <2> HIDE DEF begun
  <2>1. WellFormed(begun)
    BY <1>3 DEF Writes
  <2>2. Writes(begun, Suspected(begun)) /\ Writes(begun, Unlocated(begun)) /\ Writes(begun, prepared)
    BY <1>1, <2>1, PreparedWrites
  <2> HIDE DEF prepared
  <2> QED BY <1>3, <2>2, WritesCompose
<1>5. ASSUME MayReserve(prepared, r, v)
      PROVE  Writes(disk, reserved) /\ \A e \in uploading : Writes(disk, e)
  <2>1. v \in open
    BY <1>5 DEF MayReserve
  <2> HIDE DEF prepared, preparing
  <2>2. WellFormed(prepared)
    BY <1>4 DEF Writes
  <2>3. Writes(prepared, Recorded(prepared, r, v)) /\ Writes(prepared, reserved)
    BY <1>1, <2>1, <2>2, RecordedWrites, ReservedWrites, Zenon
  <2> HIDE DEF reserved
  <2> QED BY <1>4, <2>3, WritesCompose
<1>6. ASSUME MayReserve(prepared, r, v), MayFinish(reserved, r)
      PROVE  Writes(disk, finished) /\ \A e \in activating : Writes(disk, e)
  <2>1. UploadVolume(reserved, r) \in open
    BY <1>6 DEF MayFinish
  <2>2. Writes(disk, reserved) /\ \A e \in uploading : Writes(disk, e)
    BY <1>5, <1>6
  <2> HIDE DEF reserved, uploading
  <2>3. WellFormed(reserved)
    BY <2>2 DEF Writes
  <2>4. \A e \in FinishSteps(reserved, r) : Writes(reserved, e)
    BY <1>1, <2>1, <2>3, FinishWrites
  <2>5. finished \in FinishSteps(reserved, r)
    BY DEF FinishSteps
  <2> QED BY <2>2, <2>4, <2>5, WritesCompose
<1>7. ASSUME MayReserve(prepared, r, v), MayFinish(reserved, r), MayActivate(finished, r, x)
      PROVE  /\ \A e \in ActivateSteps(finished, r, x) : Writes(disk, e)
             /\ Writes(disk, [active EXCEPT !.repair = None])
  <2>1. finished.rec[r] \in open
    BY <1>7 DEF MayActivate
  <2>2. Writes(disk, finished)
    BY <1>6, <1>7
  <2> HIDE DEF finished
  <2>3. WellFormed(finished)
    BY <2>2 DEF Writes
  <2>4. Writes(finished, active) /\ \A e \in ActivateSteps(finished, r, x) : Writes(finished, e)
    BY <1>1, <2>1, <2>3, ActivateWrites, Zenon
  <2> HIDE DEF active
  <2>5. Writes(active, [active EXCEPT !.repair = None])
    <3>1. None \in Repairs \cup {None}
      OBVIOUS
    <3> QED BY <2>4, <3>1, MarksWrite, Zenon DEF Writes
  <2> QED BY <2>2, <2>4, <2>5, WritesCompose, Zenon
<1>8. \/ disk' \in {begun, ended} \cup preparing
      \/ MayReserve(prepared, r, v) /\ disk' \in uploading
      \/ MayReserve(prepared, r, v) /\ MayFinish(reserved, r) /\ disk' \in activating
      \/ /\ MayReserve(prepared, r, v) /\ MayFinish(reserved, r) /\ MayActivate(finished, r, x)
         /\ disk' \in ActivateSteps(finished, r, x) \cup {[active EXCEPT !.repair = None]}
  <2>1. finished \in FinishSteps(reserved, r)
    BY DEF FinishSteps
  <2>2. CASE Loadable
    BY <2>2 DEF Repair, Performs, IntactSteps
  <2>3. CASE ~Loadable /\ ~MayReserve(prepared, r, v)
    <3>1. Performs(preparing, prepared)
      BY <2>3 DEF Repair
    <3> QED BY <3>1 DEF Performs
  <2>4. CASE ~Loadable /\ MayReserve(prepared, r, v) /\ ~MayFinish(reserved, r)
    <3>1. Performs(uploading, reserved)
      BY <2>4 DEF Repair
    <3> QED BY <2>4, <3>1 DEF Performs
  <2>5. CASE ~Loadable /\ MayReserve(prepared, r, v) /\ MayFinish(reserved, r)
    <3>1. IF MayActivate(finished, r, x)
            THEN Performs(activating \cup ActivateSteps(finished, r, x), [active EXCEPT !.repair = None])
            ELSE Performs(activating, finished)
      BY <2>5 DEF Repair
    <3>2. finished \in activating
      BY <2>1
    <3> HIDE DEF prepared, reserved, finished, active, preparing, uploading, activating
    <3> QED BY <2>5, <3>1, <3>2 DEF Performs
  <2> QED BY <2>2, <2>3, <2>4, <2>5
<1> HIDE DEF begun, ended, prepared, reserved, finished, preparing, uploading, activating, active
<1>9. Writes(disk, disk')
  BY <1>3, <1>4, <1>5, <1>6, <1>7, <1>8
<1> QED BY <1>2, <1>9, OperationKeeps

(* remove_local_variable_emergency_shards, wherever it is cut. *)
LEMMA EmergencyHolds ==
    ASSUME Holding, RemoveEmergency
    PROVE  Holding'
<1> DEFINE start == RemovalStart(disk, None)
           r == Removed(start, None, None)
           b == ~RemovalComplete(start, None, None)
<1>1. WellFormed(disk) /\ open \subseteq Volumes
  BY DEF Holding
<1>2. open' = open /\ Bookkeeping'
  BY DEF RemoveEmergency, guildVars, Holding, Bookkeeping
<1>3. Writes(disk, CancelMigration(disk, None)) /\ Writes(disk, start)
  BY <1>1, RemovalWrites
<1>4. disk' \in {CancelMigration(disk, None), [r EXCEPT !.marker = b]} \cup RemovalSteps(start, None, None)
  BY DEF RemoveEmergency, Performs
<1>5. b \in BOOLEAN
  OBVIOUS
<1> HIDE DEF start, b
<1>6. Writes(disk, r) /\ \A e \in RemovalSteps(start, None, None) : Writes(disk, e)
  <2>1. WellFormed(start)
    BY <1>3 DEF Writes
  <2>2. Writes(start, r) /\ \A e \in RemovalSteps(start, None, None) : Writes(start, e)
    BY <1>1, <2>1, RemovalWrites
  <2> QED BY <1>3, <2>2, WritesCompose
<1> HIDE DEF r
<1>7. Writes(disk, [r EXCEPT !.marker = b])
  <2>1. Writes(r, [r EXCEPT !.marker = b])
    BY <1>5, <1>6, MarksWrite, Zenon DEF Writes
  <2> QED BY <1>6, <2>1, WritesCompose, Zenon
<1>8. Writes(disk, disk')
  BY <1>3, <1>4, <1>6, <1>7
<1> QED BY <1>2, <1>8, OperationKeeps

-----------------------------------------------------------------------------
(* Evacuation.                                                             *)

(* migrate_variable_object starts from an open volume. *)
LEMMA BeginHolds ==
    ASSUME Holding, NEW v \in Volumes, NEW w \in Volumes, MigrationBegin(v, w)
    PROVE  Holding'
<1> DEFINE m == [src |-> v, dst |-> w, att |-> disk.obj[v].att,
                 datt |-> IF disk.receipt = v THEN disk.obj[v].att ELSE disk.obj[w].att,
                 hash |-> disk.obj[v].hash, cancelled |-> FALSE]
<1>1. disk \in Disks /\ disk.obj \in [Volumes -> Rows] /\ WellFormed(disk)
  BY DEF Holding, WellFormed, Disks
<1>2. open' = open /\ Bookkeeping' /\ v \in open
  BY Zenon DEF MigrationBegin, DrainTurn, guildVars, Holding, Bookkeeping
<1>3. m \in Migrations /\ m.src = v /\ m.dst = w
  BY <1>1 DEF Migrations, Rows
<1>4. disk' = [disk EXCEPT !.mig = m, !.cleanup = disk.cleanup \cup {v, w}]
  BY DEF MigrationBegin
<1> HIDE DEF m
<1>5. disk' \in Disks
  BY <1>1, <1>3, <1>4, ZenonT(30) DEF Disks
<1>6. /\ disk'.obj = disk.obj /\ disk'.held = disk.held /\ disk'.receipt = disk.receipt /\ disk'.mig = m
      /\ disk'.state = disk.state /\ disk'.resv = disk.resv /\ disk'.rec = disk.rec /\ disk'.retire = disk.retire
  BY <1>1, <1>4 DEF Disks
<1>7. Confined(disk, disk')
  BY <1>2, <1>3, <1>6 DEF Confined, Clean, Owes, Empty
<1>8. Writes(disk, disk')
  BY <1>3, <1>5, <1>6, <1>7 DEF Writes, WellFormed
<1> QED BY <1>2, <1>8, OperationKeeps, Zenon

(* A write of one row of an open volume. *)
LEMMA RowWrites ==
    ASSUME NEW d, WellFormed(d), NEW v \in Volumes, NEW row \in Rows,
           v \in open \/ row.att = d.obj[v].att
    PROVE  Writes(d, [d EXCEPT !.obj[v] = row])
<1> DEFINE e == [d EXCEPT !.obj[v] = row]
<1>1. d \in Disks /\ d.obj \in [Volumes -> Rows]
  BY DEF WellFormed, Disks
<1>2. e \in Disks
  BY <1>1, Zenon DEF Disks
<1>3. /\ e.obj = [d.obj EXCEPT ![v] = row] /\ e.held = d.held /\ e.receipt = d.receipt /\ e.mig = d.mig
      /\ e.state = d.state /\ e.resv = d.resv /\ e.rec = d.rec /\ e.retire = d.retire
  BY <1>1 DEF Disks
<1> HIDE DEF e
<1>4. \A u \in Volumes : u \notin open => e.obj[u].att = d.obj[u].att
  BY <1>1, <1>3
<1>5. Confined(d, e)
  BY <1>3, <1>4, Zenon DEF Confined, Clean, Owes, Empty
<1> QED BY <1>2, <1>3, <1>5, Zenon DEF Writes, WellFormed, e

(* A transfer that can be resumed is one between two volumes. *)
LEMMA TransferVolumes ==
    ASSUME WellFormed(disk), Resumable
    PROVE  disk.mig.src \in Volumes /\ disk.mig.dst \in Volumes /\ disk.mig.dst \in open
BY DEF WellFormed, Resumable

(* The copy of a transfer, and its withdrawal from the source. *)
LEMMA CopyHolds ==
    ASSUME Holding, MigrationCopy \/ MigrationWithdraw
    PROVE  Holding'
<1>1. disk \in Disks /\ disk.obj \in [Volumes -> Rows] /\ WellFormed(disk)
  BY DEF Holding, WellFormed, Disks
<1>2. open' = open /\ Bookkeeping' /\ Resumable /\ disk.mig.src \in open
  BY DEF MigrationCopy, MigrationWithdraw, Published, guildVars, Holding, Bookkeeping
<1>3. disk.mig.src \in Volumes /\ disk.mig.dst \in Volumes /\ disk.mig.dst \in open
  BY <1>1, <1>2, TransferVolumes
<1>4. disk.obj[disk.mig.src] \in Rows /\ NoRow \in Rows
  <2>1. NoRow \in Rows
    BY DEF NoRow, Rows
  <2> QED BY <1>1, <1>3, <2>1
<1>5. CASE MigrationCopy
  <2>1. Writes(disk, disk')
    BY <1>1, <1>3, <1>4, <1>5, RowWrites DEF MigrationCopy
  <2> QED BY <1>2, <2>1, OperationKeeps
<1>6. CASE MigrationWithdraw
  <2>1. Writes(disk, disk')
    BY <1>1, <1>2, <1>3, <1>4, <1>6, RowWrites, Zenon DEF MigrationWithdraw
  <2> QED BY <1>2, <2>1, OperationKeeps
<1> QED BY <1>5, <1>6, Zenon

(* The records move to the destination, which is open. *)
LEMMA PublishHolds ==
    ASSUME Holding, MigrationPublish
    PROVE  Holding'
<1> DEFINE x == disk.mig.att
           w == disk.mig.dst
           q == IF disk.rec[x] = None THEN None ELSE w
           rec == [disk.rec EXCEPT ![x] = q]
           resv == [disk.resv EXCEPT ![x] = None]
           held == IF disk.mig.src \in open /\ ~Empty(disk, disk.mig.src)
                     THEN disk.held \ {<<disk.mig.src, x>>} ELSE disk.held
<1>1. disk \in Disks /\ WellFormed(disk) /\ disk.rec \in [Attempts -> Volumes \cup {None}]
      /\ disk.resv \in [Attempts -> Volumes \cup {None}] /\ disk.held \subseteq Volumes \X Attempts
  BY DEF Holding, WellFormed, Disks
<1>2. open' = open /\ Bookkeeping' /\ Resumable
  BY DEF MigrationPublish, guildVars, Holding, Bookkeeping
<1>3. w \in Volumes /\ w \in open
  BY <1>1, <1>2, TransferVolumes
<1>4. disk' = [disk EXCEPT !.receipt = w, !.rec = rec, !.resv = resv, !.held = held]
  BY <1>1 DEF MigrationPublish, Disks
<1>5. q \in {None, w}
  OBVIOUS
<1>6. held \subseteq disk.held
  OBVIOUS
<1> HIDE DEF x, w, q
<1>7. rec \in [Attempts -> Volumes \cup {None}] /\ resv \in [Attempts -> Volumes \cup {None}]
  BY <1>1, <1>3, <1>5, Zenon
<1>8. \A y \in Attempts : rec[y] \in {disk.rec[y], None, w} /\ resv[y] \in {disk.resv[y], None}
  BY <1>1, <1>5
<1> HIDE DEF rec, resv, held
<1>9. disk' \in Disks
  BY <1>1, <1>3, <1>4, <1>6, <1>7, Zenon DEF Disks
<1>10. /\ disk'.obj = disk.obj /\ disk'.held = held /\ disk'.receipt = w /\ disk'.mig = disk.mig
       /\ disk'.state = disk.state /\ disk'.resv = resv /\ disk'.rec = rec /\ disk'.retire = disk.retire
  BY <1>1, <1>4, Zenon DEF Disks
<1>11. Confined(disk, disk')
  BY <1>3, <1>6, <1>8, <1>10, NoneIsNone DEF Confined, Clean, Owes, Empty
<1>12. Writes(disk, disk')
  BY <1>1, <1>9, <1>10, <1>11, Zenon DEF Writes, WellFormed
<1> QED BY <1>2, <1>12, OperationKeeps, Zenon

(* The end of a transfer. *)
LEMMA FinishHolds ==
    ASSUME Holding, MigrationFinish
    PROVE  Holding'
<1> DEFINE c == disk.cleanup \ {disk.mig.src, disk.mig.dst}
<1>1. c \in SUBSET Volumes /\ WellFormed(disk)
  BY DEF Holding, WellFormed, Disks
<1>2. open' = open /\ Bookkeeping'
  BY DEF MigrationFinish, guildVars, Holding, Bookkeeping
<1>3. disk' = [disk EXCEPT !.mig = NoMigration, !.cleanup = c]
  BY Zenon DEF MigrationFinish
<1> HIDE DEF c
<1>4. Writes(disk, disk')
  BY <1>1, <1>3, DropMigrationWrites, Zenon
<1> QED BY <1>2, <1>4, OperationKeeps

(* A change of the recorded states alone. *)
LEMMA StateTyped ==
    ASSUME NEW d, WellFormed(d), NEW s \in [Volumes -> VolumeStates]
    PROVE  /\ WellFormed([d EXCEPT !.state = s]) /\ [d EXCEPT !.state = s].state = s
           /\ \A v \in Volumes : Clean(d, v) => Clean([d EXCEPT !.state = s], v)
<1> DEFINE e == [d EXCEPT !.state = s]
<1>1. d \in Disks
  BY DEF WellFormed
<1>2. e \in Disks
  BY <1>1, Zenon DEF Disks
<1>3. /\ e.obj = d.obj /\ e.held = d.held /\ e.receipt = d.receipt /\ e.mig = d.mig
      /\ e.state = s /\ e.resv = d.resv /\ e.rec = d.rec /\ e.retire = d.retire
  BY <1>1 DEF Disks
<1> HIDE DEF e
<1> QED BY <1>2, <1>3 DEF WellFormed, Clean, Owes, Empty, e

(* settle_empty_volume_location_evidence leaves no receipt in the volumes  *)
(* it settles.                                                             *)
LEMMA SettleEmptyTyped ==
    ASSUME NEW d, WellFormed(d), NEW V \in SUBSET Volumes
    PROVE  /\ WellFormed(SettleEmpty(d, V)) /\ SettleEmpty(d, V).state = d.state
           /\ \A v \in Volumes : Clean(d, v) => Clean(SettleEmpty(d, V), v)
           /\ \A v \in V : ~Owes(d, v) /\ d.mig.src # v => Clean(SettleEmpty(d, V), v)
<1> DEFINE r == IF d.receipt \in V THEN None ELSE d.receipt
           c == d.cleanup \ V
           e == SettleEmpty(d, V)
<1>1. d \in Disks /\ d.receipt \in Volumes \cup {None}
  BY DEF WellFormed, Disks
<1>2. e = [d EXCEPT !.receipt = r, !.cleanup = c]
  BY DEF SettleEmpty
<1>3. r \in Volumes \cup {None} /\ r \in {d.receipt, None} /\ r \notin V
  BY <1>1, NoneIsNone
<1>4. c \subseteq d.cleanup
  OBVIOUS
<1> HIDE DEF r, c, e
<1>5. e \in Disks
  BY <1>1, <1>2, <1>3, <1>4, Zenon DEF Disks
<1>6. /\ e.obj = d.obj /\ e.held = d.held /\ e.receipt = r /\ e.mig = d.mig
      /\ e.state = d.state /\ e.resv = d.resv /\ e.rec = d.rec /\ e.retire = d.retire
  BY <1>1, <1>2 DEF Disks
<1>7. WellFormed(e)
  BY <1>5, <1>6, Zenon DEF WellFormed
<1>8. \A v \in Volumes : Clean(d, v) => Clean(e, v)
  BY <1>3, <1>6, NoneIsNone, Zenon DEF Clean, Owes, Empty
<1>9. \A v \in V : ~Owes(d, v) /\ d.mig.src # v => Clean(e, v)
  BY <1>3, <1>6 DEF Clean, Owes, Empty
<1> QED BY <1>6, <1>7, <1>8, <1>9, Zenon DEF e

-----------------------------------------------------------------------------
(* The states of volumes.                                                  *)

(* Draining and scrubbing touch only open volumes. *)
LEMMA MarkHolds ==
    ASSUME Holding, (\E v \in Volumes : MarkDraining(v)) \/ Scrub
    PROVE  Holding'
<1>1. WellFormed(disk) /\ disk.state \in [Volumes -> VolumeStates]
  BY DEF Holding, WellFormed, Disks
<1>2. open' = open /\ Bookkeeping'
  BY Zenon DEF MarkDraining, Scrub, guildVars, Holding, Bookkeeping
<1>3. PICK s \in [Volumes -> VolumeStates] :
        /\ disk' = [disk EXCEPT !.state = s]
        /\ \A u \in Volumes : s[u] = "Retired" => disk.state[u] = "Retired"
  <2>1. ASSUME NEW v \in Volumes, MarkDraining(v)
        PROVE  \E s \in [Volumes -> VolumeStates] :
                 /\ disk' = [disk EXCEPT !.state = s]
                 /\ \A u \in Volumes : s[u] = "Retired" => disk.state[u] = "Retired"
    <3> DEFINE s == [disk.state EXCEPT ![v] = "Draining"]
    <3>1. s \in [Volumes -> VolumeStates] /\ \A u \in Volumes : s[u] = "Retired" => disk.state[u] = "Retired"
      BY <1>1 DEF VolumeStates
    <3>2. disk' = [disk EXCEPT !.state = s]
      BY <2>1 DEF MarkDraining
    <3> QED BY <3>1, <3>2, Zenon
  <2>2. ASSUME Scrub
        PROVE  \E s \in [Volumes -> VolumeStates] :
                 /\ disk' = [disk EXCEPT !.state = s]
                 /\ \A u \in Volumes : s[u] = "Retired" => disk.state[u] = "Retired"
    <3> DEFINE s == [v \in Volumes |-> IF v \in open /\ ~disk.obj[v].sound THEN "Failed" ELSE disk.state[v]]
    <3>1. s \in [Volumes -> VolumeStates] /\ \A u \in Volumes : s[u] = "Retired" => disk.state[u] = "Retired"
      BY <1>1 DEF VolumeStates
    <3>2. disk' = [disk EXCEPT !.state = s]
      BY <2>2 DEF Scrub
    <3> QED BY <3>1, <3>2, Zenon
  <2> QED BY <2>1, <2>2
<1>4. Writes(disk, disk')
  BY <1>1, <1>3, StateTyped DEF Writes, Confined
<1> QED BY <1>2, <1>4, OperationKeeps, Zenon

(* An empty volume without obligations retires, and is closed. *)
LEMMA RetireHolds ==
    ASSUME Holding, NEW v \in Volumes, RetireVolume(v)
    PROVE  Holding'
<1> DEFINE e == SettleEmpty(disk, {v})
           s == [e.state EXCEPT ![v] = "Retired"]
<1>1. WellFormed(disk) /\ Bookkeeping' /\ ~Owes(disk, v) /\ disk.mig.src # v
  BY DEF RetireVolume, guildVars, Holding, Bookkeeping
<1>2. /\ WellFormed(e) /\ e.state = disk.state
      /\ \A u \in Volumes : Clean(disk, u) => Clean(e, u)
      /\ Clean(e, v)
  BY <1>1, SettleEmptyTyped
<1>3. \/ disk' = e /\ open' = open
      \/ disk' = [e EXCEPT !.state = s] /\ open' = open \ {v}
  BY Zenon DEF RetireVolume
<1> HIDE DEF e
<1>4. CASE disk' = e /\ open' = open
  <2>1. Writes(disk, disk')
    BY <1>2, <1>4 DEF Writes, Confined
  <2> QED BY <1>1, <1>4, <2>1, OperationKeeps
<1>5. CASE disk' = [e EXCEPT !.state = s] /\ open' = open \ {v}
  <2>1. s \in [Volumes -> VolumeStates] /\ \A u \in Volumes : s[u] = "Retired" => u = v \/ disk.state[u] = "Retired"
    BY <1>2 DEF WellFormed, Disks, VolumeStates
  <2> HIDE DEF s
  <2>2. /\ WellFormed(disk') /\ disk'.state = s
        /\ \A u \in Volumes : Clean(e, u) => Clean(disk', u)
    BY <1>2, <1>5, <2>1, StateTyped
  <2>3. RetiredIsClosed'
    BY <1>2, <1>5, <2>1, <2>2 DEF Holding, RetiredIsClosed
  <2> QED BY <1>1, <1>5, <2>2, <2>3, Zenon DEF Holding
<1> QED BY <1>3, <1>4, <1>5

(* A retired volume is put back into use. *)
LEMMA ReactivateHolds ==
    ASSUME Holding, NEW v \in Volumes, Reactivate(v)
    PROVE  Holding'
<1> DEFINE s == [disk.state EXCEPT ![v] = "Online"]
<1>1. WellFormed(disk) /\ Bookkeeping' /\ open' = open \cup {v}
  BY DEF Reactivate, guildVars, Holding, Bookkeeping
<1>2. disk' = [disk EXCEPT !.state = s]
  BY Zenon DEF Reactivate
<1>3. /\ s \in [Volumes -> VolumeStates]
      /\ \A u \in Volumes : s[u] = "Retired" => u # v /\ disk.state[u] = "Retired"
  BY <1>1 DEF WellFormed, Disks, VolumeStates
<1> HIDE DEF s
<1>4. /\ WellFormed(disk') /\ disk'.state = s
      /\ \A u \in Volumes : Clean(disk, u) => Clean(disk', u)
  BY <1>1, <1>2, <1>3, StateTyped, Zenon
<1>5. RetiredIsClosed'
  BY <1>1, <1>3, <1>4, Zenon DEF Holding, RetiredIsClosed
<1> QED BY <1>1, <1>4, <1>5 DEF Holding

(* StorageVolumes::open and configure open no retired volume. *)
LEMMA ReopenHolds ==
    ASSUME Holding, NEW P \in SUBSET {v \in Volumes : disk.state[v] # "Retired"},
           Configure(P) \/ \E F \in SUBSET P : Restart(P, F)
    PROVE  Holding'
<1>1. WellFormed(disk) /\ Bookkeeping' /\ disk.state \in [Volumes -> VolumeStates]
  BY Zenon DEF Configure, Restart, guildVars, Holding, Bookkeeping, WellFormed, Disks
<1>2. open' \subseteq P
  BY Zenon DEF Configure, Restart
<1> DEFINE retired == {v \in Volumes : disk.state[v] = "Retired"}
           Found(s) == /\ s \in [Volumes -> VolumeStates]
                       /\ \A v \in Volumes : s[v] = "Retired" => disk.state[v] = "Retired"
<1>3. PICK s : Found(s) /\ disk' \in {[disk EXCEPT !.state = s], SettleEmpty([disk EXCEPT !.state = s], retired)}
  <2>1. CASE Configure(P)
    <3> DEFINE found(v) == CASE disk.state[v] \in {"Retired", "Draining"} -> disk.state[v]
                             [] v \notin P -> "Offline"
                             [] disk.state[v] = "Offline" -> "Online"
                             [] OTHER -> disk.state[v]
               s == [v \in Volumes |-> found(v)]
    <3>1. disk' = [disk EXCEPT !.state = s]
      BY <2>1 DEF Configure
    <3>2. \A v \in Volumes : found(v) \in {disk.state[v], "Offline", "Online"}
      OBVIOUS
    <3> HIDE DEF found
    <3>3. Found(s)
      BY <1>1, <3>2 DEF VolumeStates
    <3> QED BY <3>1, <3>3, Zenon
  <2>2. CASE \E F \in SUBSET P : Restart(P, F)
    <3>1. PICK F \in SUBSET P : Restart(P, F)
      BY <2>2
    <3> DEFINE found(v) == CASE disk.state[v] = "Retired" -> "Retired"
                             [] v \in F -> "Failed"
                             [] v \in P \/ disk.state[v] = "Draining" -> disk.state[v]
                             [] OTHER -> "Offline"
               s == [v \in Volumes |-> found(v)]
    <3>2. disk' = SettleEmpty([disk EXCEPT !.state = s], retired)
      BY <3>1 DEF Restart
    <3>3. \A v \in Volumes : found(v) \in {disk.state[v], "Offline", "Failed"}
      OBVIOUS
    <3> HIDE DEF found
    <3>4. Found(s)
      BY <1>1, <3>3 DEF VolumeStates
    <3> QED BY <3>2, <3>4, Zenon
  <2> QED BY <2>1, <2>2, Zenon
<1> DEFINE e == [disk EXCEPT !.state = s]
<1>4. WellFormed(e) /\ e.state = s /\ \A v \in Volumes : Clean(disk, v) => Clean(e, v)
  BY <1>1, <1>3, StateTyped
<1> HIDE DEF e
<1>5. WellFormed(disk') /\ disk'.state = s /\ \A v \in Volumes : Clean(disk, v) => Clean(disk', v)
  <2>1. CASE disk' = e
    BY <1>4, <2>1, Zenon
  <2>2. CASE disk' = SettleEmpty(e, retired)
    <3>1. retired \in SUBSET Volumes
      OBVIOUS
    <3> HIDE DEF retired
    <3> QED BY <1>4, <2>2, <3>1, SettleEmptyTyped
  <2> QED BY <1>3, <2>1, <2>2 DEF e
<1>6. RetiredIsClosed'
  BY <1>2, <1>3, <1>5 DEF Holding, RetiredIsClosed
<1>7. open' \subseteq Volumes
  BY <1>2, Zenon
<1> QED BY <1>1, <1>5, <1>6, <1>7 DEF Holding

(* Bit rot changes the bytes of a row, not whose it is. *)
LEMMA CorruptHolds ==
    ASSUME Holding, NEW v \in Volumes, Corrupt(v)
    PROVE  Holding'
<1> DEFINE row == [disk.obj[v] EXCEPT !.sound = FALSE]
<1>1. WellFormed(disk) /\ disk.obj \in [Volumes -> Rows]
  BY DEF Holding, WellFormed, Disks
<1>2. open' = open /\ Bookkeeping'
  BY DEF Corrupt, guildVars, Holding, Bookkeeping
<1>3. row \in Rows /\ row.att = disk.obj[v].att
  <2>1. disk.obj[v] \in Rows
    BY <1>1
  <2> QED BY <2>1, Zenon DEF Rows
<1>4. disk' = [disk EXCEPT !.obj[v] = row]
  BY DEF Corrupt
<1> HIDE DEF row
<1>5. Writes(disk, disk')
  BY <1>1, <1>3, <1>4, RowWrites
<1> QED BY <1>2, <1>5, OperationKeeps

-----------------------------------------------------------------------------

(* Every step of the node keeps the invariant. *)
LEMMA NextHolds ==
    ASSUME Holding, [Next]_vars
    PROVE  Holding'
<1>1. CASE UNCHANGED vars
  BY <1>1 DEF vars, Holding, WellFormed, RetiredIsClosed, Bookkeeping, Clean, Owes, Empty
<1>2. CASE GuildStep
  BY <1>2, GuildStepHolds
<1>3. CASE AttemptStep
  BY <1>3, UploadHolds, ActivationHolds, DiscardHolds, RepairHolds, Zenon DEF AttemptStep
<1>4. CASE EvacuationStep
  BY <1>4, BeginHolds, CopyHolds, PublishHolds, FinishHolds, MarkHolds, RetireHolds, ReactivateHolds, Zenon
  DEF EvacuationStep
<1>5. CASE FaultStep
  BY <1>5, ReopenHolds, MarkHolds DEF FaultStep
<1>6. CASE RotStep
  BY <1>6, CorruptHolds DEF RotStep
<1>7. CASE RemoveEmergency
  BY <1>7, EmergencyHolds
<1> QED BY <1>1, <1>2, <1>3, <1>4, <1>5, <1>6, <1>7, ZenonT(30) DEF Next, HolderNext

(* The records of the node keep their types through every operation, cut   *)
(* short or not, restart and fault.                                        *)
THEOREM TypeCorrect == Spec => []TypeOK
<1>1. Init => Holding
  BY InitHolds
<1>2. Holding /\ [Next]_vars => Holding'
  BY NextHolds, Zenon
<1>3. Holding => TypeOK
  BY DEF Holding, WellFormed, Bookkeeping, TypeOK
<1> QED BY <1>1, <1>2, <1>3, PTL DEF Spec

(* A volume that migrate_draining declared retired, and so safe to remove, *)
(* holds no row and no reservation, and no receipt, record, retirement or  *)
(* transfer leads to it: not after a crash inside any operation, nor after *)
(* any later upload, repair, evacuation, cleanup or restart.               *)
THEOREM RetiredHoldsNothing == Spec => []RetiredIsEmpty
<1>1. Init => Holding
  BY InitHolds
<1>2. Holding /\ [Next]_vars => Holding'
  BY NextHolds
<1>3. Holding => RetiredIsEmpty
  BY Zenon DEF Holding, RetiredIsClosed, RetiredIsEmpty, Clean
<1> QED BY <1>1, <1>2, <1>3, PTL DEF Spec

-----------------------------------------------------------------------------
(* Rows and receipts.                                                      *)

(* A write begins no transfer and forgets no transcript. *)
Carries(d, e) ==
    /\ e.mig.dst = None \/ (e.mig.src = d.mig.src /\ e.mig.dst = d.mig.dst)
    /\ d.transcript \subseteq e.transcript

(* A write of attempt x with the evidence of h that loses no READY row: a  *)
(* new one is of x, and the receipt leads where it did or to a READY row.  *)
Adds(d, e, x, h) ==
    /\ Carries(d, e)
    /\ \A v \in Volumes : d.obj[v].ready => e.obj[v] = d.obj[v]
    /\ \A v \in Volumes :
         e.obj[v].ready => d.obj[v].ready \/ (e.obj[v].att = x /\ e.obj[v].hash = h)
    /\ \/ e.receipt \in {None, d.receipt}
       \/ e.receipt \in Volumes /\ e.obj[e.receipt].ready

(* A write of a cleanup of attempt x and of the evidence h, or of all rows *)
(* if it names none.                                                       *)
Drops(d, e, x, h) ==
    /\ Carries(d, e)
    /\ \A v \in Volumes :
         \/ e.obj[v] = d.obj[v]
         \/ /\ e.obj[v] = NoRow
            /\ h = None \/ d.obj[v].att = x \/ d.obj[v].hash = h

(* Adding composes. *)
LEMMA AddsCompose ==
    ASSUME NEW d, NEW e, NEW f, NEW x, NEW h, Adds(d, e, x, h), Adds(e, f, x, h)
    PROVE  Adds(d, f, x, h)
<1>1. Carries(d, f)
  BY DEF Adds, Carries
<1>2. \A v \in Volumes : d.obj[v].ready => f.obj[v] = d.obj[v]
  BY DEF Adds
<1>3. \A v \in Volumes :
        f.obj[v].ready => d.obj[v].ready \/ (f.obj[v].att = x /\ f.obj[v].hash = h)
  BY DEF Adds
<1>4. \/ f.receipt \in {None, d.receipt}
      \/ f.receipt \in Volumes /\ f.obj[f.receipt].ready
  BY DEF Adds
<1> QED BY <1>1, <1>2, <1>3, <1>4, Zenon DEF Adds

(* Cleaning up composes. *)
LEMMA DropsCompose ==
    ASSUME NEW d, NEW e, NEW f, NEW x, NEW h, Drops(d, e, x, h), Drops(e, f, x, h)
    PROVE  Drops(d, f, x, h)
<1>1. Carries(d, f)
  BY DEF Drops, Carries
<1>2. ASSUME NEW v \in Volumes
      PROVE  \/ f.obj[v] = d.obj[v]
             \/ /\ f.obj[v] = NoRow
                /\ h = None \/ d.obj[v].att = x \/ d.obj[v].hash = h
  BY Zenon DEF Drops
<1> QED BY <1>1, <1>2 DEF Drops

(* A write that touches no row, receipt, transfer or transcript. *)
Still(d, e) ==
    e.obj = d.obj /\ e.receipt = d.receipt /\ e.mig = d.mig /\ e.transcript = d.transcript

(* Such a write is of any kind. *)
LEMMA StillIsBoth ==
    ASSUME NEW d, NEW e, NEW x, NEW h, Still(d, e)
    PROVE  Adds(d, e, x, h) /\ Drops(d, e, x, h)
BY Zenon DEF Still, Adds, Drops, Carries

(* Reservations, attempt receipts, repairs' and cleanups' markers. *)
LEMMA RecordsStill ==
    ASSUME NEW d \in Disks, NEW x, NEW v, NEW s
    PROVE  /\ Still(d, Recorded(d, x, v)) /\ Still(d, Reserved(d, x, v))
           /\ Still(d, [d EXCEPT !.rec[x] = v]) /\ Still(d, [d EXCEPT !.resv[x] = v])
           /\ Still(d, [d EXCEPT !.oblig = s]) /\ Still(d, [d EXCEPT !.repair = s])
           /\ Still(d, [d EXCEPT !.marker = s]) /\ Still(d, [d EXCEPT !.cleanup = s])
           /\ Still(d, [d EXCEPT !.state = s])
<1>1. Still(d, Recorded(d, x, v)) /\ Still(d, Reserved(d, x, v))
  BY DEF Still, Recorded, Reserved, Disks
<1>2. Still(d, [d EXCEPT !.rec[x] = v]) /\ Still(d, [d EXCEPT !.resv[x] = v])
  BY DEF Still, Disks
<1>3. /\ Still(d, [d EXCEPT !.oblig = s]) /\ Still(d, [d EXCEPT !.repair = s])
      /\ Still(d, [d EXCEPT !.marker = s]) /\ Still(d, [d EXCEPT !.cleanup = s])
      /\ Still(d, [d EXCEPT !.state = s])
  BY DEF Still, Disks
<1> QED BY <1>1, <1>2, <1>3

-----------------------------------------------------------------------------
(* Uploads and activation, row by row.                                     *)

(* finish_attempt_upload puts a STAGED row where there was none. *)
LEMMA StagedAdds ==
    ASSUME NEW d, WellFormed(d), NEW x \in Attempts, NEW h, UploadVolume(d, x) \in open,
           open \subseteq Volumes, \A v \in Volumes : d.obj[v].ready => d.obj[v].att # None
    PROVE  Adds(d, Staged(d, x), x, h) /\ Staged(d, x).receipt = d.receipt
<1> DEFINE v == UploadVolume(d, x)
           e == Staged(d, x)
           row == IF Empty(d, v) THEN [NoRow EXCEPT !.att = x] ELSE d.obj[v]
<1>1. d \in Disks /\ d.obj \in [Volumes -> Rows] /\ v \in Volumes
  BY DEF WellFormed, Disks
<1>2. row = d.obj[v] \/ (~row.ready /\ ~d.obj[v].ready)
  BY <1>1 DEF Empty, NoRow
<1>3. e = [d EXCEPT !.obj[v] = row, !.held = @ \ {<<v, x>>}]
  BY <1>1 DEF Staged
<1> HIDE DEF v, e, row
<1>4. /\ e.obj = [d.obj EXCEPT ![v] = row] /\ e.receipt = d.receipt /\ e.mig = d.mig
      /\ e.transcript = d.transcript
  BY <1>1, <1>3 DEF Disks
<1>5. \A u \in Volumes : e.obj[u] = d.obj[u] \/ (~e.obj[u].ready /\ ~d.obj[u].ready)
  BY <1>1, <1>2, <1>4
<1>6. Carries(d, e)
  BY <1>4 DEF Carries
<1>7. Adds(d, e, x, h)
  BY <1>4, <1>5, <1>6, Zenon DEF Adds
<1> QED BY <1>4, <1>7 DEF e

(* finish_attempt_upload, write by write. *)
LEMMA FinishAdds ==
    ASSUME NEW d, WellFormed(d), NEW x \in Attempts, NEW h, UploadVolume(d, x) \in open,
           open \subseteq Volumes, \A v \in Volumes : d.obj[v].ready => d.obj[v].att # None
    PROVE  \A e \in FinishSteps(d, x) : Adds(d, e, x, h) /\ e.receipt = d.receipt
<1> DEFINE s == Staged(d, x)
           r == Received(d, x)
           f == Finished(d, x)
<1>1. Adds(d, s, x, h) /\ s.receipt = d.receipt /\ s \in Disks
  BY StagedAdds, StagedWrites DEF Writes, WellFormed
<1>2. r = [s EXCEPT !.rec[x] = UploadVolume(d, x)] /\ f = [r EXCEPT !.resv[x] = None]
  BY DEF Received, Finished
<1>3. r \in Disks
  BY FinishWrites DEF FinishSteps, Writes, WellFormed
<1> HIDE DEF s, r, f
<1>4. Still(s, r) /\ Still(r, f)
  BY <1>1, <1>2, <1>3, RecordsStill, Zenon
<1>5. Adds(s, r, x, h) /\ Adds(r, f, x, h)
  BY <1>4, StillIsBoth
<1>6. Adds(d, r, x, h) /\ Adds(d, f, x, h)
  BY <1>1, <1>5, AddsCompose
<1>7. r.receipt = d.receipt /\ f.receipt = d.receipt
  BY <1>1, <1>4, Zenon DEF Still
<1> QED BY <1>1, <1>6, <1>7, Zenon DEF FinishSteps, s, r, f

(* activate_attempt_object, write by write: the receipt moves last. *)
LEMMA ActivateAdds ==
    ASSUME NEW d, WellFormed(d), NEW x \in Attempts, NEW h \in Coding, MayActivate(d, x, h),
           open \subseteq Volumes
    PROVE  /\ \A e \in ActivateSteps(d, x, h) : Adds(d, e, x, h) /\ e.receipt \in {d.receipt} \cup Volumes
           /\ Activated(d, x, h) \in ActivateSteps(d, x, h)
<1> DEFINE v == d.rec[x]
           r == Ready(d, x, h)
           s == Superseded(d, x, h)
           a == Activated(d, x, h)
           row == [[d.obj[v] EXCEPT !.ready = TRUE] EXCEPT !.hash = h]
           more == IF d.receipt \in {None, v} THEN r.cleanup ELSE r.cleanup \cup {d.receipt}
<1>1. /\ d \in Disks /\ d.obj \in [Volumes -> Rows] /\ v \in Volumes /\ v \in open
      /\ d.obj[v].att = x /\ (d.obj[v].ready => d.obj[v].hash = h)
  BY DEF WellFormed, Disks, MayActivate
<1>2. row.ready /\ row.hash = h /\ row.att = x /\ (d.obj[v].ready => row = d.obj[v])
  <2>1. d.obj[v] \in Rows
    BY <1>1
  <2> HIDE DEF v
  <2>2. row.ready /\ row.hash = h /\ row.att = x
    BY <1>1, <2>1 DEF Rows
  <2>3. ASSUME d.obj[v].ready PROVE row = d.obj[v]
    BY <1>1, <2>1, <2>3, Zenon DEF Rows
  <2> QED BY <2>2, <2>3
<1>3. r.obj = [d.obj EXCEPT ![v] = row] /\ r.receipt = d.receipt /\ r.mig = d.mig /\ r.transcript = d.transcript
  BY <1>1, Zenon DEF Ready, Disks
<1>4. r \in Disks /\ s \in Disks
  BY <1>1, ActivateWrites DEF ActivateSteps, Writes, WellFormed
<1>5. s = [r EXCEPT !.cleanup = more]
  BY DEF Superseded
<1>6. a = [s EXCEPT !.receipt = v]
  BY Zenon DEF Activated
<1> HIDE DEF v, r, s, a, row, more
<1>7. Adds(d, r, x, h)
  <2>1. Carries(d, r)
    BY <1>3 DEF Carries
  <2>2. \A u \in Volumes : r.obj[u] = IF u = v THEN row ELSE d.obj[u]
    BY <1>1, <1>3
  <2> QED BY <1>2, <1>3, <2>1, <2>2, Zenon DEF Adds
<1>8. Still(r, s)
  BY <1>4, <1>5, RecordsStill, Zenon
<1>9. Adds(d, s, x, h)
  BY <1>7, <1>8, StillIsBoth, AddsCompose
<1>10. a.obj = s.obj /\ a.receipt = v /\ a.mig = s.mig /\ a.transcript = s.transcript
  BY <1>4, <1>6 DEF Disks
<1>11. a.obj[v].ready
  BY <1>1, <1>2, <1>3, <1>8, <1>10 DEF Still
<1>12. Adds(s, a, x, h)
  BY <1>1, <1>10, <1>11 DEF Adds, Carries
<1>13. Adds(d, a, x, h)
  BY <1>9, <1>12, AddsCompose
<1>14. r.receipt = d.receipt /\ s.receipt = d.receipt /\ a.receipt \in Volumes
  BY <1>1, <1>3, <1>8, <1>10 DEF Still
<1> QED BY <1>7, <1>9, <1>13, <1>14, ZenonT(30) DEF ActivateSteps, r, s, a

-----------------------------------------------------------------------------
(* Cleanups, row by row.                                                   *)

(* settle_attempt_retirements and cancel_variable_migration_for_gc touch   *)
(* no row.                                                                 *)
LEMMA SettleDrops ==
    ASSUME NEW d \in Disks, NEW x, NEW h
    PROVE  Drops(d, Settle(d, h), x, h)
<1> DEFINE e == Settle(d, h)
<1>1. e.obj = d.obj /\ e.receipt = d.receipt /\ e.mig = d.mig /\ e.transcript = d.transcript
  BY DEF Settle, Disks
<1> HIDE DEF e
<1>2. Drops(d, e, x, h)
  BY <1>1, StillIsBoth DEF Still
<1> QED BY <1>2 DEF e

(* Cancelling a transfer touches no row either. *)
LEMMA CancelDrops ==
    ASSUME NEW d \in Disks, NEW x, NEW h, NEW y
    PROVE  Drops(d, CancelMigration(d, h), x, h) /\ Drops(d, CancelFor(d, y), x, h)
<1> DEFINE c == d.cleanup \cup {d.mig.src, d.mig.dst}
           Cancelled == {d, [d EXCEPT !.cleanup = c, !.mig.cancelled = TRUE], [d EXCEPT !.mig.cancelled = TRUE]}
<1>1. CancelMigration(d, h) \in Cancelled /\ CancelFor(d, y) \in Cancelled
  BY DEF CancelMigration, CancelFor
<1>2. ASSUME NEW e \in Cancelled PROVE Drops(d, e, x, h)
  <2>1. d.mig \in Migrations
    BY DEF Disks
  <2> DEFINE m == [d.mig EXCEPT !.cancelled = TRUE]
  <2>2. m.src = d.mig.src /\ m.dst = d.mig.dst
    BY <2>1 DEF Migrations
  <2>3. e = d \/ e = [d EXCEPT !.cleanup = c, !.mig = m] \/ e = [d EXCEPT !.mig = m]
    OBVIOUS
  <2> HIDE DEF m, c, Cancelled
  <2>4. e.obj = d.obj /\ e.transcript = d.transcript /\ (e.mig = d.mig \/ e.mig = m)
    BY <2>3, Zenon DEF Disks
  <2> QED BY <2>2, <2>4 DEF Drops, Carries
<1> HIDE DEF Cancelled
<1> QED BY <1>1, <1>2

(* The visit removes READY rows with the evidence it is about. *)
LEMMA VisitDrops ==
    ASSUME NEW d \in Disks, NEW x, NEW h, NEW V
    PROVE  Drops(d, Visit(d, x, h, V), x, h)
<1> DEFINE old == {v \in V \cap open : Old(d, v, x, h)}
           obj == [v \in Volumes |-> IF v \in old /\ d.obj[v].ready THEN NoRow ELSE d.obj[v]]
           e == Visit(d, x, h, V)
<1>1. e.obj = obj /\ e.mig = d.mig /\ e.transcript = d.transcript
  BY DEF Visit, Disks
<1>2. \A v \in Volumes : v \in old /\ d.obj[v].ready => h = None \/ d.obj[v].hash = h
  BY DEF Old
<1> HIDE DEF old
<1>3. \A v \in Volumes : obj[v] = d.obj[v] \/ (obj[v] = NoRow /\ (h = None \/ d.obj[v].hash = h))
  BY <1>2
<1> HIDE DEF obj, e
<1>4. Drops(d, e, x, h)
  BY <1>1, <1>3 DEF Drops, Carries
<1> QED BY <1>4 DEF e

(* Deleting the active receipt, or a transfer. *)
LEMMA ForgetDrops ==
    ASSUME NEW d \in Disks, NEW x, NEW h, NEW clear, NEW c
    PROVE  /\ Drops(d, DropReceipt(d, clear), x, h)
           /\ Drops(d, [d EXCEPT !.mig = NoMigration], x, h)
           /\ Drops(d, [d EXCEPT !.mig = NoMigration, !.cleanup = c], x, h)
<1> DEFINE Gone == {d, [d EXCEPT !.receipt = None], [d EXCEPT !.mig = NoMigration],
                    [d EXCEPT !.mig = NoMigration, !.cleanup = c]}
<1>1. DropReceipt(d, clear) \in Gone
  BY DEF DropReceipt
<1>2. ASSUME NEW e \in Gone PROVE Drops(d, e, x, h)
  <2>1. e.obj = d.obj /\ e.transcript = d.transcript /\ (e.mig = d.mig \/ e.mig = NoMigration)
    BY Zenon DEF Disks
  <2>2. NoMigration.dst = None
    BY DEF NoMigration
  <2> QED BY <2>1, <2>2 DEF Drops, Carries
<1> QED BY <1>1, <1>2

(* remove_unreachable_matching_attempt, write by write. *)
LEMMA RemovalDrops ==
    ASSUME NEW d, WellFormed(d), NEW x, NEW h \in Coding \cup {None}, open \subseteq Volumes
    PROVE  /\ Drops(d, CancelMigration(d, h), x, h) /\ Drops(d, RemovalStart(d, h), x, h)
           /\ \A e \in RemovalSteps(d, x, h) : Drops(d, e, x, h)
           /\ Drops(d, Removed(d, x, h), x, h)
<1> DEFINE s == RemovalStart(d, h)
           c == CancelMigration(d, h)
           e0 == Visit(d, x, h, Volumes)
           e1 == Visited(d, x, h)
           e2 == Settle(e1, h)
           e3 == RemovalLocated(d, x, h)
           e4 == Removed(d, x, h)
           state == [v \in Volumes |-> IF v \in Refused(d, x, h) THEN "Failed" ELSE e0.state[v]]
<1>1. d \in Disks /\ c \in Disks /\ e0 \in Disks /\ e1 \in Disks /\ e2 \in Disks /\ e3 \in Disks
  <2>1. \A e \in RemovalSteps(d, x, h) : e \in Disks
    BY RemovalWrites DEF Writes, WellFormed
  <2>2. e1 \in RemovalSteps(d, x, h) /\ e2 \in RemovalSteps(d, x, h) /\ e3 \in RemovalSteps(d, x, h)
    BY ZenonT(30) DEF RemovalSteps
  <2>3. c \in Disks /\ e0 \in Disks /\ d \in Disks
    BY RemovalWrites, VisitWrites DEF Writes, WellFormed
  <2> HIDE DEF e1, e2, e3, e0, c
  <2> QED BY <2>1, <2>2, <2>3, Zenon
<1>2. e1 = [e0 EXCEPT !.cleanup = Leftover(d, x, h), !.state = state]
  BY DEF Visited
<1>3. e3 = DropReceipt(e2, RemovalClear(d, x, h) /\ Newer(d, x, h) = {})
  BY DEF RemovalLocated
<1>4. e4 = e3 \/ e4 = [e3 EXCEPT !.mig = NoMigration]
  BY DEF Removed, DropMigration
<1>5. s = Settle(c, h)
  BY DEF RemovalStart
<1>6. \A k \in Volumes : Drops(d, Visit(d, x, h, 1 .. k), x, h)
  BY <1>1, VisitDrops
<1>7. Drops(d, e0, x, h) /\ Drops(d, c, x, h)
  BY <1>1, VisitDrops, CancelDrops
<1>8. RemovalSteps(d, x, h) = {d, e1, e2, e3, e4} \cup {Visit(d, x, h, 1 .. k) : k \in Volumes}
  BY DEF RemovalSteps
<1>9. Drops(e1, e2, x, h)
  <2> HIDE DEF e1
  <2> QED BY <1>1, SettleDrops
<1> HIDE DEF s, c, e0, e1, e2, e3, e4, state
<1>10. Drops(c, s, x, h)
  BY <1>1, <1>5, SettleDrops
<1>11. Drops(d, s, x, h)
  BY <1>7, <1>10, DropsCompose
<1>12. Still(e0, e1)
  BY <1>1, <1>2 DEF Still, Disks
<1>13. Drops(d, e1, x, h)
  BY <1>7, <1>12, StillIsBoth, DropsCompose
<1>14. Drops(d, e2, x, h)
  BY <1>13, <1>9, DropsCompose, Zenon
<1>15. Drops(e2, e3, x, h)
  BY <1>1, <1>3, ForgetDrops, Zenon
<1>16. Drops(d, e3, x, h)
  BY <1>14, <1>15, DropsCompose, Zenon
<1>17. Drops(e3, [e3 EXCEPT !.mig = NoMigration], x, h)
  BY <1>1, ForgetDrops, Zenon
<1>18. Drops(d, e4, x, h)
  BY <1>4, <1>16, <1>17, DropsCompose
<1>19. Drops(d, d, x, h)
  BY StillIsBoth DEF Still
<1> QED BY <1>6, <1>7, <1>8, <1>11, <1>13, <1>14, <1>16, <1>18, <1>19 DEF s, c, e4

(* discard_attempt, write by write. *)
LEMMA DiscardDrops ==
    ASSUME NEW d, WellFormed(d), NEW x \in Attempts, NEW h
    PROVE  /\ \A e \in DiscardSteps(d, x) : Drops(d, e, x, h)
           /\ Drops(d, Discarded(d, x), x, h)
<1> DEFINE d0 == CancelFor(d, x)
           d1 == Wipe(d0, x, Volumes)
           d2 == DropActive(d1, x)
           d3 == DropRecord(d2, x)
           d4 == DropReservation(d3, x)
           d5 == DropCancelled(d4, x, Required(d, x) \subseteq open)
<1>1. d \in Disks /\ WellFormed(d0) /\ d0 \in Disks
  BY CancelForWrites DEF Writes, WellFormed
<1>2. /\ DiscardSteps(d, x) \subseteq {d0, d1, d2, d3, d4, Discarded(d, x)} \cup {Wipe(d0, x, 1 .. k) : k \in Volumes}
      /\ Discarded(d, x) \in {d1, d5}
  BY DEF DiscardSteps, Discarded
<1>3. Drops(d, d0, x, h)
  BY <1>1, CancelDrops
<1>4. \A V : Drops(d0, Wipe(d0, x, V), x, h)
  <2> HIDE DEF d0
  <2>1. ASSUME NEW V PROVE Drops(d0, Wipe(d0, x, V), x, h)
    <3> DEFINE obj == [v \in Volumes |-> IF v \in V \cap open /\ d0.obj[v].att = x THEN NoRow ELSE d0.obj[v]]
               e == Wipe(d0, x, V)
    <3>1. e.obj = obj /\ e.mig = d0.mig /\ e.transcript = d0.transcript
      BY <1>1 DEF Wipe, Disks
    <3>2. \A v \in Volumes : obj[v] = d0.obj[v] \/ (obj[v] = NoRow /\ d0.obj[v].att = x)
      OBVIOUS
    <3> HIDE DEF obj, e
    <3>3. Drops(d0, e, x, h)
      BY <3>1, <3>2 DEF Drops, Carries
    <3> QED BY <3>3 DEF e
  <2> QED BY <2>1
<1>5. Drops(d0, d1, x, h) /\ \A k \in Volumes : Drops(d0, Wipe(d0, x, 1 .. k), x, h)
  <2> HIDE DEF d0
  <2> QED BY <1>4
<1>6. WellFormed(d1)
  <2> HIDE DEF d0
  <2> QED BY <1>1, WipeWrites, Zenon DEF Writes
<1>7. Drops(d1, d2, x, h) /\ WellFormed(d2)
  <2>1. d2 = DropReceipt(d1, d1.rec[x] \in open)
    BY DEF DropActive
  <2> HIDE DEF d1, d2
  <2> QED BY <1>6, <2>1, ForgetDrops, DropReceiptWrites, Zenon DEF Writes, WellFormed
<1>8. Drops(d2, d3, x, h) /\ WellFormed(d3)
  <2>1. d3 = d2 \/ d3 = [d2 EXCEPT !.rec[x] = None]
    BY DEF DropRecord
  <2> HIDE DEF d2, d3
  <2>2. Drops(d2, d2, x, h) /\ Drops(d2, [d2 EXCEPT !.rec[x] = None], x, h)
    <3>1. Still(d2, d2)
      BY DEF Still
    <3>2. d2 \in Disks
      BY <1>7 DEF WellFormed
    <3>3. Still(d2, [d2 EXCEPT !.rec[x] = None])
      BY <3>2, RecordsStill, Zenon
    <3> QED BY <3>1, <3>3, StillIsBoth
  <2> QED BY <1>7, <2>1, <2>2, FinalizeWrites DEF Writes
<1>9. Drops(d3, d4, x, h) /\ WellFormed(d4)
  <2>1. d4 = d3 \/ d4 = [d3 EXCEPT !.resv[x] = None]
    BY DEF DropReservation
  <2> HIDE DEF d3, d4
  <2>2. Drops(d3, d3, x, h) /\ Drops(d3, [d3 EXCEPT !.resv[x] = None], x, h)
    <3>1. Still(d3, d3)
      BY DEF Still
    <3>2. d3 \in Disks
      BY <1>8 DEF WellFormed
    <3>3. Still(d3, [d3 EXCEPT !.resv[x] = None])
      BY <3>2, RecordsStill, Zenon
    <3> QED BY <3>1, <3>3, StillIsBoth
  <2> QED BY <1>8, <2>1, <2>2, DropReservationWrites DEF Writes
<1>10. Drops(d4, d5, x, h)
  <2> DEFINE c == d4.cleanup \ {d4.mig.src, d4.mig.dst}
  <2>1. d5 = d4 \/ d5 = [d4 EXCEPT !.mig = NoMigration, !.cleanup = c]
    BY DEF DropCancelled
  <2> HIDE DEF d4, d5, c
  <2>2. Drops(d4, d4, x, h)
    BY StillIsBoth DEF Still
  <2>3. d4 \in Disks
    BY <1>9 DEF WellFormed
  <2>4. Drops(d4, [d4 EXCEPT !.mig = NoMigration, !.cleanup = c], x, h)
    BY <2>3, ForgetDrops, Zenon
  <2> QED BY <2>1, <2>2, <2>4
<1> HIDE DEF d0, d1, d2, d3, d4, d5
<1>11. Drops(d, d1, x, h) /\ \A k \in Volumes : Drops(d, Wipe(d0, x, 1 .. k), x, h)
  BY <1>3, <1>5, DropsCompose
<1>12. Drops(d, d2, x, h)
  BY <1>11, <1>7, DropsCompose
<1>13. Drops(d, d3, x, h)
  BY <1>12, <1>8, DropsCompose
<1>14. Drops(d, d4, x, h)
  BY <1>13, <1>9, DropsCompose
<1>15. Drops(d, d5, x, h)
  BY <1>14, <1>10, DropsCompose
<1> QED BY <1>2, <1>3, <1>11, <1>12, <1>13, <1>14, <1>15, Zenon

(* prepare_variable_repair, write by write: the receipt may go. *)
LEMMA PreparedAdds ==
    ASSUME NEW d, WellFormed(d), NEW x, NEW h, open \subseteq Volumes
    PROVE  \A e \in {Suspected(d), Unlocated(d), Prepared(d)} : Adds(d, e, x, h)
<1> DEFINE c == IF d.receipt # None /\ (d.receipt \notin open \/ Damaged(d))
                  THEN d.cleanup \cup {d.receipt} ELSE d.cleanup
           s == Suspected(d)
           u == Unlocated(d)
           p == Prepared(d)
<1>1. d \in Disks /\ s \in Disks /\ u \in Disks
  BY PreparedWrites DEF Writes, WellFormed
<1>2. s = [d EXCEPT !.cleanup = c]
  BY DEF Suspected
<1>3. u = [s EXCEPT !.receipt = None]
  BY DEF Unlocated, DropReceipt
<1>4. p = u \/ p = [u EXCEPT !.state[d.receipt] = "Failed"]
  BY DEF Prepared
<1> HIDE DEF c, s, u, p
<1>5. Adds(d, s, x, h)
  BY <1>1, <1>2, RecordsStill, StillIsBoth, Zenon
<1>6. u.obj = s.obj /\ u.receipt = None /\ u.mig = s.mig /\ u.transcript = s.transcript
  BY <1>1, <1>3 DEF Disks
<1>7. Adds(s, u, x, h)
  BY <1>6, Zenon DEF Adds, Carries
<1>8. Still(u, p)
  BY <1>1, <1>4 DEF Still, Disks
<1>9. Adds(d, u, x, h)
  BY <1>5, <1>7, AddsCompose
<1>10. Adds(d, p, x, h)
  BY <1>8, <1>9, StillIsBoth, AddsCompose
<1> QED BY <1>5, <1>9, <1>10 DEF s, u, p

-----------------------------------------------------------------------------
(* What the rows and the receipt say, step by step.                        *)

(* A READY row names the coding attempt whose evidence it has, and one     *)
(* that was planned.                                                       *)
RowsNamed ==
    \A v \in Volumes : disk.obj[v].ready =>
      /\ disk.obj[v].att # None /\ disk.obj[v].hash \in Coding
      /\ disk.obj[v].att \in Coding => disk.obj[v].hash = disk.obj[v].att
      /\ life[disk.obj[v].hash] # "none"

(* A transfer is between two different volumes. *)
Apart == disk.mig.dst # None => disk.mig.src # disk.mig.dst

(* A retained group has its transcript. *)
Installed ==
    \A x \in Coding : known[x] = "added" => x \in disk.transcript /\ life[x] # "none"

(* The group of an emergency shard is retained throughout. *)
Absent == Emergency => acked = {} /\ known[1] = "added" /\ life[1] = "added"

(* Until an attempt fails or is retired, the receipt leads to a READY row. *)
Pristine == \A x \in Coding : life[x] \in {"none", "open", "added"}
Led == ~Emergency /\ Pristine => disk.receipt = None \/ disk.obj[disk.receipt].ready

RowInv == RowsNamed /\ Apart /\ Installed /\ Absent /\ Led

(* A step neither unplans an attempt nor revives one. *)
Onward ==
    /\ setting' = setting
    /\ \A x \in Coding : life[x] # "none" => life'[x] # "none"
    /\ Pristine' => Pristine

(* The steps of LastCopyKept and of ReceiptKept. *)
CopyStep ==
    \A x \in Coding :
      (/\ (Owed(x) /\ Owed(x)') \/ (~Emergency /\ Retained(x) /\ Retained(x)')
       /\ Copies(disk, x) # {}
       /\ \A v \in Volumes : disk.obj[v].sound => disk'.obj[v].sound)
      => Copies(disk', x) # {}
ReceiptStep ==
    \A x \in Coding :
      OneAttempt /\ Owed(x) /\ Owed(x)' /\ Loadable => disk'.receipt # None

(* The first attempt is one. *)
LEMMA FirstAttempt == 1 \in Coding
BY VolumesAssumption DEF Coding

(* With one attempt there is no second. *)
LEMMA OneOnly ==
    ASSUME OneAttempt, NEW x \in Coding, NEW y \in Coding, life[x] # "none", life[y] # "none"
    PROVE  x = y
<1> DEFINE S == {z \in Coding : life[z] # "none"}
<1>1. SUFFICES ASSUME x # y PROVE FALSE
  OBVIOUS
<1>2. IsFiniteSet(Coding)
  BY VolumesAssumption, FS_Interval DEF Coding
<1>3. IsFiniteSet(S) /\ x \in S /\ y \in S
  BY <1>2, FS_Subset
<1>4. Cardinality(S) <= 1
  BY DEF OneAttempt
<1> HIDE DEF S
<1>5. IsFiniteSet(S \ {x}) /\ Cardinality(S \ {x}) = Cardinality(S) - 1
  BY <1>3, FS_RemoveElement
<1>6. y \in S \ {x}
  BY <1>1, <1>3
<1>7. Cardinality(S) \in Nat /\ Cardinality(S \ {x}) \in Nat
  BY <1>3, <1>5, FS_CardinalityType
<1>8. S \ {x} = {}
  BY <1>4, <1>5, <1>7, FS_EmptySet
<1> QED BY <1>6, <1>8

(* A step that keeps READY rows keeps what is said of them. *)
LEMMA AddsKeep ==
    ASSUME Holding, RowInv, NEW x, NEW h, Adds(disk, disk', x, h),
           Onward, RowsNamed', Installed', Absent'
    PROVE  RowInv' /\ CopyStep
<1>1. Apart'
  BY DEF Adds, Carries, RowInv, Apart
<1>2. Led'
  <2> SUFFICES ASSUME ~Emergency', Pristine', disk'.receipt # None
               PROVE  disk'.obj[disk'.receipt].ready
    BY DEF Led
  <2>1. ~Emergency /\ Pristine
    BY DEF Onward, Emergency
  <2>2. disk.receipt = None \/ (disk.receipt \in Volumes /\ disk.obj[disk.receipt].ready)
    BY <2>1 DEF RowInv, Led, Holding, WellFormed, Disks
  <2> QED BY <2>2, Zenon DEF Adds
<1>3. CopyStep
  <2> SUFFICES ASSUME NEW y \in Coding, Copies(disk, y) # {} PROVE Copies(disk', y) # {}
    BY Zenon DEF CopyStep
  <2>1. PICK v \in Volumes : disk.obj[v].ready /\ disk.obj[v].hash = y /\ disk.obj[v].sound
    BY DEF Copies
  <2>2. disk'.obj[v] = disk.obj[v]
    BY <2>1, Zenon DEF Adds
  <2> QED BY <2>1, <2>2 DEF Copies
<1> QED BY <1>1, <1>2, <1>3 DEF RowInv

(* The new row of an upload or of a repair is named. *)
LEMMA AddsNamed ==
    ASSUME RowInv, NEW x \in Attempts, NEW h \in Coding, Adds(disk, disk', x, h), Onward,
           x \in Coding => h = x, life'[h] # "none"
    PROVE  RowsNamed'
<1> SUFFICES ASSUME NEW v \in Volumes, disk'.obj[v].ready
             PROVE  /\ disk'.obj[v].att # None /\ disk'.obj[v].hash \in Coding
                    /\ disk'.obj[v].att \in Coding => disk'.obj[v].hash = disk'.obj[v].att
                    /\ life'[disk'.obj[v].hash] # "none"
  BY Zenon DEF RowsNamed
<1>1. CASE disk.obj[v].ready
  <2>1. disk'.obj[v] = disk.obj[v]
    BY <1>1, Zenon DEF Adds
  <2> QED BY <1>1, <2>1 DEF RowInv, RowsNamed, Onward
<1>2. CASE ~disk.obj[v].ready
  <2>1. disk'.obj[v].att = x /\ disk'.obj[v].hash = h
    BY <1>2 DEF Adds
  <2> QED BY <2>1, NoneIsNone
<1> QED BY <1>1, <1>2, Zenon

(* A step that touches no row. *)
LEMMA RowsSame ==
    ASSUME RowInv, disk'.obj = disk.obj, Onward
    PROVE  RowsNamed'
BY DEF RowInv, RowsNamed, Onward

(* A step in which the receipt stays or moves to another volume. *)
LEMMA ReceiptMoves ==
    ASSUME Holding, disk'.receipt \in {disk.receipt} \cup Volumes
    PROVE  ReceiptStep
BY NoneIsNone DEF Holding, ReceiptStep, Loadable

(* A step of this node alone. *)
LEMMA QuietOnward ==
    ASSUME life' = life, setting' = setting
    PROVE  Onward
BY DEF Onward, Pristine

(* Of such a step it remains to say what it does to rows and receipt. *)
LEMMA QuietInstalled ==
    ASSUME RowInv, life' = life, setting' = setting, known' = known, acked' = acked, Carries(disk, disk')
    PROVE  Installed' /\ Absent'
<1>1. Installed'
  BY DEF RowInv, Installed, Carries
<1>2. Absent'
  BY DEF RowInv, Absent, Emergency
<1> QED BY <1>1, <1>2

(* What each step is to show. *)
Steps == RowInv' /\ CopyStep /\ ReceiptStep

(* The guild's log and its installation. *)
LEMMA GuildKeeps ==
    ASSUME Holding, RowInv, GuildStep
    PROVE  Steps
<1>0. PICK x \in Coding : \/ Plan(x) \/ Abort(x) \/ Certify(x)
                          \/ InstallAdd(x) \/ InstallAddAgain(x) \/ InstallForget(x)
  BY DEF GuildStep
<1>1. disk \in Disks /\ life \in [Coding -> Lives] /\ known \in [Coding -> {"none", "added", "forgotten"}]
  BY DEF Holding, WellFormed, Bookkeeping
<1>2. CASE Plan(x) \/ Abort(x) \/ Certify(x)
  <2>1. disk' = disk /\ known' = known /\ acked' = acked /\ setting' = setting
    BY <1>2 DEF Plan, Abort, Certify
  <2>2. PICK k \in Lives \ {"none"} :
           /\ life' = [life EXCEPT ![x] = k]
           /\ k \in {"open", "added"} => life[x] \in {"none", "open"}
    BY <1>2 DEF Plan, Abort, Certify, Lives
  <2>3. Onward
    <3>1. \A y \in Coding : life[y] # "none" => life'[y] # "none"
      BY <1>1, <2>2
    <3>2. Pristine' => Pristine
      BY <1>1, <2>2 DEF Pristine, Lives
    <3> QED BY <2>1, <3>1, <3>2 DEF Onward
  <2>4. Installed'
    BY <2>1, <2>3 DEF RowInv, Installed, Onward
  <2>5. Absent'
    <3> SUFFICES ASSUME Emergency' PROVE acked' = {} /\ known'[1] = "added" /\ life'[1] = "added"
      BY DEF Absent
    <3>1. Emergency /\ acked = {} /\ known[1] = "added" /\ life[1] = "added"
      BY <2>1 DEF RowInv, Absent, Emergency
    <3>2. life[x] = "open"
      BY <1>2, <3>1 DEF Plan, Abort, Certify
    <3> QED BY <1>1, <2>1, <2>2, <3>1, <3>2, FirstAttempt
  <2>6. Adds(disk, disk', None, None) /\ RowsNamed'
    BY <2>1, <2>3, StillIsBoth, RowsSame DEF Still
  <2>7. ReceiptStep
    BY <2>1, ReceiptMoves
  <2> QED BY <2>3, <2>4, <2>5, <2>6, <2>7, AddsKeep, Zenon DEF Steps
<1>3. CASE InstallAdd(x) \/ InstallAddAgain(x) \/ InstallForget(x)
  <2>1. life' = life /\ acked' = acked /\ setting' = setting
    BY <1>3 DEF InstallAdd, InstallAddAgain, InstallForget, guildVars
  <2>2. disk'.obj = disk.obj /\ disk'.receipt = disk.receipt /\ disk'.mig = disk.mig
    BY <1>1, <1>3, Zenon DEF InstallAdd, InstallAddAgain, InstallForget, Performs, FinalizeAttempt, Disks
  <2>3. /\ disk.transcript \subseteq disk'.transcript
        /\ \A y \in Coding : known'[y] = "added" => known[y] = "added" \/ (y \in disk'.transcript /\ life[y] # "none")
    <3>1. CASE InstallAdd(x)
      <4>1. disk'.transcript = disk.transcript \cup {x}
        BY <1>1, <3>1, Zenon DEF InstallAdd, Performs, FinalizeAttempt, Disks
      <4>2. known' = [known EXCEPT ![x] = "added"] /\ life[x] # "none"
        BY <3>1 DEF InstallAdd
      <4> QED BY <1>1, <4>1, <4>2
    <3>2. CASE InstallAddAgain(x)
      <4>1. disk'.transcript = disk.transcript /\ known' = known
        BY <1>1, <3>2 DEF InstallAddAgain, FinalizeAttempt, Disks, guildVars
      <4> QED BY <4>1
    <3>3. CASE InstallForget(x)
      <4>1. disk'.transcript = disk.transcript /\ known' = [known EXCEPT ![x] = "forgotten"]
        BY <1>1, <3>3 DEF InstallForget, Disks
      <4> QED BY <1>1, <4>1
    <3> QED BY <1>3, <3>1, <3>2, <3>3
  <2>4. Onward
    BY <2>1, QuietOnward
  <2>5. Installed'
    BY <2>1, <2>3 DEF RowInv, Installed
  <2>6. Absent'
    <3> SUFFICES ASSUME Emergency' PROVE acked' = {} /\ known'[1] = "added" /\ life'[1] = "added"
      BY DEF Absent
    <3>1. acked = {} /\ known[1] = "added" /\ life[1] = "added"
      BY <2>1 DEF RowInv, Absent, Emergency
    <3>2. known'[1] = "added"
      BY <1>1, <1>3, <3>1, FirstAttempt DEF InstallAdd, InstallAddAgain, InstallForget, guildVars
    <3> QED BY <2>1, <3>1, <3>2
  <2>7. Adds(disk, disk', None, None)
    BY <2>2, <2>3 DEF Adds, Carries
  <2>8. RowsNamed' /\ ReceiptStep
    BY <2>2, <2>4, RowsSame, ReceiptMoves
  <2> QED BY <2>4, <2>5, <2>6, <2>7, <2>8, AddsKeep DEF Steps
<1> QED BY <1>0, <1>2, <1>3

(* A write of this node that adds a row of x with the evidence of h. *)
LEMMA NodeAdds ==
    ASSUME Holding, RowInv, NEW x \in Attempts, NEW h \in Coding, Adds(disk, disk', x, h),
           x \in Coding => h = x, life[h] # "none",
           life' = life, setting' = setting, known' = known, acked' = acked
    PROVE  RowInv' /\ CopyStep
<1>1. Onward
  BY QuietOnward
<1>2. Installed' /\ Absent'
  BY QuietInstalled DEF Adds
<1>3. RowsNamed'
  BY <1>1, AddsNamed
<1> QED BY <1>1, <1>2, <1>3, AddsKeep, Zenon

(* Uploads of the coordinator. *)
LEMMA UploadKeeps ==
    ASSUME Holding, RowInv, NEW x \in Coding, UploadParity(x)
    PROVE  Steps
<1>1. x \in Attempts /\ WellFormed(disk) /\ disk \in Disks /\ open \subseteq Volumes
  BY DEF Attempts, Holding, WellFormed
<1>2. life' = life /\ setting' = setting /\ known' = known /\ acked' = acked /\ life[x] # "none"
  BY DEF UploadParity, guildVars
<1>3. Adds(disk, disk', x, x) /\ disk'.receipt = disk.receipt
  <2>1. CASE \E v \in Volumes : /\ MayReserve(disk, x, v)
                                /\ Performs({Recorded(disk, x, v)}, Reserved(disk, x, v))
    <3>1. PICK v \in Volumes : disk' \in {Recorded(disk, x, v), Reserved(disk, x, v)}
      BY <2>1 DEF Performs
    <3>2. Still(disk, Recorded(disk, x, v)) /\ Still(disk, Reserved(disk, x, v))
      BY <1>1, RecordsStill, Zenon
    <3>3. Still(disk, disk')
      BY <3>1, <3>2, Zenon
    <3> QED BY <3>3, StillIsBoth DEF Still
  <2>2. CASE MayFinish(disk, x) /\ Performs(FinishSteps(disk, x), Finished(disk, x))
    <3>1. UploadVolume(disk, x) \in open /\ disk' \in FinishSteps(disk, x)
      BY <2>2 DEF MayFinish, Performs, FinishSteps
    <3>2. \A v \in Volumes : disk.obj[v].ready => disk.obj[v].att # None
      BY DEF RowInv, RowsNamed
    <3> QED BY <1>1, <3>1, <3>2, FinishAdds, Zenon
  <2> QED BY <2>1, <2>2, Zenon DEF UploadParity
<1>4. RowInv' /\ CopyStep
  BY <1>1, <1>2, <1>3, NodeAdds
<1> QED BY <1>3, <1>4, ReceiptMoves DEF Steps

(* activate_verified_coding_attempt. *)
LEMMA ActivationKeeps ==
    ASSUME Holding, RowInv, NEW x \in Coding, ActivateCoding(x)
    PROVE  Steps
<1> DEFINE a == Activated(disk, x, x)
<1>1. x \in Attempts /\ WellFormed(disk) /\ open \subseteq Volumes
  BY DEF Attempts, Holding
<1>2. life' = life /\ setting' = setting /\ known' = known /\ life[x] # "none" /\ MayActivate(disk, x, x)
  BY DEF ActivateCoding
<1>3. ~Emergency
  BY FirstAttempt DEF ActivateCoding, RowInv, Absent, GroupRetained, Retained
<1>4. /\ \A e \in ActivateSteps(disk, x, x) : Adds(disk, e, x, x) /\ e.receipt \in {disk.receipt} \cup Volumes
      /\ a \in ActivateSteps(disk, x, x)
  BY <1>1, <1>2, ActivateAdds, ZenonT(30)
<1>5. a \in Disks
  BY <1>1, <1>2, ActivateWrites DEF Writes, WellFormed, MayActivate
<1>6. disk' \in ActivateSteps(disk, x, x) \/ disk' = [a EXCEPT !.transcript = a.transcript \cup {x}]
  BY Zenon DEF ActivateCoding
<1> HIDE DEF a
<1>7. Adds(disk, disk', x, x) /\ disk'.receipt \in {disk.receipt} \cup Volumes
  <2>1. CASE disk' = [a EXCEPT !.transcript = a.transcript \cup {x}]
    <3>1. disk'.obj = a.obj /\ disk'.receipt = a.receipt /\ disk'.mig = a.mig
          /\ a.transcript \subseteq disk'.transcript
      BY <1>5, <2>1 DEF Disks
    <3>2. Adds(a, disk', x, x)
      BY <3>1, Zenon DEF Adds, Carries
    <3> QED BY <1>4, <3>1, <3>2, AddsCompose
  <2> QED BY <1>4, <1>6, <2>1, Zenon
<1>8. Onward
  BY <1>2, QuietOnward
<1>9. Installed' /\ Absent'
  <2>1. Installed'
    BY <1>2, <1>7 DEF RowInv, Installed, Adds, Carries
  <2>2. Absent'
    BY <1>2, <1>3 DEF Absent, Emergency
  <2> QED BY <2>1, <2>2, ZenonT(30)
<1>10. RowsNamed'
  BY <1>1, <1>2, <1>7, <1>8, AddsNamed
<1>11. RowInv' /\ CopyStep
  BY <1>7, <1>8, <1>9, <1>10, AddsKeep
<1> QED BY <1>7, <1>11, ReceiptMoves DEF Steps

(* A cleanup removes no copy of another attempt. *)
LEMMA DropsKeep ==
    ASSUME Holding, RowInv, NEW y, NEW h, Drops(disk, disk', y, h),
           life' = life, setting' = setting, known' = known, acked' = acked,
           Emergency \/ ~Pristine,
           \A x \in Coding : Owed(x) \/ (~Emergency /\ Retained(x)) => h # None /\ h # x /\ y = h /\ y \in Coding
    PROVE  RowInv' /\ CopyStep
<1>1. Onward
  BY QuietOnward
<1>2. Installed' /\ Absent'
  BY QuietInstalled DEF Drops
<1>3. \A v \in Volumes : disk'.obj[v].ready => disk'.obj[v] = disk.obj[v]
  <2>1. ~NoRow.ready
    BY Zenon DEF NoRow
  <2> QED BY <2>1 DEF Drops
<1>4. RowsNamed'
  BY <1>1, <1>3 DEF RowInv, RowsNamed, Onward
<1>5. Apart'
  BY DEF Drops, Carries, RowInv, Apart
<1>6. Led'
  BY <1>1, Zenon DEF Led, Onward, Emergency
<1>7. CopyStep
  <2> SUFFICES ASSUME NEW x \in Coding, Owed(x) \/ (~Emergency /\ Retained(x)), Copies(disk, x) # {}
               PROVE  Copies(disk', x) # {}
    BY Zenon DEF CopyStep
  <2>1. PICK v \in Volumes : disk.obj[v].ready /\ disk.obj[v].hash = x /\ disk.obj[v].sound
    BY Zenon DEF Copies
  <2>2. disk'.obj[v] = disk.obj[v]
    BY <2>1 DEF Drops, RowInv, RowsNamed
  <2> QED BY <2>1, <2>2 DEF Copies
<1> QED BY <1>2, <1>4, <1>5, <1>6, <1>7 DEF RowInv

(* discard_coding_attempt, wherever it is cut: it is not about the group   *)
(* this node owes or retains.                                              *)
LEMMA DiscardKeeps ==
    ASSUME Holding, RowInv, NEW x \in Coding, DiscardCoding(x)
    PROVE  Steps
<1> DEFINE owed == [disk EXCEPT !.oblig = disk.oblig \cup {x}]
           d == Discarded(disk, x)
           start == RemovalStart(d, x)
           r == Removed(start, x, x)
<1>1. x \in Attempts /\ WellFormed(disk) /\ open \subseteq Volumes /\ disk \in Disks
  BY DEF Attempts, Holding, WellFormed
<1>2. life' = life /\ setting' = setting /\ known' = known /\ acked' = acked
  BY DEF DiscardCoding
<1>3. life[x] \in {"aborted", "retired", "forgotten"}
  BY DEF DiscardCoding
<1>4. ~Pristine
  BY <1>3 DEF Pristine
<1>5. ReceiptStep
  <2> SUFFICES ASSUME NEW y \in Coding, OneAttempt, Owed(y) PROVE FALSE
    BY Zenon DEF ReceiptStep
  <2>1. life[y] \in {"open", "added"}
    BY DEF Owed
  <2>2. x = y
    BY <1>3, <2>1, OneOnly
  <2> QED BY <1>3, <2>1, <2>2
<1>6. Drops(disk, d, x, x) /\ \A e \in DiscardSteps(disk, x) : Drops(disk, e, x, x)
  BY <1>1, DiscardDrops
<1>7. WellFormed(d)
  BY <1>1, DiscardWrites, Zenon DEF Writes
<1>8. Drops(disk, CancelMigration(d, x), x, x) /\ Drops(disk, start, x, x) /\ WellFormed(start)
  <2> HIDE DEF d
  <2> QED BY <1>1, <1>6, <1>7, RemovalDrops, RemovalWrites, DropsCompose, Zenon DEF Writes
<1>9. Drops(disk, r, x, x) /\ \A e \in RemovalSteps(start, x, x) : Drops(disk, e, x, x)
  <2> HIDE DEF start
  <2>1. Drops(start, r, x, x) /\ \A e \in RemovalSteps(start, x, x) : Drops(start, e, x, x)
    BY <1>1, <1>8, RemovalDrops
  <2> QED BY <1>8, <2>1, DropsCompose
<1>10. d \in Disks /\ r \in Disks
  <2>1. d \in Disks
    BY <1>7 DEF WellFormed
  <2> HIDE DEF start, d
  <2>2. Writes(start, r)
    BY <1>1, <1>8, RemovalWrites
  <2> QED BY <2>1, <2>2 DEF Writes, WellFormed
<1>11. \/ /\ x \in disk.transcript /\ GroupRetained
          /\ disk' \in {owed, [owed EXCEPT !.rec[x] = None]}
       \/ /\ ~(x \in disk.transcript /\ GroupRetained)
          /\ \/ disk' \in DiscardSteps(disk, x) \cup {CancelMigration(d, x)} \cup RemovalSteps(start, x, x) \cup {d, r}
             \/ disk' = [d EXCEPT !.oblig = d.oblig \ {x}]
             \/ disk' = [r EXCEPT !.oblig = r.oblig \ {x}]
  BY DEF DiscardCoding, Performs, FinalizeAttempt
<1> HIDE DEF d, start, r
<1>12. CASE disk' \in {owed, [owed EXCEPT !.rec[x] = None]}
  <2>1. Still(disk, disk')
    BY <1>1, <1>12, Zenon DEF Still, Disks
  <2>2. Adds(disk, disk', x, x)
    BY <2>1, StillIsBoth
  <2>3. RowInv' /\ CopyStep
    BY <1>1, <1>2, <1>3, <2>2, NodeAdds
  <2> QED BY <1>5, <2>3 DEF Steps
<1> HIDE DEF owed
<1>13. CASE /\ ~(x \in disk.transcript /\ GroupRetained)
            /\ \/ disk' \in DiscardSteps(disk, x) \cup {CancelMigration(d, x)} \cup RemovalSteps(start, x, x) \cup {d, r}
               \/ disk' = [d EXCEPT !.oblig = d.oblig \ {x}]
               \/ disk' = [r EXCEPT !.oblig = r.oblig \ {x}]
  <2>1. \A e \in Disks : Drops(disk, e, x, x) => Drops(disk, [e EXCEPT !.oblig = e.oblig \ {x}], x, x)
    <3>1. ASSUME NEW e \in Disks, Drops(disk, e, x, x) PROVE Drops(disk, [e EXCEPT !.oblig = e.oblig \ {x}], x, x)
      <4>1. Still(e, [e EXCEPT !.oblig = e.oblig \ {x}])
        BY RecordsStill, Zenon
      <4> QED BY <3>1, <4>1, StillIsBoth, DropsCompose
    <3> QED BY <3>1
  <2>2. Drops(disk, disk', x, x)
    BY <1>6, <1>8, <1>9, <1>10, <1>13, <2>1
  <2>3. ASSUME NEW y \in Coding, Owed(y) \/ (~Emergency /\ Retained(y)) PROVE x # y
    <3>1. CASE Owed(y)
      BY <1>3, <3>1 DEF Owed
    <3>2. CASE Retained(y)
      BY <1>13, <3>2 DEF GroupRetained, Retained, RowInv, Installed
    <3> QED BY <2>3, <3>1, <3>2
  <2>4. RowInv' /\ CopyStep
    BY <1>2, <1>4, <2>2, <2>3, NoneIsNone, DropsKeep
  <2> QED BY <1>5, <2>4 DEF Steps
<1> QED BY <1>11, <1>12, <1>13

(* remove_local_variable_emergency_shards, wherever it is cut. *)
LEMMA EmergencyKeeps ==
    ASSUME Holding, RowInv, RemoveEmergency
    PROVE  Steps
<1> DEFINE start == RemovalStart(disk, None)
           r == Removed(start, None, None)
           b == ~RemovalComplete(start, None, None)
<1>1. WellFormed(disk) /\ open \subseteq Volumes /\ None \in Coding \cup {None}
  BY DEF Holding
<1>2. Emergency /\ life' = life /\ setting' = setting /\ known' = known /\ acked' = acked
  BY DEF RemoveEmergency, guildVars
<1>3. \A x \in Coding : ~(Owed(x) \/ (~Emergency /\ Retained(x)))
  BY <1>2 DEF RowInv, Absent, Owed
<1>4. Drops(disk, CancelMigration(disk, None), None, None) /\ Drops(disk, start, None, None) /\ WellFormed(start)
  BY <1>1, RemovalDrops, RemovalWrites DEF Writes
<1>5. disk' \in {CancelMigration(disk, None), [r EXCEPT !.marker = b]} \cup RemovalSteps(start, None, None)
  BY ZenonT(30) DEF RemoveEmergency, Performs
<1> HIDE DEF start, b
<1>6. Drops(start, r, None, None) /\ (\A e \in RemovalSteps(start, None, None) : Drops(start, e, None, None))
      /\ r \in Disks
  BY <1>1, <1>4, RemovalDrops, RemovalWrites DEF Writes, WellFormed
<1> HIDE DEF r
<1>7. Still(r, [r EXCEPT !.marker = b])
  BY <1>6, RecordsStill, Zenon
<1>8. Drops(r, [r EXCEPT !.marker = b], None, None)
  BY <1>7, StillIsBoth
<1>9. Drops(disk, disk', None, None)
  BY <1>4, <1>5, <1>6, <1>8, DropsCompose
<1>10. RowInv' /\ CopyStep
  BY <1>2, <1>3, <1>9, DropsKeep
<1>11. ReceiptStep
  BY <1>3, Zenon DEF ReceiptStep
<1> QED BY <1>10, <1>11 DEF Steps

(* install_repaired_variable_shard, wherever it is cut: while the shard    *)
(* loads, the receipt stays.                                               *)
LEMMA RepairKeeps ==
    ASSUME Holding, RowInv, NEW x \in Coding, NEW r \in Repairs, NEW v \in Volumes, Repair(x, r, v)
    PROVE  Steps
<1> DEFINE begun == [disk EXCEPT !.repair = r, !.marker = Emergency]
           ended == [begun EXCEPT !.repair = None]
           prepared == Prepared(begun)
           reserved == Reserved(prepared, r, v)
           finished == Finished(reserved, r)
           preparing == {begun, Suspected(begun), Unlocated(begun), prepared}
           uploading == preparing \cup {Recorded(prepared, r, v), reserved}
           activating == uploading \cup FinishSteps(reserved, r)
           active == Activated(finished, r, x)
<1>1. r \in Attempts /\ r \notin Coding /\ WellFormed(disk) /\ open \subseteq Volumes /\ disk \in Disks
  BY VolumesAssumption DEF Attempts, Coding, Repairs, Holding, WellFormed
<1>2. life' = life /\ setting' = setting /\ known' = known /\ acked' = acked
  BY DEF Repair
<1>3. life[x] # "none"
  BY DEF Repair, Retained, RowInv, Installed
<1>4. WellFormed(begun)
  <2>1. Emergency \in BOOLEAN
    BY VolumesAssumption, Zenon DEF Holding, Bookkeeping, Emergency
  <2> QED BY <1>1, <2>1, MarksWrite, ZenonT(30) DEF Writes
<1>5. Still(disk, begun) /\ Still(disk, ended)
  BY <1>1, ZenonT(30) DEF Still, Disks
<1>6. Adds(disk, prepared, r, x) /\ WellFormed(prepared) /\ \A e \in preparing : Adds(disk, e, r, x)
  <2> HIDE DEF begun
  <2>1. Adds(disk, begun, r, x)
    BY <1>5, StillIsBoth
  <2>2. \A e \in {Suspected(begun), Unlocated(begun), prepared} : Adds(begun, e, r, x)
    BY <1>1, <1>4, PreparedAdds
  <2>3. WellFormed(prepared)
    BY <1>1, <1>4, PreparedWrites DEF Writes
  <2> HIDE DEF prepared
  <2> QED BY <2>1, <2>2, <2>3, AddsCompose
<1>7. ASSUME MayReserve(prepared, r, v)
      PROVE  Adds(disk, reserved, r, x) /\ WellFormed(reserved) /\ \A e \in uploading : Adds(disk, e, r, x)
  <2>1. v \in open
    BY <1>7 DEF MayReserve
  <2> HIDE DEF prepared, preparing
  <2>2. WellFormed(reserved)
    BY <1>1, <1>6, <2>1, ReservedWrites, Zenon DEF Writes
  <2>3. prepared \in Disks
    BY <1>6 DEF WellFormed
  <2>4. Still(prepared, Recorded(prepared, r, v)) /\ Still(prepared, reserved)
    BY <2>3, RecordsStill, Zenon
  <2> HIDE DEF reserved
  <2>5. Adds(prepared, Recorded(prepared, r, v), r, x) /\ Adds(prepared, reserved, r, x)
    BY <2>4, StillIsBoth
  <2> QED BY <1>6, <2>2, <2>5, AddsCompose
<1>8. ASSUME MayReserve(prepared, r, v), MayFinish(reserved, r)
      PROVE  Adds(disk, finished, r, x) /\ WellFormed(finished) /\ \A e \in activating : Adds(disk, e, r, x)
  <2>1. UploadVolume(reserved, r) \in open
    BY <1>8 DEF MayFinish
  <2>2. Adds(disk, reserved, r, x) /\ WellFormed(reserved) /\ \A e \in uploading : Adds(disk, e, r, x)
    BY <1>7, <1>8, Zenon
  <2> HIDE DEF reserved, uploading
  <2>3. \A u \in Volumes : reserved.obj[u].ready => reserved.obj[u].att # None
    BY <1>1, <2>2, NoneIsNone, ZenonT(30) DEF Adds, RowInv, RowsNamed
  <2>4. \A e \in FinishSteps(reserved, r) : Adds(reserved, e, r, x) /\ WellFormed(e)
    BY <1>1, <2>1, <2>2, <2>3, FinishAdds, FinishWrites DEF Writes
  <2>5. finished \in FinishSteps(reserved, r)
    BY DEF FinishSteps
  <2> QED BY <2>2, <2>4, <2>5, AddsCompose
<1>9. ASSUME MayReserve(prepared, r, v), MayFinish(reserved, r), MayActivate(finished, r, x)
      PROVE  /\ \A e \in ActivateSteps(finished, r, x) : Adds(disk, e, r, x)
             /\ Adds(disk, [active EXCEPT !.repair = None], r, x)
  <2>1. Adds(disk, finished, r, x) /\ WellFormed(finished) /\ finished.rec[r] \in open
    BY <1>8, <1>9 DEF MayActivate
  <2> HIDE DEF finished
  <2>2. /\ \A e \in ActivateSteps(finished, r, x) : Adds(finished, e, r, x)
        /\ active \in ActivateSteps(finished, r, x)
    BY <1>1, <1>9, <2>1, ActivateAdds, ZenonT(30)
  <2>3. active \in Disks
    BY <1>1, <2>1, ActivateWrites DEF Writes, WellFormed
  <2> HIDE DEF active
  <2>4. Still(active, [active EXCEPT !.repair = None])
    BY <2>3, RecordsStill, Zenon
  <2>5. Adds(active, [active EXCEPT !.repair = None], r, x)
    BY <2>4, StillIsBoth
  <2> QED BY <2>1, <2>2, <2>5, AddsCompose, Zenon
<1>10. Loadable => disk' \in {begun, ended}
  BY ZenonT(30) DEF Repair, Performs, IntactSteps
<1>11. \/ disk' \in {begun, ended} \cup preparing
       \/ MayReserve(prepared, r, v) /\ disk' \in uploading
       \/ MayReserve(prepared, r, v) /\ MayFinish(reserved, r) /\ disk' \in activating
       \/ /\ MayReserve(prepared, r, v) /\ MayFinish(reserved, r) /\ MayActivate(finished, r, x)
          /\ disk' \in ActivateSteps(finished, r, x) \cup {[active EXCEPT !.repair = None]}
  <2>1. finished \in FinishSteps(reserved, r)
    BY DEF FinishSteps
  <2>2. CASE Loadable
    BY <1>10, <2>2
  <2>3. CASE ~Loadable /\ ~MayReserve(prepared, r, v)
    <3>1. Performs(preparing, prepared)
      BY <2>3 DEF Repair
    <3> QED BY <3>1 DEF Performs
  <2>4. CASE ~Loadable /\ MayReserve(prepared, r, v) /\ ~MayFinish(reserved, r)
    <3>1. Performs(uploading, reserved)
      BY <2>4 DEF Repair
    <3> QED BY <2>4, <3>1 DEF Performs
  <2>5. CASE ~Loadable /\ MayReserve(prepared, r, v) /\ MayFinish(reserved, r)
    <3>1. IF MayActivate(finished, r, x)
            THEN Performs(activating \cup ActivateSteps(finished, r, x), [active EXCEPT !.repair = None])
            ELSE Performs(activating, finished)
      BY <2>5 DEF Repair
    <3>2. finished \in activating
      BY <2>1
    <3> HIDE DEF prepared, reserved, finished, active, preparing, uploading, activating
    <3> QED BY <2>5, <3>1, <3>2 DEF Performs
  <2> QED BY <2>2, <2>3, <2>4, <2>5
<1> HIDE DEF begun, ended, prepared, reserved, finished, preparing, uploading, activating, active
<1>12. Adds(disk, begun, r, x) /\ Adds(disk, ended, r, x)
  BY <1>5, StillIsBoth
<1>13. Adds(disk, disk', r, x)
  BY <1>6, <1>7, <1>8, <1>9, <1>11, <1>12
<1>14. RowInv' /\ CopyStep
  BY <1>1, <1>2, <1>3, <1>13, NodeAdds
<1>15. ReceiptStep
  <2>1. Loadable => disk'.receipt = disk.receipt
    BY <1>5, <1>10 DEF Still
  <2>2. CASE Loadable
    BY <2>1, <2>2, ReceiptMoves
  <2>3. CASE ~Loadable
    BY <2>3, ZenonT(30) DEF ReceiptStep
  <2> QED BY <2>2, <2>3
<1> QED BY <1>14, <1>15, Zenon DEF Steps

(* A write of this node that touches no row: it may settle a location.     *)
LEMMA NodeRests ==
    ASSUME Holding, RowInv, disk'.obj = disk.obj, disk'.receipt \in {None, disk.receipt},
           Carries(disk, disk'),
           life' = life, setting' = setting, known' = known, acked' = acked
    PROVE  RowInv' /\ CopyStep
<1>1. Onward
  BY QuietOnward
<1>2. Installed' /\ Absent' /\ RowsNamed'
  BY <1>1, QuietInstalled, RowsSame, Zenon
<1>3. Adds(disk, disk', None, None)
  BY DEF Adds
<1> QED BY <1>1, <1>2, <1>3, AddsKeep, ZenonT(30)

(* An evacuation begins towards another volume. *)
LEMMA BeginKeeps ==
    ASSUME Holding, RowInv, NEW v \in Volumes, NEW w \in Volumes, MigrationBegin(v, w)
    PROVE  Steps
<1>1. disk \in Disks
  BY DEF Holding, WellFormed
<1>2. life' = life /\ setting' = setting /\ known' = known /\ acked' = acked /\ w # v
  BY DEF MigrationBegin, guildVars
<1>3. /\ disk'.obj = disk.obj /\ disk'.receipt = disk.receipt /\ disk'.transcript = disk.transcript
      /\ disk'.mig.src = v /\ disk'.mig.dst = w
  BY <1>1, Zenon DEF MigrationBegin, Disks
<1>4. RowsNamed' /\ Onward
  BY <1>2, <1>3, QuietOnward, RowsSame
<1>5. Apart'
  BY <1>2, <1>3 DEF Apart
<1>6. Installed' /\ Absent'
  BY <1>2, <1>3 DEF RowInv, Installed, Absent, Emergency
<1>7. Led'
  BY <1>3, <1>4 DEF RowInv, Led, Onward, Emergency
<1>8. CopyStep
  BY <1>3 DEF CopyStep, Copies
<1>9. ReceiptStep
  BY <1>3, ReceiptMoves
<1> QED BY <1>4, <1>5, <1>6, <1>7, <1>8, <1>9, Zenon DEF Steps, RowInv

(* The copy of a transfer has the name of its source. *)
LEMMA CopyKeeps ==
    ASSUME Holding, RowInv, MigrationCopy
    PROVE  Steps
<1> DEFINE src == disk.mig.src
           dst == disk.mig.dst
           row == disk.obj[src]
<1>1. disk \in Disks /\ disk.obj \in [Volumes -> Rows] /\ WellFormed(disk)
  BY DEF Holding, WellFormed, Disks
<1>2. life' = life /\ setting' = setting /\ known' = known /\ acked' = acked /\ Resumable
  BY DEF MigrationCopy, guildVars
<1>3. src \in Volumes /\ dst \in Volumes
  BY <1>1, <1>2, TransferVolumes
<1>4. row.ready /\ ~disk.obj[dst].ready
  BY <1>3, ZenonT(30) DEF MigrationCopy, SourceRow, Empty, RowInv, RowsNamed
<1>5. /\ row.att \in Attempts /\ row.hash \in Coding /\ life[row.hash] # "none"
      /\ row.att \in Coding => row.hash = row.att
  <2>1. row \in Rows
    BY <1>1, <1>3
  <2> QED BY <1>3, <1>4, <2>1 DEF RowInv, RowsNamed, Rows
<1>6. /\ disk'.obj = [disk.obj EXCEPT ![dst] = row] /\ disk'.receipt = disk.receipt /\ disk'.mig = disk.mig
      /\ disk'.transcript = disk.transcript
  BY <1>1, Zenon DEF MigrationCopy, Disks
<1> HIDE DEF src, dst, row
<1>7. Adds(disk, disk', row.att, row.hash)
  <2>1. Carries(disk, disk')
    BY <1>6, Zenon DEF Carries
  <2>2. \A u \in Volumes : disk'.obj[u] = IF u = dst THEN row ELSE disk.obj[u]
    BY <1>1, <1>6, Zenon
  <2> QED BY <1>4, <1>6, <2>1, <2>2, Zenon DEF Adds
<1>8. RowInv' /\ CopyStep
  BY <1>2, <1>5, <1>7, NodeAdds, Zenon
<1> QED BY <1>6, <1>8, ReceiptMoves, ZenonT(30) DEF Steps

(* The receipt moves to a destination that is READY. *)
LEMMA PublishKeeps ==
    ASSUME Holding, RowInv, MigrationPublish
    PROVE  Steps
<1>1. disk \in Disks /\ WellFormed(disk)
  BY DEF Holding, WellFormed
<1>2. life' = life /\ setting' = setting /\ known' = known /\ acked' = acked /\ Resumable
      /\ disk.obj[disk.mig.dst].ready
  BY Zenon DEF MigrationPublish, DestinationReady, guildVars
<1>3. disk.mig.dst \in Volumes
  BY <1>1, <1>2, TransferVolumes
<1>4. /\ disk'.obj = disk.obj /\ disk'.receipt = disk.mig.dst /\ disk'.mig = disk.mig
      /\ disk'.transcript = disk.transcript
  BY <1>1, ZenonT(30) DEF MigrationPublish, Disks
<1>5. Adds(disk, disk', None, None)
  BY <1>2, <1>3, <1>4, Zenon DEF Adds, Carries
<1>6. Onward /\ RowsNamed' /\ Installed' /\ Absent'
  BY <1>2, <1>4, <1>5, QuietOnward, QuietInstalled, RowsSame DEF Adds
<1>7. RowInv' /\ CopyStep
  BY <1>5, <1>6, AddsKeep
<1> QED BY <1>3, <1>4, <1>7, ReceiptMoves DEF Steps

(* A row is withdrawn from the source while the destination has a sound    *)
(* copy and the receipt.                                                   *)
LEMMA WithdrawKeeps ==
    ASSUME Holding, RowInv, MigrationWithdraw
    PROVE  Steps
<1> DEFINE src == disk.mig.src
           dst == disk.mig.dst
<1>1. disk \in Disks /\ disk.obj \in [Volumes -> Rows] /\ WellFormed(disk)
  BY DEF Holding, WellFormed, Disks
<1>2. life' = life /\ setting' = setting /\ known' = known /\ acked' = acked /\ Resumable
  BY DEF MigrationWithdraw, Published, guildVars
<1>3. src \in Volumes /\ dst \in Volumes
  BY <1>1, <1>2, TransferVolumes
<1>4. src # dst
  BY <1>3, NoneIsNone DEF RowInv, Apart
<1>5. /\ disk.obj[dst].ready /\ disk.obj[dst].sound /\ disk.obj[dst].hash = disk.obj[src].hash
      /\ disk.receipt = dst
  BY DEF MigrationWithdraw, Published, SourceRow, DestinationReady
<1>6. /\ disk'.obj = [disk.obj EXCEPT ![src] = NoRow] /\ disk'.receipt = disk.receipt /\ disk'.mig = disk.mig
      /\ disk'.transcript = disk.transcript
  BY <1>1 DEF MigrationWithdraw, Disks
<1> HIDE DEF src, dst
<1>7. /\ \A u \in Volumes : u # src => disk'.obj[u] = disk.obj[u]
      /\ ~disk'.obj[src].ready
  <2>1. ~NoRow.ready
    BY DEF NoRow
  <2> HIDE DEF NoRow
  <2> QED BY <1>1, <1>3, <1>6, <2>1
<1>8. Onward /\ Installed' /\ Absent'
  BY <1>2, <1>6, QuietOnward, QuietInstalled, Zenon DEF Carries
<1>9. RowsNamed'
  BY <1>7, <1>8 DEF RowInv, RowsNamed, Onward
<1>10. Apart'
  BY <1>6 DEF RowInv, Apart
<1>11. Led'
  BY <1>3, <1>4, <1>5, <1>6, <1>7 DEF Led
<1>12. CopyStep
  <2> SUFFICES ASSUME NEW y \in Coding, Copies(disk, y) # {} PROVE Copies(disk', y) # {}
    BY Zenon DEF CopyStep
  <2>1. PICK v \in Volumes : disk.obj[v].ready /\ disk.obj[v].hash = y /\ disk.obj[v].sound
    BY DEF Copies
  <2>2. CASE v # src
    BY <1>7, <2>1, <2>2, Zenon DEF Copies
  <2>3. CASE v = src
    BY <1>3, <1>4, <1>5, <1>7, <2>1, <2>3 DEF Copies
  <2> QED BY <2>2, <2>3
<1> QED BY <1>6, <1>8, <1>9, <1>10, <1>11, <1>12, ReceiptMoves DEF Steps, RowInv

(* The end of a transfer. *)
LEMMA FinishKeeps ==
    ASSUME Holding, RowInv, MigrationFinish
    PROVE  Steps
<1>1. disk \in Disks
  BY DEF Holding, WellFormed
<1>2. life' = life /\ setting' = setting /\ known' = known /\ acked' = acked
  BY DEF MigrationFinish, guildVars
<1>3. /\ disk'.obj = disk.obj /\ disk'.receipt = disk.receipt /\ disk'.mig = NoMigration
      /\ disk'.transcript = disk.transcript
  BY <1>1 DEF MigrationFinish, Disks
<1>4. Carries(disk, disk')
  BY <1>3 DEF Carries, NoMigration
<1>5. RowInv' /\ CopyStep
  BY <1>2, <1>3, <1>4, NodeRests
<1> QED BY <1>3, <1>5, ReceiptMoves DEF Steps

(* Volumes change their states. *)
LEMMA StatesKeep ==
    ASSUME Holding, RowInv,
           \/ \E v \in Volumes : MarkDraining(v) \/ Reactivate(v)
           \/ Scrub
           \/ \E P \in SUBSET {v \in Volumes : disk.state[v] # "Retired"} : Configure(P)
    PROVE  Steps
<1>1. disk \in Disks
  BY DEF Holding, WellFormed
<1>2. life' = life /\ setting' = setting /\ known' = known /\ acked' = acked
  BY Zenon DEF MarkDraining, Reactivate, Scrub, Configure, guildVars
<1>3. \E s : disk' = [disk EXCEPT !.state = s]
  BY Zenon DEF MarkDraining, Reactivate, Scrub, Configure
<1>4. Still(disk, disk')
  BY <1>1, <1>3 DEF Still, Disks
<1>5. RowInv' /\ CopyStep
  BY <1>2, <1>4, NodeRests DEF Still, Carries
<1>6. ReceiptStep
  BY <1>4, ReceiptMoves DEF Still
<1> QED BY <1>5, <1>6 DEF Steps

(* An empty volume retires: the receipt that led there led to no copy. *)
LEMMA RetireKeeps ==
    ASSUME Holding, RowInv, NEW v \in Volumes, RetireVolume(v)
    PROVE  Steps
<1> DEFINE e == SettleEmpty(disk, {v})
<1>1. disk \in Disks
  BY DEF Holding, WellFormed
<1>2. life' = life /\ setting' = setting /\ known' = known /\ acked' = acked /\ Empty(disk, v)
  BY Zenon DEF RetireVolume, guildVars, Owes
<1>3. e \in Disks
  BY SettleEmptyTyped DEF Holding, WellFormed
<1>4. /\ e.obj = disk.obj /\ e.mig = disk.mig /\ e.transcript = disk.transcript
      /\ e.receipt = IF disk.receipt = v THEN None ELSE disk.receipt
  BY <1>1 DEF SettleEmpty, Disks
<1>5. disk' = e \/ \E s : disk' = [e EXCEPT !.state = s]
  BY Zenon DEF RetireVolume
<1> HIDE DEF e
<1>6. Still(e, disk')
  BY <1>3, <1>5 DEF Still, Disks
<1>7. RowInv' /\ CopyStep
  BY <1>2, <1>4, <1>6, NodeRests DEF Still, Carries
<1>8. ReceiptStep
  <2>1. CASE disk.receipt = v
    <3>1. ~Loadable
      BY <1>2, <2>1, Zenon DEF Loadable, Empty, RowInv, RowsNamed
    <3> QED BY <3>1, Zenon DEF ReceiptStep
  <2>2. CASE disk.receipt # v
    BY <1>4, <1>6, <2>2, ReceiptMoves DEF Still
  <2> QED BY <2>1, <2>2
<1> QED BY <1>7, <1>8 DEF Steps

(* A restart settles the locations of retired volumes, none of which is    *)
(* open.                                                                   *)
LEMMA RestartKeeps ==
    ASSUME Holding, RowInv, NEW P, NEW F, Restart(P, F)
    PROVE  Steps
<1> DEFINE retired == {v \in Volumes : disk.state[v] = "Retired"}
<1>1. disk \in Disks
  BY DEF Holding, WellFormed
<1>2. life' = life /\ setting' = setting /\ known' = known /\ acked' = acked
  BY DEF Restart, guildVars
<1>3. PICK s : disk' = SettleEmpty([disk EXCEPT !.state = s], retired)
  BY Zenon DEF Restart
<1> HIDE DEF retired
<1>4. /\ disk'.obj = disk.obj /\ disk'.mig = disk.mig /\ disk'.transcript = disk.transcript
      /\ disk'.receipt = IF disk.receipt \in retired THEN None ELSE disk.receipt
  BY <1>1, <1>3, Zenon DEF SettleEmpty, Disks
<1>5. RowInv' /\ CopyStep
  BY <1>2, <1>4, NodeRests DEF Carries
<1>6. ReceiptStep
  <2>1. CASE disk.receipt \in retired
    <3>1. ~Loadable
      BY <2>1 DEF Loadable, retired, Holding, RetiredIsClosed
    <3> QED BY <3>1, Zenon DEF ReceiptStep
  <2>2. CASE disk.receipt \notin retired
    BY <1>4, <2>2, ReceiptMoves, Zenon
  <2> QED BY <2>1, <2>2
<1> QED BY <1>5, <1>6 DEF Steps

(* Bit rot is the one step that spoils a sound row. *)
LEMMA CorruptKeeps ==
    ASSUME Holding, RowInv, NEW v \in Volumes, Corrupt(v)
    PROVE  Steps
<1> DEFINE row == [disk.obj[v] EXCEPT !.sound = FALSE]
<1>1. disk \in Disks /\ disk.obj \in [Volumes -> Rows]
  BY DEF Holding, WellFormed, Disks
<1>2. life' = life /\ setting' = setting /\ known' = known /\ acked' = acked /\ disk.obj[v].sound
  BY DEF Corrupt, guildVars
<1>3. /\ ~row.sound /\ row.att = disk.obj[v].att /\ row.ready = disk.obj[v].ready
      /\ row.hash = disk.obj[v].hash
  <2>1. disk.obj[v] \in Rows
    BY <1>1
  <2> QED BY <2>1 DEF Rows
<1>4. /\ disk'.obj = [disk.obj EXCEPT ![v] = row] /\ disk'.receipt = disk.receipt
      /\ disk'.mig = disk.mig /\ disk'.transcript = disk.transcript
  BY <1>1, Zenon DEF Corrupt, Disks
<1> HIDE DEF row
<1>5. /\ ~disk'.obj[v].sound
      /\ \A u \in Volumes : /\ disk'.obj[u].att = disk.obj[u].att /\ disk'.obj[u].ready = disk.obj[u].ready
                            /\ disk'.obj[u].hash = disk.obj[u].hash
  BY <1>1, <1>3, <1>4
<1>6. Onward /\ Installed' /\ Absent'
  BY <1>2, <1>4, QuietOnward, QuietInstalled, ZenonT(30) DEF Carries
<1>7. RowsNamed'
  BY <1>5, <1>6 DEF RowInv, RowsNamed, Onward
<1>8. Apart'
  BY <1>4, Zenon DEF RowInv, Apart
<1>9. Led'
  <2>1. disk.receipt \in Volumes \cup {None}
    BY <1>1 DEF Disks
  <2> QED BY <1>4, <1>5, <1>6, <2>1 DEF RowInv, Led, Onward, Emergency
<1>10. CopyStep
  BY <1>2, <1>5 DEF CopyStep
<1> QED BY <1>4, <1>6, <1>7, <1>8, <1>9, <1>10, ReceiptMoves, ZenonT(30) DEF Steps, RowInv

-----------------------------------------------------------------------------

(* What is said of rows and receipt holds at first. *)
LEMMA InitRows == Init => RowInv
<1> SUFFICES ASSUME Init PROVE RowInv
  OBVIOUS
<1>1. /\ disk.obj = [v \in Volumes |-> NoRow] /\ disk.receipt = None /\ disk.mig = NoMigration
      /\ disk.transcript = IF Emergency THEN {1} ELSE {}
  BY Zenon DEF Init
<1>2. /\ life = [x \in Coding |-> IF Emergency /\ x = 1 THEN "added" ELSE "none"]
      /\ known = [x \in Coding |-> IF Emergency /\ x = 1 THEN "added" ELSE "none"]
      /\ acked = {}
  BY Zenon DEF Init
<1> HIDE DEF Init
<1>3. ~NoRow.ready /\ NoMigration.dst = None
  BY DEF NoRow, NoMigration
<1>4. RowsNamed /\ Apart /\ Led
  BY <1>1, <1>3 DEF RowsNamed, Apart, Led
<1>5. Installed
  BY <1>1, <1>2 DEF Installed
<1>6. Absent
  BY <1>2, FirstAttempt DEF Absent
<1> QED BY <1>4, <1>5, <1>6 DEF RowInv

(* Every step of the node keeps it, and is as LastCopyKept and ReceiptKept *)
(* say.                                                                    *)
LEMMA NextKeeps ==
    ASSUME Holding, RowInv, Next
    PROVE  Steps
<1>1. CASE GuildStep
  BY <1>1, GuildKeeps
<1>2. CASE AttemptStep
  BY <1>2, UploadKeeps, ActivationKeeps, DiscardKeeps, RepairKeeps, Zenon DEF AttemptStep
<1>3. CASE EvacuationStep
  BY <1>3, BeginKeeps, CopyKeeps, PublishKeeps, WithdrawKeeps, FinishKeeps, StatesKeep, RetireKeeps, Zenon
  DEF EvacuationStep
<1>4. CASE FaultStep
  BY <1>4, StatesKeep, RestartKeeps, Zenon DEF FaultStep
<1>5. CASE RotStep
  BY <1>5, CorruptKeeps, ZenonT(30) DEF RotStep
<1>6. CASE RemoveEmergency
  BY <1>6, EmergencyKeeps
<1> QED BY <1>1, <1>2, <1>3, <1>4, <1>5, <1>6, ZenonT(30) DEF Next, HolderNext

(* Doing nothing keeps it too. *)
LEMMA RowsStutter ==
    ASSUME RowInv, UNCHANGED vars
    PROVE  RowInv'
<1>1. disk' = disk /\ life' = life /\ known' = known /\ acked' = acked /\ setting' = setting
  BY DEF vars
<1> QED BY <1>1 DEF RowInv, RowsNamed, Apart, Installed, Absent, Led, Pristine, Emergency

(* Holding and RowInv together are inductive. *)
LEMMA RowsHold == Spec => [](Holding /\ RowInv)
<1>1. Init => Holding /\ RowInv
  BY InitHolds, InitRows
<1>2. Holding /\ RowInv /\ [Next]_vars => (Holding /\ RowInv)'
  BY NextHolds, NextKeeps, RowsStutter, Zenon DEF Steps
<1> QED BY <1>1, <1>2, PTL DEF Spec

(* While the group of a coding attempt is owed to the guild or retained by *)
(* this node, no step but bit rot takes its last sound copy away: whatever *)
(* attempts before it are discarded, volumes drained, shards repaired, and *)
(* wherever an operation is cut.                                           *)
THEOREM LastCopySurvives == Spec => LastCopyKept
<1>1. Holding /\ RowInv /\ [Next]_vars => [CopyStep]_vars
  BY NextKeeps DEF Steps
<1>2. Spec => [][CopyStep]_vars
  BY <1>1, RowsHold, PTL DEF Spec
<1> QED BY <1>2 DEF LastCopyKept, CopyStep

(* The active receipt of an owed group leads to a READY row with its       *)
(* evidence, whichever write of activation, repair or evacuation was the   *)
(* last before a crash.                                                    *)
THEOREM ReceiptLeads == Spec => []ReceiptLeadsToCopy
<1>1. Holding /\ RowInv => ReceiptLeadsToCopy
  <2> SUFFICES ASSUME Holding, RowInv, NEW x \in Coding, Owed(x), disk.receipt # None, OneAttempt
               PROVE  disk.obj[disk.receipt].ready /\ disk.obj[disk.receipt].hash = x
    BY DEF ReceiptLeadsToCopy
  <2>1. life[x] \in {"open", "added"} /\ ~Emergency
    BY DEF Owed, RowInv, Absent
  <2>2. Pristine
    BY <2>1, OneOnly, Zenon DEF Pristine
  <2>3. disk.receipt \in Volumes /\ disk.obj[disk.receipt].ready
    BY <2>1, <2>2, Zenon DEF RowInv, Led, Holding, WellFormed, Disks
  <2>4. disk.obj[disk.receipt].hash \in Coding /\ life[disk.obj[disk.receipt].hash] # "none"
    BY <2>3 DEF RowInv, RowsNamed
  <2>5. disk.obj[disk.receipt].hash = x
    BY <2>1, <2>4, OneOnly
  <2> QED BY <2>3, <2>5, Zenon
<1> QED BY <1>1, RowsHold, PTL

(* No repair, evacuation, retirement of a volume or restart gives up the   *)
(* receipt of an owed group while the shard it leads to can be read.       *)
THEOREM ReceiptStays == Spec => ReceiptKept
<1>1. Holding /\ RowInv /\ [Next]_vars => [ReceiptStep]_vars
  BY NextKeeps DEF Steps
<1>2. Spec => [][ReceiptStep]_vars
  BY <1>1, RowsHold, PTL DEF Spec
<1> QED BY <1>2 DEF ReceiptKept, ReceiptStep

-----------------------------------------------------------------------------
(* The emergency shard.                                                    *)

(* A record from which the removal of the emergency shard finds v, or      *)
(* knows that it cannot look there.                                        *)
Leads(d, v) == v = d.receipt \/ v \in d.cleanup \/ v \in {d.mig.src, d.mig.dst}

(* Every row is READY, a record leads to it and the marker of the          *)
(* emergency shard is kept.                                                *)
Tended(d) ==
    \A v \in Volumes : ~Empty(d, v) => d.obj[v].ready /\ d.marker /\ Leads(d, v)

(* The group of the absent holder is the only one. *)
Alone == \A x \in Coding : x # 1 => life[x] = "none"

EmergencyInv == Emergency /\ ~Cuts => Alone /\ Tended(disk)

(* A write that touches no row and unnames none. *)
LEMMA TendedStays ==
    ASSUME NEW d, NEW e, Tended(d), e.obj = d.obj, d.marker => e.marker,
           \A v \in Volumes : ~Empty(d, v) /\ Leads(d, v) => Leads(e, v)
    PROVE  Tended(e)
BY Zenon DEF Tended, Empty

(* The log has no step for this group that concerns the node's rows. *)
LEMMA GuildTends ==
    ASSUME Holding, RowInv, Emergency, Alone, Tended(disk), GuildStep
    PROVE  life' = life /\ setting' = setting /\ Tended(disk')
<1>1. PICK x \in Coding : \/ Plan(x) \/ Abort(x) \/ Certify(x)
                          \/ InstallAdd(x) \/ InstallAddAgain(x) \/ InstallForget(x)
  BY DEF GuildStep
<1>2. life[x] \in {"none", "added"} /\ (life[x] = "added" => known[x] # "none")
  BY DEF RowInv, Absent, Alone
<1>3. InstallAddAgain(x)
  BY <1>1, <1>2 DEF Plan, Abort, Certify, InstallAdd, InstallForget
<1>4. /\ disk'.obj = disk.obj /\ disk'.marker = disk.marker /\ disk'.receipt = disk.receipt
      /\ disk'.cleanup = disk.cleanup /\ disk'.mig = disk.mig
  BY <1>3 DEF InstallAddAgain, FinalizeAttempt, Holding, WellFormed, Disks
<1>5. Tended(disk')
  BY <1>4, TendedStays DEF Leads
<1> QED BY <1>3, <1>5 DEF InstallAddAgain, guildVars

(* There is no attempt to upload, activate or discard. *)
LEMMA NoAttempt ==
    ASSUME RowInv, Emergency, Alone, NEW x \in Coding
    PROVE  ~UploadParity(x) /\ ~ActivateCoding(x) /\ ~DiscardCoding(x)
<1>1. life[x] \in {"none", "added"} /\ GroupRetained
  BY FirstAttempt DEF RowInv, Absent, Alone, GroupRetained, Retained
<1> QED BY <1>1 DEF UploadParity, ActivateCoding, DiscardCoding

(* prepare_variable_repair: a receipt that is dropped led to a row that is *)
(* marked for cleanup, or to none.                                         *)
LEMMA PreparedTends ==
    ASSUME NEW d \in Disks, Tended(d), ~(d.receipt \in open /\ d.obj[d.receipt].ready /\ d.obj[d.receipt].sound)
    PROVE  Tended(Prepared(d)) /\ Prepared(d).receipt = None /\ Prepared(d).obj = d.obj
           /\ Prepared(d).marker = d.marker
<1> DEFINE c == IF d.receipt # None /\ (d.receipt \notin open \/ Damaged(d))
                  THEN d.cleanup \cup {d.receipt} ELSE d.cleanup
           u == Unlocated(d)
           p == Prepared(d)
<1>1. u = [[d EXCEPT !.cleanup = c] EXCEPT !.receipt = None]
  BY DEF Unlocated, Suspected, DropReceipt
<1>2. p = u \/ \E s : p = [u EXCEPT !.state = s]
  BY DEF Prepared
<1> HIDE DEF c, u, p
<1>3. /\ u.obj = d.obj /\ u.marker = d.marker /\ u.receipt = None /\ u.cleanup = c /\ u.mig = d.mig
  BY <1>1 DEF Disks
<1>4. DOMAIN u = DOMAIN d
  BY <1>1, Zenon DEF Disks
<1>5. /\ p.obj = d.obj /\ p.marker = d.marker /\ p.receipt = None /\ p.cleanup = c /\ p.mig = d.mig
  BY <1>1, <1>2, <1>3, <1>4, Zenon DEF Disks
<1>6. ASSUME NEW v \in Volumes, ~Empty(d, v), Leads(d, v) PROVE Leads(p, v)
  <2>1. d.obj[v].ready /\ v # None
    BY <1>6, NoneIsNone, Zenon DEF Tended
  <2>2. CASE v = d.receipt
    BY <1>5, <2>1, <2>2, Zenon DEF Leads, Damaged, c
  <2>3. CASE v # d.receipt
    BY <1>5, <1>6, <2>3, ZenonT(30) DEF Leads, c
  <2> QED BY <2>2, <2>3
<1>7. Tended(p)
  BY <1>5, <1>6, TendedStays
<1> QED BY <1>5, <1>7 DEF p

(* finish_attempt_upload fills at most the reserved volume, with a STAGED  *)
(* row that may then be activated; elsewhere nothing changes.              *)
LEMMA FinishedRow ==
    ASSUME NEW d, WellFormed(d), NEW x \in Attempts, UploadVolume(d, x) \in open, open \subseteq Volumes
    PROVE  LET v == UploadVolume(d, x)
               f == Finished(d, x)
           IN  /\ f.rec[x] = v /\ f.receipt = d.receipt /\ f.marker = d.marker
               /\ f.cleanup = d.cleanup /\ f.mig = d.mig
               /\ f.obj = IF Empty(d, v) THEN [d.obj EXCEPT ![v] = [NoRow EXCEPT !.att = x]] ELSE d.obj
<1> DEFINE v == UploadVolume(d, x)
           s == Staged(d, x)
           r == Received(d, x)
           f == Finished(d, x)
           row == IF Empty(d, v) THEN [NoRow EXCEPT !.att = x] ELSE d.obj[v]
<1>1. d \in Disks /\ d.obj \in [Volumes -> Rows] /\ v \in Volumes
  BY DEF WellFormed, Disks
<1>2. s = [d EXCEPT !.obj[v] = row, !.held = @ \ {<<v, x>>}]
  BY <1>1 DEF Staged
<1>3. r = [s EXCEPT !.rec[x] = v] /\ f = [r EXCEPT !.resv[x] = None]
  BY Zenon DEF Received, Finished
<1>4. s \in Disks /\ r \in Disks
  BY StagedWrites, FinishWrites DEF FinishSteps, Writes, WellFormed
<1> HIDE DEF v, s, r, f, row
<1>5. /\ s.obj = [d.obj EXCEPT ![v] = row] /\ s.receipt = d.receipt /\ s.marker = d.marker
      /\ s.cleanup = d.cleanup /\ s.mig = d.mig
  BY <1>1, <1>2 DEF Disks
<1>6. /\ r.obj = s.obj /\ r.receipt = s.receipt /\ r.marker = s.marker /\ r.cleanup = s.cleanup
      /\ r.mig = s.mig /\ r.rec[x] = v
  BY <1>3, <1>4 DEF Disks
<1>7. /\ f.obj = r.obj /\ f.receipt = r.receipt /\ f.marker = r.marker /\ f.cleanup = r.cleanup
      /\ f.mig = r.mig /\ f.rec = r.rec
  BY <1>3, <1>4 DEF Disks
<1>8. s.obj = IF Empty(d, v) THEN [d.obj EXCEPT ![v] = [NoRow EXCEPT !.att = x]] ELSE d.obj
  <2>1. CASE Empty(d, v)
    BY <1>5, <2>1 DEF row
  <2>2. CASE ~Empty(d, v)
    BY <1>1, <1>5, <2>2, Zenon DEF row
  <2> QED BY <2>1, <2>2
<1> QED BY <1>5, <1>6, <1>7, <1>8 DEF v, f

(* activate_attempt_object makes that row READY and leads to it. *)
LEMMA ActivatedRow ==
    ASSUME NEW d, WellFormed(d), NEW x \in Attempts, NEW h \in Coding, d.rec[x] \in open, open \subseteq Volumes
    PROVE  LET v == d.rec[x]
               a == Activated(d, x, h)
           IN  /\ a.receipt = v /\ a.obj[v].ready /\ a.marker = d.marker /\ a.mig = d.mig
               /\ \A u \in Volumes \ {v} : a.obj[u] = d.obj[u]
               /\ d.cleanup \subseteq a.cleanup
               /\ d.receipt \in a.cleanup \cup {v, None}
<1> DEFINE v == d.rec[x]
           r == Ready(d, x, h)
           s == Superseded(d, x, h)
           a == Activated(d, x, h)
           row == [[d.obj[v] EXCEPT !.ready = TRUE] EXCEPT !.hash = h]
           more == IF d.receipt \in {None, v} THEN r.cleanup ELSE r.cleanup \cup {d.receipt}
<1>1. d \in Disks /\ d.obj \in [Volumes -> Rows] /\ v \in Volumes
  BY DEF WellFormed, Disks
<1>2. row.ready
  <2>1. d.obj[v] \in Rows
    BY <1>1
  <2> HIDE DEF v
  <2> QED BY <2>1 DEF Rows
<1>3. /\ r.obj = [d.obj EXCEPT ![v] = row] /\ r.receipt = d.receipt /\ r.mig = d.mig
      /\ r.cleanup = d.cleanup /\ r.marker = d.marker
  BY <1>1, ZenonT(30) DEF Ready, Disks
<1>4. r \in Disks /\ s \in Disks
  BY <1>1, ActivateWrites DEF ActivateSteps, Writes, WellFormed
<1>5. s = [r EXCEPT !.cleanup = more]
  BY DEF Superseded
<1>6. a = [s EXCEPT !.receipt = v]
  BY DEF Activated
<1> HIDE DEF v, r, s, a, row, more
<1>7. s.obj = r.obj /\ s.mig = r.mig /\ s.cleanup = more /\ s.marker = r.marker
  BY <1>4, <1>5 DEF Disks
<1>8. a.obj = s.obj /\ a.mig = s.mig /\ a.cleanup = s.cleanup /\ a.marker = s.marker /\ a.receipt = v
  BY <1>4, <1>6, Zenon DEF Disks
<1>9. \A u \in Volumes : a.obj[u] = IF u = v THEN row ELSE d.obj[u]
  BY <1>1, <1>3, <1>7, <1>8, SMTT(30)
<1>10. d.cleanup \subseteq a.cleanup /\ d.receipt \in a.cleanup \cup {v, None}
  BY <1>3, <1>7, <1>8 DEF more
<1> QED BY <1>1, <1>2, <1>3, <1>7, <1>8, <1>9, <1>10, ZenonT(30) DEF v, a

(* install_repaired_variable_shard, when it is not cut: the rebuilt row is *)
(* READY and the receipt leads to it.                                      *)
LEMMA RepairTends ==
    ASSUME Holding, RowInv, Emergency, ~Cuts, Tended(disk),
           NEW x \in Coding, NEW r \in Repairs, NEW v \in Volumes, Repair(x, r, v)
    PROVE  Tended(disk')
<1> DEFINE begun == [disk EXCEPT !.repair = r, !.marker = Emergency]
           ended == [begun EXCEPT !.repair = None]
           prepared == Prepared(begun)
           reserved == Reserved(prepared, r, v)
           finished == Finished(reserved, r)
           active == Activated(finished, r, x)
<1>1. r \in Attempts /\ WellFormed(disk) /\ open \subseteq Volumes /\ disk \in Disks
  BY DEF Attempts, Holding, WellFormed
<1>2. WellFormed(begun) /\ begun \in Disks
  <2>1. Emergency \in BOOLEAN
    BY VolumesAssumption, Zenon DEF Holding, Bookkeeping, Emergency
  <2> QED BY <1>1, <2>1, MarksWrite, ZenonT(30) DEF Writes, WellFormed
<1>3. /\ begun.obj = disk.obj /\ begun.marker /\ begun.receipt = disk.receipt
      /\ begun.cleanup = disk.cleanup /\ begun.mig = disk.mig
  BY <1>1 DEF Disks
<1>4. /\ ended.obj = disk.obj /\ ended.marker /\ ended.receipt = disk.receipt
      /\ ended.cleanup = disk.cleanup /\ ended.mig = disk.mig
  BY <1>1, Zenon DEF Disks
<1>5. Tended(begun) /\ Tended(ended)
  <2> HIDE DEF begun, ended
  <2> QED BY <1>3, <1>4, TendedStays DEF Leads
<1>6. CASE Loadable
  <2>1. disk' = ended
    BY <1>6 DEF Repair, Performs
  <2> QED BY <1>5, <2>1
<1>7. CASE ~Loadable
  <2>1. /\ Tended(prepared) /\ prepared.receipt = None /\ prepared.marker
        /\ WellFormed(prepared) /\ prepared \in Disks
    <3> HIDE DEF begun
    <3>1. ~(begun.receipt \in open /\ begun.obj[begun.receipt].ready /\ begun.obj[begun.receipt].sound)
      BY <1>3, <1>7 DEF Loadable
    <3>2. WellFormed(prepared)
      BY <1>1, <1>2, PreparedWrites DEF Writes
    <3> QED BY <1>2, <1>3, <1>5, <3>1, <3>2, PreparedTends, ZenonT(30) DEF WellFormed
  <2>2. CASE ~MayReserve(prepared, r, v)
    <3>1. disk' = prepared
      BY <1>7, <2>2, Zenon DEF Repair, Performs
    <3> QED BY <2>1, <3>1
  <2>3. ASSUME MayReserve(prepared, r, v)
        PROVE  /\ Tended(reserved) /\ reserved.receipt = None /\ reserved.marker /\ WellFormed(reserved)
    <3>1. v \in open
      BY <2>3 DEF MayReserve
    <3> HIDE DEF prepared
    <3>2. /\ reserved.obj = prepared.obj /\ reserved.receipt = prepared.receipt
          /\ reserved.marker = prepared.marker /\ reserved.cleanup = prepared.cleanup
          /\ reserved.mig = prepared.mig
      BY <2>1, Zenon DEF Reserved, Recorded, Disks
    <3>3. WellFormed(reserved)
      BY <1>1, <2>1, <3>1, ReservedWrites, Zenon DEF Writes
    <3> HIDE DEF reserved
    <3> QED BY <2>1, <3>2, <3>3, TendedStays, Zenon DEF Leads
  <2>4. CASE MayReserve(prepared, r, v) /\ ~MayFinish(reserved, r)
    <3>1. disk' = reserved
      BY <1>7, <2>4 DEF Repair, Performs
    <3> QED BY <2>3, <2>4, <3>1
  <2>5. CASE MayReserve(prepared, r, v) /\ MayFinish(reserved, r)
    <3>1. disk' = IF MayActivate(finished, r, x) THEN [active EXCEPT !.repair = None] ELSE finished
      BY <1>7, <2>5 DEF Repair, Performs
    <3>2. /\ Tended(reserved) /\ reserved.receipt = None /\ reserved.marker /\ WellFormed(reserved)
          /\ UploadVolume(reserved, r) \in open
      BY <2>3, <2>5 DEF MayFinish
    <3> HIDE DEF begun, ended, prepared, reserved
    <3>3. PICK w : w = UploadVolume(reserved, r)
      OBVIOUS
    <3>4. /\ finished.rec[r] = w /\ finished.receipt = None /\ finished.marker
          /\ finished.cleanup = reserved.cleanup /\ finished.mig = reserved.mig
          /\ finished.obj = IF Empty(reserved, w) THEN [reserved.obj EXCEPT ![w] = [NoRow EXCEPT !.att = r]]
                                                 ELSE reserved.obj
      BY <1>1, <3>2, <3>3, FinishedRow, Zenon
    <3>5. WellFormed(finished) /\ w \in open /\ w \in Volumes
      BY <1>1, <3>2, <3>3, FinishWrites, Zenon DEF FinishSteps, Writes
    <3>6. reserved.obj \in [Volumes -> Rows]
      BY <3>2, ZenonT(30) DEF WellFormed, Disks
    <3> HIDE DEF finished
    <3>7. CASE MayActivate(finished, r, x)
      <4>1. /\ active.receipt = w /\ active.obj[w].ready /\ active.marker /\ active.mig = finished.mig
            /\ \A u \in Volumes \ {w} : active.obj[u] = finished.obj[u]
            /\ finished.cleanup \subseteq active.cleanup
        <5>1. finished.rec[r] \in open
          BY <3>4, <3>5
        <5>2. LET w0 == finished.rec[r]
                  a == Activated(finished, r, x)
              IN  /\ a.receipt = w0 /\ a.obj[w0].ready /\ a.marker = finished.marker /\ a.mig = finished.mig
                  /\ \A u \in Volumes \ {w0} : a.obj[u] = finished.obj[u]
                  /\ finished.cleanup \subseteq a.cleanup
                  /\ finished.receipt \in a.cleanup \cup {w0, None}
          BY <1>1, <3>5, <5>1, ActivatedRow, Zenon
        <5> HIDE DEF active
        <5> QED BY <3>4, <5>2 DEF active
      <4>2. active \in Disks
        BY <1>1, <3>4, <3>5, ActivateWrites DEF Writes, WellFormed
      <4> HIDE DEF active
      <4>3. disk' = [active EXCEPT !.repair = None]
        BY <3>1, <3>7
      <4>4. /\ disk'.obj = active.obj /\ disk'.receipt = w /\ disk'.marker /\ disk'.mig = reserved.mig
            /\ disk'.cleanup = active.cleanup
        BY <3>4, <4>1, <4>2, <4>3 DEF Disks
      <4>5. ASSUME NEW u \in Volumes, u # w, ~Empty(disk', u)
            PROVE  disk'.obj[u].ready /\ Leads(disk', u)
        <5>1. disk'.obj[u] = reserved.obj[u]
          BY <3>4, <3>6, <4>1, <4>4, <4>5, ZenonT(30)
        <5>2. reserved.obj[u].ready /\ Leads(reserved, u)
          BY <3>2, <4>5, <5>1 DEF Tended, Empty
        <5>3. u # None
          BY NoneIsNone
        <5> QED BY <3>2, <3>4, <4>1, <4>4, <5>1, <5>2, <5>3, Zenon DEF Leads
      <4> QED BY <4>1, <4>4, <4>5 DEF Tended, Leads
    <3>8. CASE ~MayActivate(finished, r, x)
      <4>1. ~Empty(reserved, w)
        <5>1. SUFFICES ASSUME Empty(reserved, w) PROVE FALSE
          OBVIOUS
        <5>2. finished.obj[w] = [NoRow EXCEPT !.att = r]
          BY <3>4, <3>5, <3>6, <5>1
        <5>3. finished.obj[w].att = r /\ ~finished.obj[w].ready
          BY <5>2 DEF NoRow
        <5> QED BY <3>4, <3>5, <3>8, <5>3 DEF MayActivate
      <4>2. finished.obj = reserved.obj
        BY <3>4, <4>1
      <4>3. Tended(finished)
        BY <3>2, <3>4, <4>2, TendedStays DEF Leads
      <4> QED BY <3>1, <3>8, <4>3
    <3> QED BY <3>7, <3>8
  <2> QED BY <2>2, <2>4, <2>5
<1> QED BY <1>6, <1>7

(* remove_local_variable_emergency_shards, when it is not cut: the marker  *)
(* goes only if no record leads to a closed volume, and then no closed     *)
(* volume holds a row.                                                     *)
LEMMA RemovalTends ==
    ASSUME Holding, ~Cuts, Tended(disk), RemoveEmergency
    PROVE  Tended(disk')
<1> DEFINE c == CancelMigration(disk, None)
           start == RemovalStart(disk, None)
           e0 == Visit(start, None, None, Volumes)
           e1 == Visited(start, None, None)
           e2 == Settle(e1, None)
           e3 == RemovalLocated(start, None, None)
           e4 == Removed(start, None, None)
           clear == RemovalClear(start, None, None)
           complete == RemovalComplete(start, None, None)
<1>1. WellFormed(disk) /\ open \subseteq Volumes /\ disk \in Disks /\ None \in Coding \cup {None}
  BY DEF Holding, WellFormed
<1>2. disk' = [e4 EXCEPT !.marker = ~complete] /\ disk.marker
  BY Zenon DEF RemoveEmergency, Performs
<1>3. c \in Disks /\ start \in Disks /\ WellFormed(start)
  BY <1>1, RemovalWrites, ZenonT(30) DEF Writes, WellFormed
<1>4. /\ c.obj = disk.obj /\ c.receipt = disk.receipt
      /\ \A v \in Volumes : Leads(disk, v) => v = c.receipt \/ v \in c.cleanup
  <2>1. CASE disk.mig = NoMigration
    <3>1. c = disk /\ disk.mig.src = None /\ disk.mig.dst = None
      BY <2>1 DEF CancelMigration, NoMigration
    <3> HIDE DEF c
    <3> QED BY <3>1, NoneIsNone DEF Leads
  <2>2. CASE disk.mig # NoMigration
    <3> DEFINE m == [disk.mig EXCEPT !.cancelled = TRUE]
    <3>1. c = [disk EXCEPT !.cleanup = disk.cleanup \cup {disk.mig.src, disk.mig.dst}, !.mig = m]
      BY <1>1, <2>2 DEF CancelMigration, Disks
    <3> HIDE DEF c, m
    <3>2. c.obj = disk.obj /\ c.receipt = disk.receipt
          /\ c.cleanup = disk.cleanup \cup {disk.mig.src, disk.mig.dst}
      BY <1>1, <3>1, Zenon DEF Disks
    <3> QED BY <3>2 DEF Leads
  <2> QED BY <2>1, <2>2, Zenon
<1>5. start.obj = c.obj /\ start.receipt = c.receipt /\ start.cleanup = c.cleanup
  <2>1. start = Settle(c, None)
    BY DEF RemovalStart
  <2> HIDE DEF c, start
  <2> QED BY <1>3, <2>1, Zenon DEF Settle, Disks
<1>6. complete => clear
  BY DEF RemovalComplete
<1> HIDE DEF c, start
<1>7. \A v \in Volumes : ~Empty(start, v) =>
        start.obj[v].ready /\ (v = start.receipt \/ v \in start.cleanup)
  BY <1>4, <1>5 DEF Tended, Empty
<1>8. /\ e0 \in Disks /\ e1 \in Disks /\ e2 \in Disks /\ e3 \in Disks /\ e4 \in Disks
  <2>1. \A e \in RemovalSteps(start, None, None) : e \in Disks
    BY <1>1, <1>3, RemovalWrites DEF Writes, WellFormed
  <2>2. {e1, e2, e3, e4} \subseteq RemovalSteps(start, None, None)
    BY ZenonT(30) DEF RemovalSteps
  <2>3. e0 \in Disks
    BY <1>1, <1>3, VisitWrites DEF Writes, WellFormed
  <2> HIDE DEF e0, e1, e2, e3, e4
  <2> QED BY <2>1, <2>2, <2>3, ZenonT(30)
<1>9. \A v \in Volumes : e0.obj[v] = IF v \in open /\ ~Empty(start, v) /\ start.obj[v].ready
                                       THEN NoRow ELSE start.obj[v]
  BY <1>1, <1>3 DEF Visit, Old, Disks
<1>10. e0.receipt = start.receipt
  BY <1>3 DEF Visit, Disks
<1>11. e1.obj = e0.obj /\ e1.receipt = e0.receipt /\ e1.cleanup = Leftover(start, None, None)
  <2> HIDE DEF e0
  <2>1. PICK state : e1 = [e0 EXCEPT !.cleanup = Leftover(start, None, None), !.state = state]
    BY ZenonT(30) DEF Visited, e0
  <2> HIDE DEF e1
  <2> QED BY <1>8, <2>1 DEF Disks
<1>12. e2.obj = e1.obj /\ e2.receipt = e1.receipt /\ e2.cleanup = e1.cleanup
  <2> HIDE DEF e1
  <2> QED BY <1>8, Zenon DEF Settle, Disks
<1>13. e3.obj = e2.obj /\ e3.cleanup = e2.cleanup /\ (~clear => e3.receipt = e2.receipt)
  <2>1. e3 = DropReceipt(e2, clear /\ Newer(start, None, None) = {})
    BY DEF RemovalLocated
  <2> HIDE DEF e1, e2, e3, clear
  <2> QED BY <1>8, <2>1 DEF DropReceipt, Disks
<1>14. e4.obj = e3.obj /\ e4.cleanup = e3.cleanup /\ e4.receipt = e3.receipt
  <2>1. e4 = e3 \/ e4 = [e3 EXCEPT !.mig = NoMigration]
    BY DEF Removed, DropMigration
  <2> HIDE DEF e3, e4
  <2> QED BY <1>8, <2>1 DEF Disks
<1>15. ASSUME clear, NEW v \in Volumes \ open PROVE v # start.receipt /\ v \notin start.cleanup
  BY <1>15 DEF RemovalClear, Reached
<1>16. start.cleanup \ open \subseteq Leftover(start, None, None)
  BY DEF Leftover
<1> HIDE DEF e0, e1, e2, e3, e4, clear, complete
<1>17. /\ disk'.obj = e4.obj /\ disk'.cleanup = e4.cleanup /\ disk'.receipt = e4.receipt
       /\ disk'.marker = ~complete
  BY <1>2, <1>8, Zenon DEF Disks
<1>18. ASSUME NEW v \in Volumes, ~Empty(disk', v)
       PROVE  disk'.obj[v].ready /\ disk'.marker /\ Leads(disk', v)
  <2>1. disk'.obj[v] = e0.obj[v] /\ NoRow.att = None
    BY <1>11, <1>12, <1>13, <1>14, <1>17 DEF NoRow
  <2>2. v \notin open /\ e0.obj[v] = start.obj[v] /\ ~Empty(start, v)
    BY <1>7, <1>9, <1>18, <2>1, Zenon DEF Empty
  <2>3. ~clear
    BY <1>7, <1>15, <2>2, Zenon
  <2>4. disk'.receipt = start.receipt /\ start.cleanup \ open \subseteq disk'.cleanup
    BY <1>10, <1>11, <1>12, <1>13, <1>14, <1>16, <1>17, <2>3, ZenonT(30)
  <2> QED BY <1>6, <1>7, <1>17, <2>1, <2>2, <2>3, <2>4, ZenonT(30) DEF Leads
<1> QED BY <1>18 DEF Tended

(* A transfer names its volumes from the intent to the end, when the       *)
(* source is empty and the receipt leads to the destination.               *)
LEMMA TransferTends ==
    ASSUME Holding, Tended(disk),
           \/ \E v, w \in Volumes : MigrationBegin(v, w)
           \/ MigrationCopy \/ MigrationPublish \/ MigrationWithdraw \/ MigrationFinish
    PROVE  Tended(disk')
<1>1. disk \in Disks /\ disk.obj \in [Volumes -> Rows]
  BY Zenon DEF Holding, WellFormed, Disks
<1>2. ASSUME NEW v \in Volumes, NEW w \in Volumes, MigrationBegin(v, w) PROVE Tended(disk')
  <2>1. disk.mig.src = None /\ disk.mig.dst = None
    <3>1. disk.mig = NoMigration
      BY <1>2, ZenonT(30) DEF MigrationBegin
    <3> QED BY <3>1 DEF NoMigration
  <2>2. /\ disk'.obj = disk.obj /\ disk'.marker = disk.marker /\ disk'.receipt = disk.receipt
        /\ disk.cleanup \subseteq disk'.cleanup
    BY <1>1, <1>2, ZenonT(30) DEF MigrationBegin, Disks
  <2> QED BY <2>1, <2>2, NoneIsNone, TendedStays, SMTT(30) DEF Leads
<1>3. CASE MigrationCopy
  <2> DEFINE s == disk.mig.src
             t == disk.mig.dst
  <2>1. s \in Volumes /\ t \in Volumes
    BY <1>3, TransferVolumes DEF MigrationCopy, Resumable, Holding
  <2>2. /\ disk'.obj = [disk.obj EXCEPT ![t] = disk.obj[s]] /\ disk'.marker = disk.marker
        /\ disk'.receipt = disk.receipt /\ disk'.cleanup = disk.cleanup /\ disk'.mig = disk.mig
    BY <1>1, <1>3, Zenon DEF MigrationCopy, Disks
  <2>3. \A v \in Volumes : disk'.obj[v] = IF v = t THEN disk.obj[s] ELSE disk.obj[v]
    BY <1>1, <2>1, <2>2, Zenon
  <2> QED BY <2>1, <2>2, <2>3 DEF Tended, Leads, Empty
<1>4. CASE MigrationPublish
  <2>1. disk.receipt \in {disk.mig.src, disk.mig.dst}
    BY <1>4 DEF MigrationPublish, Resumable
  <2>2. /\ disk'.obj = disk.obj /\ disk'.marker = disk.marker
        /\ disk'.cleanup = disk.cleanup /\ disk'.mig = disk.mig
    BY <1>1, <1>4, ZenonT(30) DEF MigrationPublish, Disks
  <2> QED BY <2>1, <2>2, TendedStays, Zenon DEF Leads
<1>5. CASE MigrationWithdraw
  <2>1. /\ disk'.obj = [disk.obj EXCEPT ![disk.mig.src] = NoRow] /\ disk'.marker = disk.marker
        /\ disk'.receipt = disk.receipt /\ disk'.cleanup = disk.cleanup /\ disk'.mig = disk.mig
    BY <1>1, <1>5 DEF MigrationWithdraw, Disks
  <2>2. \A v \in Volumes : disk'.obj[v] = NoRow \/ disk'.obj[v] = disk.obj[v]
    BY <1>1, <2>1
  <2>3. NoRow.att = None
    BY Zenon DEF NoRow
  <2> QED BY <2>1, <2>2, <2>3 DEF Tended, Leads, Empty
<1>6. CASE MigrationFinish
  <2>1. Empty(disk, disk.mig.src) /\ disk.receipt = disk.mig.dst
    BY <1>6 DEF MigrationFinish, Published
  <2>2. /\ disk'.obj = disk.obj /\ disk'.marker = disk.marker /\ disk'.receipt = disk.receipt
        /\ disk'.cleanup = disk.cleanup \ {disk.mig.src, disk.mig.dst}
    BY <1>1, <1>6 DEF MigrationFinish, Disks
  <2> QED BY <2>1, <2>2, TendedStays DEF Leads
<1> QED BY <1>2, <1>3, <1>4, <1>5, <1>6, Zenon

(* Volumes change their states, rows rot, and the records of empty volumes *)
(* are settled.                                                            *)
LEMMA VolumesTend ==
    ASSUME Holding, Tended(disk),
           \/ \E v \in Volumes : MarkDraining(v) \/ Reactivate(v) \/ RetireVolume(v) \/ Corrupt(v)
           \/ FaultStep
    PROVE  Tended(disk')
<1>1. disk \in Disks /\ disk.obj \in [Volumes -> Rows]
  BY DEF Holding, WellFormed, Disks
<1>2. ASSUME NEW V, \A v \in V \cap Volumes : Empty(disk, v), NEW s,
             \/ disk' = SettleEmpty(disk, V)
             \/ disk' = [SettleEmpty(disk, V) EXCEPT !.state = s]
             \/ disk' = SettleEmpty([disk EXCEPT !.state = s], V)
      PROVE  Tended(disk')
  <2>1. /\ disk'.obj = disk.obj /\ disk'.marker = disk.marker /\ disk'.mig = disk.mig
        /\ disk'.receipt = IF disk.receipt \in V THEN None ELSE disk.receipt
        /\ disk'.cleanup = disk.cleanup \ V
    BY <1>1, <1>2, ZenonT(30) DEF SettleEmpty, Disks
  <2> QED BY <1>2, <2>1, TendedStays DEF Leads
<1>3. ASSUME NEW s, disk' = [disk EXCEPT !.state = s] PROVE Tended(disk')
  <2>1. /\ disk'.obj = disk.obj /\ disk'.marker = disk.marker /\ disk'.mig = disk.mig
        /\ disk'.receipt = disk.receipt /\ disk'.cleanup = disk.cleanup
    BY <1>1, <1>3 DEF Disks
  <2> QED BY <2>1, TendedStays DEF Leads
<1>4. ASSUME NEW v \in Volumes, RetireVolume(v) PROVE Tended(disk')
  <2>1. \A u \in {v} \cap Volumes : Empty(disk, u)
    BY <1>4 DEF RetireVolume, Owes
  <2>2. disk' = SettleEmpty(disk, {v}) \/ \E s : disk' = [SettleEmpty(disk, {v}) EXCEPT !.state = s]
    BY <1>4, Zenon DEF RetireVolume
  <2> QED BY <1>2, <2>1, <2>2, Zenon
<1>5. ASSUME NEW P, NEW F, Restart(P, F) PROVE Tended(disk')
  <2> DEFINE retired == {v \in Volumes : disk.state[v] = "Retired"}
  <2>1. PICK s : disk' = SettleEmpty([disk EXCEPT !.state = s], retired)
    BY <1>5, ZenonT(30) DEF Restart
  <2>2. \A u \in retired \cap Volumes : Empty(disk, u)
    BY Zenon DEF Holding, RetiredIsClosed, Clean, Owes
  <2> HIDE DEF retired
  <2> QED BY <1>2, <2>1, <2>2, ZenonT(30)
<1>6. ASSUME NEW v \in Volumes, Corrupt(v) PROVE Tended(disk')
  <2> DEFINE row == [disk.obj[v] EXCEPT !.sound = FALSE]
  <2>1. row.att = disk.obj[v].att /\ row.ready = disk.obj[v].ready
    <3>1. disk.obj[v] \in Rows
      BY <1>1
    <3> QED BY <3>1 DEF Rows
  <2>2. /\ disk'.obj = [disk.obj EXCEPT ![v] = row] /\ disk'.marker = disk.marker
        /\ disk'.receipt = disk.receipt /\ disk'.cleanup = disk.cleanup /\ disk'.mig = disk.mig
    BY <1>1, <1>6, ZenonT(30) DEF Corrupt, Disks
  <2> HIDE DEF row
  <2>3. \A u \in Volumes : disk'.obj[u].att = disk.obj[u].att /\ disk'.obj[u].ready = disk.obj[u].ready
    BY <1>1, <2>1, <2>2
  <2> QED BY <2>2, <2>3 DEF Tended, Leads, Empty
<1>7. ASSUME NEW v \in Volumes, MarkDraining(v) \/ Reactivate(v) PROVE Tended(disk')
  <2>1. \E s : disk' = [disk EXCEPT !.state = s]
    BY <1>7 DEF MarkDraining, Reactivate
  <2> QED BY <1>3, <2>1
<1>8. ASSUME Scrub \/ \E P : Configure(P) PROVE Tended(disk')
  <2>1. \E s : disk' = [disk EXCEPT !.state = s]
    BY <1>8 DEF Scrub, Configure
  <2> QED BY <1>3, <2>1
<1> QED BY <1>4, <1>5, <1>6, <1>7, <1>8, ZenonT(30) DEF FaultStep

(* Every step keeps the emergency rows tended. *)
LEMMA NextTends ==
    ASSUME Holding, RowInv, EmergencyInv, [Next]_vars
    PROVE  EmergencyInv'
<1>1. CASE UNCHANGED vars
  BY <1>1, Zenon DEF vars, EmergencyInv, Emergency, Cuts, Alone
<1>2. CASE Next
  <2>1. setting' = setting
    <3>1. CASE GuildStep
      BY <3>1, Zenon DEF GuildStep, Plan, Abort, Certify, InstallAdd, InstallAddAgain, InstallForget, guildVars
    <3>2. CASE AttemptStep
      <4>1. PICK x \in Coding : \/ UploadParity(x) \/ ActivateCoding(x) \/ DiscardCoding(x)
                                \/ \E r \in Repairs, v \in Volumes : Repair(x, r, v)
        BY <3>2 DEF AttemptStep
      <4>2. UploadParity(x) => setting' = setting
        BY Zenon DEF UploadParity, guildVars
      <4>3. ActivateCoding(x) => setting' = setting
        BY Zenon DEF ActivateCoding
      <4>4. DiscardCoding(x) => setting' = setting
        BY Zenon DEF DiscardCoding
      <4>5. \A r \in Repairs, v \in Volumes : Repair(x, r, v) => setting' = setting
        BY ZenonT(30) DEF Repair
      <4> QED BY <4>1, <4>2, <4>3, <4>4, <4>5, Zenon
    <3>3. CASE EvacuationStep \/ FaultStep \/ RotStep \/ RemoveEmergency
      BY <3>3, Zenon DEF EvacuationStep, FaultStep, RotStep, MigrationBegin, MigrationCopy,
         MigrationPublish, MigrationWithdraw, MigrationFinish, MarkDraining, RetireVolume, Reactivate,
         Configure, Restart, Scrub, Corrupt, RemoveEmergency, guildVars
    <3> QED BY <1>2, <3>1, <3>2, <3>3, Zenon DEF Next, HolderNext
  <2>2. SUFFICES ASSUME Emergency, ~Cuts
                 PROVE  Alone' /\ Tended(disk')
    BY <2>1 DEF EmergencyInv, Emergency, Cuts
  <2>3. Alone /\ Tended(disk)
    BY <2>2 DEF EmergencyInv
  <2>4. CASE GuildStep
    BY <2>2, <2>3, <2>4, GuildTends DEF Alone
  <2>5. CASE AttemptStep
    <3>1. PICK x \in Coding, r \in Repairs, v \in Volumes : Repair(x, r, v)
      BY <2>2, <2>3, <2>5, NoAttempt, Zenon DEF AttemptStep
    <3>2. Tended(disk')
      BY <2>2, <2>3, <3>1, RepairTends
    <3>3. life' = life
      BY <3>1 DEF Repair
    <3> QED BY <2>3, <3>2, <3>3 DEF Alone
  <2>6. CASE EvacuationStep \/ FaultStep \/ RotStep \/ RemoveEmergency
    <3>1. Tended(disk')
      BY <2>2, <2>3, <2>6, TransferTends, VolumesTend, RemovalTends, Zenon DEF EvacuationStep, RotStep
    <3>2. life' = life
      BY <2>6, Zenon DEF EvacuationStep, FaultStep, RotStep, MigrationBegin, MigrationCopy,
         MigrationPublish, MigrationWithdraw, MigrationFinish, MarkDraining, RetireVolume, Reactivate,
         Configure, Restart, Scrub, Corrupt, RemoveEmergency, guildVars
    <3> QED BY <2>3, <3>1, <3>2 DEF Alone
  <2> QED BY <1>2, <2>4, <2>5, <2>6, Zenon DEF Next, HolderNext
<1> QED BY <1>1, <1>2

(* Once the removal of an emergency shard was reported complete and its    *)
(* marker deleted, no volume, attached or not, holds a copy of it, as long *)
(* as no operation was cut short: the removal does not complete while a    *)
(* record leads to a volume it cannot look into.                           *)
THEOREM EmergencyRemoved == Spec => []EmergencyCleared
<1>1. Init => EmergencyInv
  <2> SUFFICES ASSUME Init PROVE EmergencyInv
    OBVIOUS
  <2>1. disk.obj = [v \in Volumes |-> NoRow]
    BY Zenon DEF Init
  <2>2. life = [x \in Coding |-> IF Emergency /\ x = 1 THEN "added" ELSE "none"]
    BY Zenon DEF Init
  <2>3. NoRow.att = None
    BY DEF NoRow
  <2> HIDE DEF Init
  <2>4. Tended(disk)
    BY <2>1, <2>3 DEF Tended, Empty
  <2>5. Alone
    BY <2>2 DEF Alone
  <2> QED BY <2>4, <2>5 DEF EmergencyInv
<1>2. Holding /\ RowInv /\ EmergencyInv /\ [Next]_vars => EmergencyInv'
  BY NextTends
<1>3. EmergencyInv => EmergencyCleared
  BY DEF EmergencyInv, EmergencyCleared, Tended
<1> QED BY <1>1, <1>2, <1>3, RowsHold, PTL DEF Spec

=============================================================================
