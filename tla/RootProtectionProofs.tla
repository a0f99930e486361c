------------------------ MODULE RootProtectionProofs ------------------------
(***************************************************************************)
(* Proofs about RootProtection: type correctness for any number of roots,  *)
(* and, for a node with one protected root, that no change is forgotten    *)
(* whatever the capacity of the watcher's channel.                         *)
(***************************************************************************)
EXTENDS RootProtection, TLAPS, FiniteSetTheorems, SequenceTheorems

(* The channel holds what it held, up to its capacity, after try_send. *)
LEMMA TrySendType ==
    ASSUME NEW q \in Seq(Roots), NEW r \in Roots, Len(q) <= Capacity
    PROVE  TrySend(q, r) \in Seq(Roots) /\ Len(TrySend(q, r)) <= Capacity
  BY ProtectionAssumption DEF TrySend

(* What try_send for every watched root leaves in the channel. *)
LEMMA ErrorQueueType ==
    ASSUME TypeOK, NotifyError
    PROVE  queue' \in Seq(Roots) /\ Len(queue') <= Capacity
<1>1. IsFiniteSet(watched)
  BY ProtectionAssumption, FS_Subset DEF TypeOK, WatcherOK
<1>2. Cardinality(watched) \in Nat
  BY <1>1, FS_CardinalityType
<1>3. PICK order \in [1 .. Cardinality(watched) -> watched] :
        queue' = SubSeq(queue \o order, 1,
                        IF Len(queue \o order) < Capacity THEN Len(queue \o order) ELSE Capacity)
  BY Zenon DEF NotifyError
<1>4. order \in Seq(Roots)
  <2>1. order \in [1 .. Cardinality(watched) -> Roots]
    BY <1>3 DEF TypeOK, WatcherOK
  <2> QED
    BY <1>2, <2>1, SeqDef
<1>5. queue \o order \in Seq(Roots) /\ Len(queue \o order) \in Nat
  BY <1>4 DEF TypeOK, WatcherOK
<1>6. PICK n \in Nat : n <= Len(queue \o order) /\ n <= Capacity /\ queue' = SubSeq(queue \o order, 1, n)
  BY <1>3, <1>5, ProtectionAssumption, SMTT(30)
<1>7. \A i \in 1 .. n : (queue \o order)[i] \in Roots
  <2> SUFFICES ASSUME NEW all \in Seq(Roots), n <= Len(all), NEW i \in 1 .. n
               PROVE  all[i] \in Roots
    BY <1>5, <1>6, Zenon
  <2>1. i \in 1 .. Len(all)
    BY <1>6
  <2> QED
    BY <2>1, ElementOfSeq
<1>8. queue' \in Seq(Roots)
  BY <1>6, <1>7, SubSeqProperties
<1>9. Len(queue') = IF 1 <= n THEN n - 1 + 1 ELSE 0
  BY <1>6, <1>7, SubSeqProperties
<1> QED
  BY <1>6, <1>8, <1>9, ProtectionAssumption

(* Every step of the watcher, a capture or a checkpoint keeps the types. *)
LEMMA TypePreserved ==
    ASSUME TypeOK, [Next]_vars
    PROVE  TypeOK'
<1>1. ASSUME NEW r \in Roots, Change(r)
      PROVE  TypeOK'
  <2>1. RecordsOK'
    BY <1>1 DEF Change, TypeOK, RecordsOK
  <2>2. WatcherOK'
    BY <1>1, ProtectionAssumption DEF Change, TypeOK, WatcherOK
  <2> QED
    BY <2>1, <2>2 DEF TypeOK
<1>2. ASSUME NEW r \in Roots, RegisterRoot(r)
      PROVE  TypeOK'
  <2>1. RecordsOK'
    BY <1>2 DEF RegisterRoot, Mark, watcherVars, TypeOK, RecordsOK
  <2>2. WatcherOK'
    BY <1>2, ProtectionAssumption DEF RegisterRoot, Mark, watcherVars, TypeOK, WatcherOK
  <2> QED
    BY <2>1, <2>2 DEF TypeOK
<1>3. ASSUME NEW r \in Roots, Notify(r)
      PROVE  TypeOK'
  <2>1. RecordsOK'
    BY <1>3 DEF Notify, recordVars, TypeOK, RecordsOK
  <2>2. queue' \in Seq(Roots) /\ Len(queue') <= Capacity
    BY <1>3, TrySendType DEF Notify, TypeOK, WatcherOK
  <2>3. WatcherOK'
    BY <1>3, <2>2 DEF Notify, recordVars, TypeOK, WatcherOK
  <2> QED
    BY <2>1, <2>3 DEF TypeOK
<1>4. CASE NotifyError
  <2>1. RecordsOK'
    BY <1>4, SMTT(30) DEF NotifyError, Disturb, recordVars, TypeOK, RecordsOK
  <2>2. queue' \in Seq(Roots) /\ Len(queue') <= Capacity
    BY <1>4, ErrorQueueType
  <2>3. WatcherOK'
    BY <1>4, <2>2 DEF NotifyError, Disturb, recordVars, TypeOK, WatcherOK
  <2> QED
    BY <2>1, <2>3 DEF TypeOK
<1>5. CASE Start \/ Ready
  <2>1. RecordsOK'
    BY <1>5 DEF Start, Ready, recordVars, TypeOK, RecordsOK
  <2>2. WatcherOK'
    BY <1>5, ProtectionAssumption, Zenon DEF Start, Ready, TypeOK, RecordsOK, WatcherOK
  <2> QED
    BY <2>1, <2>2 DEF TypeOK
<1>6. ASSUME NEW r \in Roots, Attach(r)
      PROVE  TypeOK'
  <2>1. RecordsOK'
    BY <1>6 DEF Attach, recordVars, TypeOK, RecordsOK
  <2>2. WatcherOK'
    BY <1>6, ProtectionAssumption DEF Attach, recordVars, TypeOK, WatcherOK
  <2> QED
    BY <2>1, <2>2 DEF TypeOK
<1>7. ASSUME NEW r \in Roots, Open(r)
      PROVE  TypeOK'
  <2>1. RecordsOK'
    BY <1>7 DEF Open, Mark, TypeOK, RecordsOK
  <2>2. WatcherOK'
    BY <1>7, ProtectionAssumption DEF Open, Mark, TypeOK, WatcherOK
  <2> QED
    BY <2>1, <2>2 DEF TypeOK
<1>8. ASSUME NEW r \in Roots, SkipRoot(r)
      PROVE  TypeOK'
  <2>1. RecordsOK'
    BY <1>8 DEF SkipRoot, Mark, Disturb, TypeOK, RecordsOK
  <2>2. WatcherOK'
    BY <1>8, ProtectionAssumption DEF SkipRoot, Mark, Disturb, TypeOK, WatcherOK
  <2> QED
    BY <2>1, <2>2 DEF TypeOK
<1>9. CASE Receive
  <2>1. RecordsOK'
    BY <1>9, Zenon DEF Receive, recordVars, TypeOK, RecordsOK
  <2>2. WatcherOK'
    BY <1>9, ProtectionAssumption, SMTT(30) DEF Receive, recordVars, TypeOK, WatcherOK
  <2> QED
    BY <2>1, <2>2 DEF TypeOK
<1>10. ASSUME NEW r \in Roots, LoseRoot(r)
      PROVE  TypeOK'
  <2>1. RecordsOK'
    BY <1>10 DEF LoseRoot, Disturb, recordVars, TypeOK, RecordsOK
  <2>2. WatcherOK'
    BY <1>10, ProtectionAssumption, Zenon DEF LoseRoot, Disturb, recordVars, TypeOK, WatcherOK
  <2> QED
    BY <2>1, <2>2 DEF TypeOK
<1>11. CASE Stop
  <2>1. RecordsOK'
    BY <1>11 DEF Stop, recordVars, TypeOK, RecordsOK
  <2>2. watch' \in [Roots -> {"none", "attached", "open"}]
    BY <1>11 DEF Stop
  <2>3. queue' \in Seq(Roots) /\ Len(queue') <= Capacity
    BY <1>11, ProtectionAssumption DEF Stop
  <2>4. WatcherOK'
    BY <1>11, <2>2, <2>3, Zenon DEF Stop, TypeOK, WatcherOK
  <2> QED
    BY <2>1, <2>4 DEF TypeOK
<1>12. ASSUME NEW r \in Roots, MarkDirty(r)
      PROVE  TypeOK'
  <2>1. RecordsOK'
    BY <1>12 DEF MarkDirty, Mark, TypeOK, RecordsOK
  <2>2. WatcherOK'
    BY <1>12, ProtectionAssumption, Zenon DEF MarkDirty, Mark, TypeOK, WatcherOK
  <2> QED
    BY <2>1, <2>2 DEF TypeOK
<1>13. ASSUME NEW r \in Roots, BeginCapture(r)
      PROVE  TypeOK'
  <2>1. RecordsOK'
    <3>1. [change |-> IF r \in dirty THEN sequence[r] ELSE 0, anchor |-> 0] \in [change : Nat, anchor : Nat]
      BY DEF TypeOK, RecordsOK
    <3>2. intent' \in [Roots -> [change : Nat, anchor : Nat] \cup {None}] /\ intent'[r] # None
      BY <1>13, <3>1, Zenon DEF BeginCapture, TypeOK, RecordsOK, None
    <3>3. capture' \in [root : Roots, from : Nat] /\ capture'.root = r
      BY <1>13 DEF BeginCapture, TypeOK, RecordsOK
    <3>4. disturbances' \in Nat
      BY <1>13 DEF BeginCapture, Disturb, TypeOK, RecordsOK
    <3> QED
      BY <1>13, <3>2, <3>3, <3>4, Zenon DEF BeginCapture, TypeOK, RecordsOK
  <2>2. WatcherOK'
    BY <1>13, ProtectionAssumption DEF BeginCapture, Disturb, watcherVars, TypeOK, WatcherOK
  <2> QED
    BY <2>1, <2>2 DEF TypeOK
<1>14. ASSUME NEW r \in Roots, PublishAnchor(r)
      PROVE  TypeOK'
  <2>1. PICK v \in capture.from .. content[r] :
          intent' = [intent EXCEPT ![r] = [change |-> intent[r].change, anchor |-> v]]
    BY <1>14, Zenon DEF PublishAnchor
  <2>2. intent[r] \in [change : Nat, anchor : Nat] /\ v \in Nat
    BY <1>14 DEF PublishAnchor, Capturing, TypeOK, RecordsOK
  <2>3. [change |-> intent[r].change, anchor |-> v] \in [change : Nat, anchor : Nat]
    BY <2>2
  <2>4. intent' \in [Roots -> [change : Nat, anchor : Nat] \cup {None}] /\ intent'[r] # None
    BY <2>1, <2>3, Zenon DEF TypeOK, RecordsOK, None
  <2>5. RecordsOK'
    BY <1>14, <2>4 DEF PublishAnchor, Capturing, TypeOK, RecordsOK
  <2>6. WatcherOK'
    BY <1>14, Zenon DEF PublishAnchor, watcherVars, TypeOK, WatcherOK
  <2> QED
    BY <2>5, <2>6 DEF TypeOK
<1>15. ASSUME NEW r \in Roots, FinishCapture(r)
      PROVE  TypeOK'
  <2>1. intent[r] \in [change : Nat, anchor : Nat]
    BY <1>15 DEF FinishCapture, Capturing, TypeOK, RecordsOK
  <2>2. head' \in [Roots -> [content : Nat, change : Nat]]
    BY <1>15, <2>1 DEF FinishCapture, TypeOK, RecordsOK
  <2>3. intent' \in [Roots -> [change : Nat, anchor : Nat] \cup {None}]
    BY <1>15 DEF FinishCapture, TypeOK, RecordsOK
  <2>4. RecordsOK'
    BY <1>15, <2>2, <2>3 DEF FinishCapture, TypeOK, RecordsOK
  <2>5. WatcherOK'
    BY <1>15 DEF FinishCapture, watcherVars, TypeOK, WatcherOK
  <2> QED
    BY <2>4, <2>5 DEF TypeOK
<1>16. ASSUME NEW r \in Roots, FailCapture(r)
      PROVE  TypeOK'
  <2>1. RecordsOK'
    BY <1>16 DEF FailCapture, Disturb, watcherVars, TypeOK, RecordsOK
  <2>2. WatcherOK'
    BY <1>16, ProtectionAssumption DEF FailCapture, Disturb, watcherVars, TypeOK, WatcherOK
  <2> QED
    BY <2>1, <2>2 DEF TypeOK
<1>17. ASSUME NEW S \in SUBSET Roots, StoreCheckpoint(S)
      PROVE  TypeOK'
  <2>1. RecordsOK'
    BY <1>17 DEF StoreCheckpoint, Disturb, watcherVars, TypeOK, RecordsOK
  <2>2. WatcherOK'
    BY <1>17, ProtectionAssumption, Zenon DEF StoreCheckpoint, Disturb, watcherVars, TypeOK, WatcherOK
  <2> QED
    BY <2>1, <2>2 DEF TypeOK
<1>18. CASE ClearDirty
  <2>1. RecordsOK'
    BY <1>18, Zenon DEF ClearDirty, watcherVars, TypeOK, RecordsOK
  <2>2. WatcherOK'
    BY <1>18, ProtectionAssumption, Zenon DEF ClearDirty, watcherVars, TypeOK, WatcherOK
  <2> QED
    BY <2>1, <2>2 DEF TypeOK
<1>19. CASE Reconcile
  <2>1. RecordsOK'
    BY <1>19 DEF Reconcile, Mark, Disturb, watcherVars, TypeOK, RecordsOK
  <2>2. WatcherOK'
    BY <1>19, ProtectionAssumption DEF Reconcile, Mark, Disturb, watcherVars, TypeOK, WatcherOK
  <2> QED
    BY <2>1, <2>2 DEF TypeOK
<1>20. CASE Crash
  <2>1. RecordsOK'
    <3>1. capture' = None /\ clearing' = FALSE /\ UNCHANGED <<content, recordVars>>
      BY <1>20 DEF Crash
    <3>2. disturbances' \in Nat
      BY <1>20 DEF Crash, Disturb, TypeOK, RecordsOK
    <3> QED
      BY <3>1, <3>2, Zenon DEF recordVars, TypeOK, RecordsOK
  <2>2. watch' \in [Roots -> {"none", "attached", "open"}]
    BY <1>20 DEF Crash
  <2>3. queue' \in Seq(Roots) /\ Len(queue') <= Capacity
    BY <1>20, ProtectionAssumption DEF Crash
  <2>4. WatcherOK'
    BY <1>20, <2>2, <2>3, Zenon DEF Crash, TypeOK, WatcherOK
  <2> QED
    BY <2>1, <2>4 DEF TypeOK
<1>21. CASE UNCHANGED vars
  <2>1. RecordsOK'
    BY <1>21 DEF vars, TypeOK, RecordsOK
  <2>2. WatcherOK'
    BY <1>21, ProtectionAssumption DEF vars, TypeOK, WatcherOK
  <2> QED
    BY <2>1, <2>2 DEF TypeOK
<1> QED
  BY <1>1, <1>2, <1>3, <1>4, <1>5, <1>6, <1>7, <1>8, <1>9, <1>10, <1>11, <1>12,
     <1>13, <1>14, <1>15, <1>16, <1>17, <1>18, <1>19, <1>20, <1>21, ZenonT(30) DEF Next, WatchLoop, BackupLoop, CheckpointLoop, TypeOK, RecordsOK

(* Every state of the watcher, the records, captures and checkpoints is    *)
(* well typed, and the watcher's channel stays within its capacity.        *)
THEOREM TypeCorrect == Spec => []TypeOK
<1>1. Init => TypeOK
  <2> SUFFICES ASSUME Init
               PROVE  TypeOK
    OBVIOUS
  <2>1. intent \in [Roots -> [change : Nat, anchor : Nat] \cup {None}] /\ head \in [Roots -> [content : Nat, change : Nat]]
    BY DEF Init
  <2>2. content \in [Roots -> Nat] /\ saved \in [Roots -> Nat] /\ sequence \in [Roots -> Nat]
    BY DEF Init
  <2>3. RecordsOK
    BY <2>1, <2>2, Zenon DEF Init, RecordsOK
  <2>4. watch \in [Roots -> {"none", "attached", "open"}]
    BY DEF Init
  <2>5. queue \in Seq(Roots) /\ Len(queue) <= Capacity
    BY ProtectionAssumption DEF Init
  <2>6. WatcherOK
    BY <2>4, <2>5, Zenon DEF Init, WatcherOK
  <2> QED
    BY <2>3, <2>6 DEF TypeOK
<1>2. TypeOK /\ [Next]_vars => TypeOK'
  BY TypePreserved
<1> QED
  BY <1>1, <1>2, PTL DEF Spec

-----------------------------------------------------------------------------
(* What is in the channel after a hint is sent: it, and what was there. *)
LEMMA RangeAppend ==
    ASSUME NEW q \in Seq(Roots), NEW r \in Roots
    PROVE  r \in Range(Append(q, r)) /\ Range(q) \subseteq Range(Append(q, r))
<1>1. Append(q, r)[Len(q) + 1] = r /\ Len(q) + 1 \in DOMAIN Append(q, r)
  OBVIOUS
<1>2. \A i \in DOMAIN q : i \in DOMAIN Append(q, r) /\ Append(q, r)[i] = q[i]
  OBVIOUS
<1> QED
  BY <1>1, <1>2 DEF Range

(* What is in the channel after a hint is received: all other roots' hints. *)
LEMMA RangeTail ==
    ASSUME NEW q \in Seq(Roots), q # << >>, NEW x \in Range(q), x # Head(q)
    PROVE  x \in Range(Tail(q))
<1>1. PICK i \in DOMAIN q : x = q[i]
  BY DEF Range
<1>2. i \in 1 .. Len(q) /\ i # 1
  BY <1>1
<1>3. i - 1 \in DOMAIN Tail(q) /\ Tail(q)[i - 1] = x
  BY <1>1, <1>2
<1> QED
  BY <1>3 DEF Range

(* With one root, a full channel already holds a hint for it: what         *)
(* try_send drops is not needed.                                           *)
LEMMA HintKept ==
    ASSUME NEW q \in Seq(Roots), NEW r \in Roots, \A x, y \in Roots : x = y
    PROVE  r \in Range(TrySend(q, r)) /\ Range(q) \subseteq Range(TrySend(q, r))
<1>1. CASE Len(q) < Capacity
  BY <1>1, RangeAppend DEF TrySend
<1>2. CASE ~(Len(q) < Capacity)
  <2>1. TrySend(q, r) = q
    BY <1>2 DEF TrySend
  <2>2. 1 \in DOMAIN q /\ q[1] \in Roots
    BY <1>2, ProtectionAssumption
  <2>3. q[1] = r
    BY <2>2, Zenon
  <2> QED
    BY <2>1, <2>2, <2>3 DEF Range
<1> QED
  BY <1>1, <1>2

(* A marked root is protected again: no earlier capture is fresh. *)
LEMMA MarkedProtected ==
    ASSUME TypeOK, NEW r \in Roots, Protected(r), capture = None, capture' = None,
           r \in dirty', sequence'[r] = sequence[r] + 1,
           head'[r] = head[r], intent'[r] = intent[r], saved'[r] = saved[r],
           r \in uncommitted' <=> r \in uncommitted,
           watcher' \in {"stopped", "stopping"} => watch'[r] = "none"
    PROVE  Protected(r)'
<1>1. head[r].change \in Nat /\ head[r].change <= sequence[r] /\ sequence[r] \in Nat
  BY DEF TypeOK, RecordsOK, Protected
<1>2. ~Fresh(head[r].change, r)'
  BY <1>1 DEF Fresh
<1>3. ASSUME intent[r] # None
      PROVE  intent[r].change <= sequence'[r] /\ ~Fresh(intent[r].change, r)'
  <2>1. intent[r].change \in Nat /\ intent[r].change <= sequence[r]
    BY <1>3 DEF TypeOK, RecordsOK, Protected
  <2> QED
    BY <1>1, <2>1, <1>3, SMTT(30) DEF Fresh
<1>4. ~Capturing(r)'
  BY DEF Capturing
<1>5. head'[r].change <= sequence'[r] /\ head'[r].change # sequence'[r]
  BY <1>1, SMTT(30)
<1> QED
  BY <1>2, <1>3, <1>4, <1>5, Zenon DEF Protected, Fresh

(* A root whose records do not change stays protected while the watcher    *)
(* keeps what it owes it.                                                  *)
LEMMA FrameProtected ==
    ASSUME TypeOK, NEW r \in Roots, Protected(r),
           content'[r] = content[r], sequence'[r] = sequence[r], r \in dirty' <=> r \in dirty,
           head'[r] = head[r], intent'[r] = intent[r], saved'[r] = saved[r],
           r \in uncommitted' <=> r \in uncommitted,
           capture' = capture \/ capture' = None,
           Excused(r) => Excused(r)',
           watcher' \in {"stopped", "stopping"} => watch'[r] = "none"
    PROVE  Protected(r)'
<1>1. \A v : UpToDate(v, r) => v = content'[r] \/ Excused(r)'
  BY Zenon DEF UpToDate
<1>2. \A c : (c = sequence'[r] \/ (c = 0 /\ r \notin dirty')) <=> Fresh(c, r)
  BY DEF Fresh
<1>3. Capturing(r)' => Capturing(r) /\ capture' = capture
  BY DEF Capturing
<1> QED
  BY <1>1, <1>2, <1>3, Zenon DEF Protected, Fresh, UpToDate

-----------------------------------------------------------------------------

(* A step that marks some roots and only forgets hints for these. *)
LEMMA MarkStep ==
    ASSUME TypeOK, ProtectionInvariant, NEW S \in SUBSET Roots, Mark(S),
           UNCHANGED <<content, head, intent, saved, uncommitted, capture>>,
           \A r \in Roots \ S : Excused(r) => Excused(r)',
           \A r \in Roots : watcher' \in {"stopped", "stopping"} => watch'[r] = "none"
    PROVE  ProtectionInvariant'
<1> SUFFICES ASSUME NEW r \in Roots
             PROVE  Protected(r)'
  BY DEF ProtectionInvariant
<1>1. Protected(r) /\ capture = None /\ capture' = None
  BY DEF ProtectionInvariant, Mark, LockFree
<1>2. CASE r \in S
  <2>1. r \in dirty' /\ sequence'[r] = sequence[r] + 1
    BY <1>2, Zenon DEF Mark
  <2> QED
    BY <1>1, <2>1, MarkedProtected, Zenon
<1>3. CASE r \notin S
  <2>1. (r \in dirty' <=> r \in dirty) /\ sequence'[r] = sequence[r]
    BY <1>3 DEF Mark
  <2> QED
    BY <1>1, <1>3, <2>1, FrameProtected, Zenon
<1> QED
  BY <1>2, <1>3

(* A step of the watcher that touches no record and forgets no hint of a   *)
(* root it keeps open.                                                     *)
LEMMA WatcherStep ==
    ASSUME TypeOK, ProtectionInvariant, UNCHANGED <<content, recordVars>>,
           capture' = capture \/ capture' = None,
           \A r \in Roots : Excused(r) => Excused(r)',
           \A r \in Roots : watcher' \in {"stopped", "stopping"} => watch'[r] = "none"
    PROVE  ProtectionInvariant'
<1> SUFFICES ASSUME NEW r \in Roots
             PROVE  Protected(r)'
  BY DEF ProtectionInvariant
<1>1. Protected(r)
  BY DEF ProtectionInvariant
<1> QED
  BY <1>1, FrameProtected DEF recordVars

(* A step that leaves the watcher alone excuses the same roots. *)
LEMMA SameExcuses ==
    ASSUME UNCHANGED watcherVars, NEW r \in Roots
    PROVE  Excused(r)' = Excused(r)
  BY Zenon DEF watcherVars, Excused, Hinted

(* Every step of a node with one protected root keeps the invariant. *)
LEMMA ProtectionPreserved ==
    ASSUME TypeOK, ProtectionInvariant, [Next]_vars, \A x, y \in Roots : x = y
    PROVE  ProtectionInvariant'
<1> USE DEF TypeOK, RecordsOK, WatcherOK
<1>0. \A r \in Roots : Protected(r) /\ (watcher \in {"stopped", "stopping"} => watch[r] = "none")
  BY Zenon DEF ProtectionInvariant, Protected
<1>1. ASSUME NEW r \in Roots, Change(r)
      PROVE  ProtectionInvariant'
  <2> SUFFICES ASSUME NEW s \in Roots
               PROVE  Protected(s)'
    BY DEF ProtectionInvariant
  <2>1. s = r
    BY Zenon
  <2>2. Excused(s)'
    BY <1>1, <2>1, Zenon DEF Change, Excused, Hinted
  <2>3. content'[s] \in Nat /\ content'[s] = content[s] + 1
    BY <1>1, <2>1, SMTT(30) DEF Change
  <2>4. Capturing(s)' => capture.from <= content'[s] /\ capture'.from = capture.from
    <3>1. capture' = capture /\ (Capturing(s)' => Capturing(s) /\ capture.from \in Nat)
      BY <1>1, Zenon DEF Change, Capturing
    <3>2. Capturing(s) => capture.from <= content[s]
      BY <1>0, Zenon DEF Protected
    <3>3. content[s] \in Nat
      BY Zenon
    <3> HIDE DEF TypeOK, RecordsOK, WatcherOK
    <3> QED
      BY <2>3, <3>1, <3>2, <3>3, SMTT(30)
  <2>5. UNCHANGED <<dirty, sequence, intent, head, uncommitted, saved, watcher, watch>> /\ Protected(s)
    BY <1>0, <1>1, Zenon DEF Change
  <2>6. Capturing(s)' => Capturing(s)
    BY <1>1 DEF Change, Capturing
  <2> HIDE DEF TypeOK, RecordsOK, WatcherOK
  <2>7. \A c : Fresh(c, s)' <=> Fresh(c, s)
    BY <2>5 DEF Fresh
  <2>8. \A v : UpToDate(v, s)'
    BY <2>2 DEF UpToDate
  <2> QED
    BY <2>4, <2>5, <2>6, <2>7, <2>8, Zenon DEF Protected
<1>2. ASSUME NEW r \in Roots, RegisterRoot(r)
      PROVE  ProtectionInvariant'
  <2>1. \A s \in Roots : Excused(s)' = Excused(s)
    BY <1>2, SameExcuses, Zenon DEF RegisterRoot
  <2>2. Mark({r}) /\ UNCHANGED <<content, head, intent, saved, uncommitted, capture>> /\ UNCHANGED watcherVars
    BY <1>2, Zenon DEF RegisterRoot
  <2>3. \A s \in Roots : watcher' \in {"stopped", "stopping"} => watch'[s] = "none"
    BY <1>0, <2>2, Zenon DEF watcherVars
  <2> HIDE DEF TypeOK, RecordsOK, WatcherOK
  <2> QED
    BY <2>1, <2>2, <2>3, MarkStep, Zenon
<1>3. ASSUME NEW r \in Roots, Notify(r)
      PROVE  ProtectionInvariant'
  <2>1. r \in Range(queue') /\ Range(queue) \subseteq Range(queue')
    BY <1>3, HintKept, Zenon DEF Notify
  <2>2. \A s \in Roots : Excused(s) => Excused(s)'
    BY <1>3, <2>1, Zenon DEF Notify, Excused, Hinted
  <2> QED
    BY <1>0, <1>3, <2>2, WatcherStep, Zenon DEF Notify
<1>4. CASE NotifyError
  <2>1. \A s \in Roots : Excused(s)'
    BY <1>4, Zenon DEF NotifyError, Excused, Hinted
  <2> QED
    BY <1>0, <1>4, <2>1, WatcherStep, Zenon DEF NotifyError
<1>5. CASE Start
  <2>1. \A s \in Roots : Excused(s)'
    BY <1>0, <1>5, Zenon DEF Start, Excused
  <2> QED
    BY <1>0, <1>5, <2>1, WatcherStep, Zenon DEF Start
<1>6. CASE Ready
  <2>1. \A s \in Roots : Excused(s) => Excused(s)'
    BY <1>6 DEF Ready, Excused, Hinted
  <2> QED
    BY <1>0, <1>6, <2>1, WatcherStep, Zenon DEF Ready
<1>7. ASSUME NEW r \in Roots, Attach(r)
      PROVE  ProtectionInvariant'
  <2>1. \A s \in Roots : Excused(s) => Excused(s)'
    BY <1>7, SMTT(30) DEF Attach, Excused, Hinted
  <2>2. watcher' \notin {"stopped", "stopping"}
    BY <1>7, Zenon DEF Attach, Attachable
  <2>3. UNCHANGED <<content, recordVars>> /\ capture' = capture
    BY <1>7, Zenon DEF Attach
  <2> HIDE DEF TypeOK, RecordsOK, WatcherOK
  <2> QED
    BY <2>1, <2>2, <2>3, WatcherStep, Zenon
<1>8. ASSUME NEW r \in Roots, Open(r)
      PROVE  ProtectionInvariant'
  <2>1. \A s \in Roots \ {r} : Excused(s) => Excused(s)'
    BY Zenon
  <2>2. watcher' \notin {"stopped", "stopping"}
    BY <1>0, <1>8, Zenon DEF Open
  <2>3. Mark({r}) /\ UNCHANGED <<content, head, intent, saved, uncommitted, capture>>
    BY <1>8 DEF Open
  <2> HIDE DEF TypeOK, RecordsOK, WatcherOK
  <2> QED
    BY <2>1, <2>2, <2>3, MarkStep, Zenon
<1>9. ASSUME NEW r \in Roots, SkipRoot(r)
      PROVE  ProtectionInvariant'
  <2>1. \A s \in Roots \ {r} : Excused(s) => Excused(s)'
    OBVIOUS
  <2>2. Mark({r}) /\ UNCHANGED <<content, head, intent, saved, uncommitted, capture>>
    BY <1>9, Zenon DEF SkipRoot
  <2>3. \A s \in Roots : watcher' \in {"stopped", "stopping"} => watch'[s] = "none"
    BY <1>0, <1>9, Zenon DEF SkipRoot
  <2> HIDE DEF TypeOK, RecordsOK, WatcherOK
  <2> QED
    BY <2>1, <2>2, <2>3, MarkStep, Zenon
<1>10. CASE Receive
  <2>1. \A s \in Range(queue) : s \in Range(queue') \cup todo'
    BY <1>10, RangeTail DEF Receive
  <2>2. \A s \in Roots : Excused(s) => Excused(s)'
    BY <1>10, <2>1, Zenon DEF Receive, Idle, Excused, Hinted
  <2> QED
    BY <1>0, <1>10, <2>2, WatcherStep, ZenonT(30) DEF Receive
<1>11. ASSUME NEW r \in Roots, LoseRoot(r)
       PROVE  ProtectionInvariant'
  <2>1. \A s \in Roots : Excused(s)'
    BY <1>11, Zenon DEF LoseRoot, Excused
  <2> QED
    BY <1>11, <2>1, WatcherStep, Zenon DEF LoseRoot, Idle
<1>12. CASE Stop
  <2>1. \A s \in Roots : Excused(s)' /\ watch'[s] = "none"
    BY <1>12 DEF Stop, Excused
  <2> QED
    BY <1>12, <2>1, WatcherStep, ZenonT(30) DEF Stop
<1>13. ASSUME NEW r \in Roots, MarkDirty(r)
       PROVE  ProtectionInvariant'
  <2>1. \A s \in Roots \ {r} : Excused(s) => Excused(s)'
    OBVIOUS
  <2>2. \A s \in Roots : watcher' \in {"stopped", "stopping"} => watch'[s] = "none"
    BY <1>0, <1>13, Zenon DEF MarkDirty
  <2>3. Mark({r}) /\ UNCHANGED <<content, head, intent, saved, uncommitted, capture>>
    BY <1>13 DEF MarkDirty
  <2> HIDE DEF TypeOK
  <2> QED
    BY <2>1, <2>2, <2>3, MarkStep, Zenon
<1>14. ASSUME NEW r \in Roots, BeginCapture(r)
       PROVE  ProtectionInvariant'
  <2> SUFFICES ASSUME NEW s \in Roots
               PROVE  Protected(s)'
    BY DEF ProtectionInvariant
  <2>1. Protected(s) /\ Excused(s)' = Excused(s) /\ UNCHANGED watcherVars
    BY <1>0, <1>14, SameExcuses, Zenon DEF BeginCapture
  <2>2. UNCHANGED <<content, dirty, sequence, head, uncommitted, saved>>
    BY <1>14, Zenon DEF BeginCapture
  <2>3. s = r /\ s \notin uncommitted /\ capture'.from = content[s]
    BY <1>14, SMTT(30) DEF BeginCapture
  <2>4. intent[s] = None => intent'[s] = [change |-> IF s \in dirty THEN sequence[s] ELSE 0, anchor |-> 0]
    BY <1>14, <2>3, Zenon DEF BeginCapture
  <2>5. intent[s] # None => intent'[s] = intent[s]
    BY <1>14, <2>3, Zenon DEF BeginCapture
  <2>6. sequence[s] \in Nat /\ content[s] \in Nat
    BY Zenon
  <2> HIDE DEF TypeOK, RecordsOK, WatcherOK
  <2>7. CASE intent[s] = None
    <3>1. intent'[s].change = (IF s \in dirty THEN sequence[s] ELSE 0) /\ intent'[s].anchor = 0
      BY <2>4, <2>7, SMTT(30)
    <3>2. Fresh(intent'[s].change, s) /\ intent'[s].change <= sequence[s]
      BY <2>6, <3>1 DEF Fresh
    <3>3. \A c : Fresh(c, s)' <=> Fresh(c, s)
      BY <2>2 DEF Fresh
    <3>4. \A v : UpToDate(v, s)' <=> UpToDate(v, s)
      BY <2>1, <2>2, Zenon DEF UpToDate
    <3>5. UpToDate(capture.from, s)' /\ capture'.from <= content'[s]
      BY <2>2, <2>3, <2>6, SMTT(30) DEF UpToDate
    <3>6. watcher' = watcher /\ watch' = watch
      BY <2>1, Zenon DEF watcherVars
    <3>7. Fresh(intent[s].change, s)'
      BY <2>2, <3>2, Zenon DEF Fresh
    <3> QED
      BY <2>1, <2>2, <2>3, <3>1, <3>2, <3>3, <3>4, <3>5, <3>6, <3>7, ZenonT(30) DEF Protected
  <2>8. CASE intent[s] # None
    <3>1. \A c : Fresh(c, s)' <=> Fresh(c, s)
      BY <2>2 DEF Fresh
    <3>2. \A v : UpToDate(v, s)' <=> UpToDate(v, s)
      BY <2>1, <2>2 DEF UpToDate
    <3>3. UpToDate(capture.from, s)'
      BY <2>2, <2>3, Zenon DEF UpToDate
    <3>4. capture'.from <= content'[s]
      BY <2>2, <2>3, <2>6, SMTT(30)
    <3>5. intent'[s] = intent[s] /\ intent[s] # None
      BY <2>5, <2>8, Zenon
    <3>6. watcher' = watcher /\ watch' = watch
      BY <2>1 DEF watcherVars
    <3> QED
      BY <2>1, <2>2, <2>3, <3>1, <3>2, <3>3, <3>4, <3>5, <3>6, ZenonT(30) DEF Protected
  <2> QED
    BY <2>7, <2>8, Zenon
<1>15. ASSUME NEW r \in Roots, PublishAnchor(r)
       PROVE  ProtectionInvariant'
  <2> SUFFICES ASSUME NEW s \in Roots
               PROVE  Protected(s)'
    BY DEF ProtectionInvariant
  <2>1. Protected(s) /\ Excused(s)' = Excused(s) /\ UNCHANGED watcherVars
    BY <1>0, <1>15, SameExcuses, ZenonT(30) DEF PublishAnchor
  <2>2. UNCHANGED <<content, dirty, sequence, head, uncommitted, saved, capture>>
    BY <1>15, Zenon DEF PublishAnchor
  <2>3. s = r /\ Capturing(s) /\ intent[s] # None /\ intent[s].anchor = 0
    BY <1>15, Zenon DEF PublishAnchor, Capturing
  <2>4. PICK v \in capture.from .. content[s] : intent'[s] = [change |-> intent[s].change, anchor |-> v]
    BY <1>15, <2>3, Zenon DEF PublishAnchor
  <2>5. capture.from \in Nat /\ content[s] \in Nat
    BY <2>3 DEF Capturing
  <2> HIDE DEF TypeOK, RecordsOK, WatcherOK
  <2>6. UpToDate(capture.from, s) => v = content[s] \/ Excused(s)
    <3>1. capture.from = content[s] => v = content[s]
      BY <2>5, SMTT(30)
    <3> QED
      BY <3>1 DEF UpToDate
  <2>7. intent'[s].change = intent[s].change /\ intent'[s].anchor = v
    BY <2>4
  <2>8. Capturing(s)' /\ s \notin uncommitted
    <3>1. Capturing(s)'
      BY <2>2, <2>3, Zenon DEF Capturing
    <3>2. s \notin uncommitted
      BY <2>1, <2>3, Zenon DEF Protected
    <3> QED
      BY <3>1, <3>2, Zenon
  <2>9. v = 0 => capture.from = 0
    BY <2>4, <2>5, SMTT(30)
  <2>10. \A c : Fresh(c, s)' <=> Fresh(c, s)
    BY <2>2, Zenon DEF Fresh
  <2>11. \A x : UpToDate(x, s)' <=> UpToDate(x, s)
    BY <2>1, <2>2, Zenon DEF UpToDate
  <2>12. UpToDate(capture.from, s) => UpToDate(v, s)
    BY <2>6 DEF UpToDate
  <2>13. watcher' = watcher /\ watch' = watch
    BY <2>1, Zenon DEF watcherVars
  <2> QED
    BY <2>1, <2>2, <2>3, <2>7, <2>8, <2>9, <2>10, <2>11, <2>12, <2>13, ZenonT(30) DEF Protected
<1>16. ASSUME NEW r \in Roots, FinishCapture(r)
       PROVE  ProtectionInvariant'
  <2> SUFFICES ASSUME NEW s \in Roots
               PROVE  Protected(s)'
    BY DEF ProtectionInvariant
  <2>1. Protected(s) /\ Excused(s)' = Excused(s) /\ UNCHANGED watcherVars
    BY <1>0, <1>16, SameExcuses, ZenonT(30) DEF FinishCapture
  <2>2. UNCHANGED <<content, dirty, sequence, saved>>
    BY <1>16, ZenonT(30) DEF FinishCapture
  <2>3. s = r /\ intent[s] # None /\ intent[s].anchor # 0
    BY <1>16, Zenon DEF FinishCapture, Capturing
  <2>4. /\ head'[s] = [content |-> intent[s].anchor, change |-> intent[s].change]
        /\ s \in uncommitted' /\ intent'[s] = None /\ capture' = None
    <3>1. DOMAIN head = Roots /\ DOMAIN intent = Roots
      BY Zenon
    <3> HIDE DEF TypeOK, RecordsOK, WatcherOK
    <3> QED
      BY <1>16, <2>3, <3>1, Zenon DEF FinishCapture
  <2>5. head'[s].content = intent[s].anchor /\ head'[s].change = intent[s].change
    BY <2>4
  <2> HIDE DEF TypeOK, RecordsOK, WatcherOK
  <2>6. \A c : Fresh(c, s)' <=> Fresh(c, s)
    BY <2>2 DEF Fresh
  <2>7. \A v : UpToDate(v, s)' <=> UpToDate(v, s)
    BY <2>1, <2>2, Zenon DEF UpToDate
  <2>8. watcher' = watcher /\ watch' = watch /\ ~Capturing(s)'
    BY <2>1, <2>4, Zenon DEF watcherVars, Capturing
  <2>9. s \notin dirty => Fresh(intent[s].change, s)
    BY <2>1, <2>3, Zenon DEF Protected
  <2> QED
    BY <2>1, <2>2, <2>3, <2>4, <2>5, <2>6, <2>7, <2>8, <2>9, ZenonT(30) DEF Protected
<1>17. ASSUME NEW r \in Roots, FailCapture(r)
       PROVE  ProtectionInvariant'
  <2> SUFFICES ASSUME NEW s \in Roots
               PROVE  Protected(s)'
    BY DEF ProtectionInvariant
  <2>1. Protected(s) /\ Excused(s)' = Excused(s) /\ UNCHANGED watcherVars
    BY <1>0, <1>17, SameExcuses, ZenonT(30) DEF FailCapture
  <2>2. UNCHANGED <<content, dirty, sequence, head, uncommitted, saved>>
    BY <1>17, Zenon DEF FailCapture
  <2>3. intent'[s] = None /\ capture' = None
    BY <1>17, Zenon DEF FailCapture
  <2> QED
    BY <2>1, <2>2, <2>3, ZenonT(30) DEF Protected, Fresh, UpToDate, Capturing, watcherVars
<1>18. ASSUME NEW S \in SUBSET uncommitted, StoreCheckpoint(S)
       PROVE  ProtectionInvariant'
  <2> SUFFICES ASSUME NEW s \in Roots
               PROVE  Protected(s)'
    BY ZenonT(30) DEF ProtectionInvariant
  <2>1. Protected(s) /\ Excused(s)' = Excused(s) /\ UNCHANGED watcherVars
    BY <1>0, <1>18, SameExcuses, ZenonT(30) DEF StoreCheckpoint
  <2>2. UNCHANGED <<content, dirty, sequence, intent, head, capture>>
    BY <1>18, Zenon DEF StoreCheckpoint
  <2>3. saved'[s] = (IF s \in S THEN head[s].content ELSE saved[s]) /\ uncommitted' = uncommitted \ S
    BY <1>18, Zenon DEF StoreCheckpoint
  <2> QED
    BY <2>1, <2>2, <2>3, ZenonT(30) DEF Protected, Fresh, UpToDate, Capturing, watcherVars
<1>22. CASE ClearDirty
  <2> SUFFICES ASSUME NEW s \in Roots
               PROVE  Protected(s)'
    BY Zenon DEF ProtectionInvariant
  <2>1. Protected(s) /\ Excused(s)' = Excused(s) /\ UNCHANGED watcherVars
    BY <1>0, <1>22, SameExcuses, Zenon DEF ClearDirty
  <2>2. UNCHANGED <<content, sequence, intent, head, uncommitted, saved, capture>>
    BY <1>22, Zenon DEF ClearDirty
  <2>3. s \in dirty' => s \in dirty
    BY <1>22, Zenon DEF ClearDirty
  <2>4. CASE s \in dirty' <=> s \in dirty
    BY <2>1, <2>2, <2>4, FrameProtected, ZenonT(30) DEF watcherVars, Protected
  <2>5. CASE s \in dirty /\ s \notin dirty'
    <3>1. s \notin uncommitted /\ head[s].change = sequence[s]
      BY <1>22, <2>5, Zenon DEF ClearDirty
    <3>2. intent[s] # None => intent[s].change = sequence[s]
      BY <2>1, <2>5, <3>1, ZenonT(30) DEF Protected, Fresh
    <3> QED
      BY <2>1, <2>2, <2>5, <3>1, <3>2, ZenonT(30) DEF Protected, Fresh, UpToDate, Capturing, watcherVars
  <2> QED
    BY <2>3, <2>4, <2>5, Zenon
<1>19. CASE Reconcile
  <2>1. \A s \in Roots : Excused(s)' = Excused(s)
    BY <1>19, SameExcuses, ZenonT(30) DEF Reconcile
  <2> QED
    BY <1>0, <1>19, <2>1, MarkStep, ZenonT(30) DEF Reconcile, watcherVars
<1>20. CASE Crash
  <2>1. \A s \in Roots : Excused(s)' /\ watch'[s] = "none"
    BY <1>20, ZenonT(30) DEF Crash, Excused
  <2> QED
    BY <1>20, <2>1, WatcherStep, ZenonT(30) DEF Crash
<1>21. CASE UNCHANGED vars
  <2>1. \A s \in Roots : Excused(s)' = Excused(s)
    BY <1>21, SameExcuses, Zenon DEF vars, watcherVars
  <2> QED
    BY <1>0, <1>21, <2>1, WatcherStep, ZenonT(30) DEF vars, recordVars
<1> QED
  BY <1>1, <1>2, <1>3, <1>4, <1>5, <1>6, <1>7, <1>8, <1>9, <1>10, <1>11, <1>12, <1>13, <1>14, <1>15,
     <1>16, <1>17, <1>18, <1>19, <1>20, <1>21, <1>22, ZenonT(30) DEF Next, WatchLoop, BackupLoop, CheckpointLoop

(* A node with one protected root keeps the invariant from the start. *)
THEOREM ProtectionInvariantHolds == (\A x, y \in Roots : x = y) => (Spec => []ProtectionInvariant)
<1> SUFFICES ASSUME \A x, y \in Roots : x = y
             PROVE  Spec => []ProtectionInvariant
  BY Zenon
<1>1. Init => ProtectionInvariant
  <2> SUFFICES ASSUME Init, NEW r \in Roots
               PROVE  Protected(r)
    BY Zenon DEF ProtectionInvariant
  <2>1. Excused(r)
    BY Zenon DEF Init, Excused
  <2>2. /\ head[r].change = 0 /\ head[r].content = 0 /\ saved[r] = 0 /\ sequence[r] = 0
        /\ r \in dirty /\ r \notin uncommitted /\ intent[r] = None /\ watch[r] = "none"
        /\ ~Capturing(r)
    BY DEF Init, Capturing
  <2>3. UpToDate(head[r].content, r) /\ UpToDate(saved[r], r)
    BY <2>1, Zenon DEF UpToDate
  <2>4. head[r].change <= sequence[r] /\ saved[r] = head[r].content
    BY <2>2
  <2> QED
    BY <2>2, <2>3, <2>4, Zenon DEF Protected
<1>2. TypeOK /\ ProtectionInvariant /\ [Next]_vars => ProtectionInvariant'
  BY ProtectionPreserved
<1> QED
  BY <1>1, <1>2, TypeCorrect, PTL DEF Spec

(* On a node with one protected root no change is ever forgotten, however  *)
(* small the watcher's channel and whatever it drops: try_send only drops  *)
(* a hint when the channel holds others for the same root.                 *)
THEOREM OneRootNothingForgotten == (\A x, y \in Roots : x = y) => (Spec => []NothingForgotten)
<1> SUFFICES ASSUME \A x, y \in Roots : x = y
             PROVE  Spec => []NothingForgotten
  BY Zenon
<1>1. TypeOK /\ ProtectionInvariant => NothingForgotten
  BY DEF TypeOK, RecordsOK, ProtectionInvariant, Protected, NothingForgotten, UpToDate, Excused
<1>2. Spec => []ProtectionInvariant
  BY ProtectionInvariantHolds
<1> QED
  BY <1>1, <1>2, TypeCorrect, PTL

=============================================================================
