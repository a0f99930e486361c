------------------------- MODULE GuildHistoryProofs -------------------------
(***************************************************************************)
(* What every guild history guarantees, for every set of nodes, groups,    *)
(* keys and policies and for histories of any length.                      *)
(***************************************************************************)
EXTENDS GuildHistory, GuildStateProofs

(* Every event that is committed is one of the kinds of GuildEventKind.    *)
LEMMA NextCommits ==
    ASSUME state \in States, Next
    PROVE  \E k \in Kinds : Commit(k)
<1>1. CASE CommitAddMember
  BY <1>1 DEF CommitAddMember, AddMember, Kinds
<1>2. CASE CommitRemoveMember
  BY <1>2 DEF CommitRemoveMember, RemoveMember, Kinds
<1>3. CASE CommitRelabelMember
  BY <1>3 DEF CommitRelabelMember, RelabelMember, Kinds
<1>4. CASE CommitSetQuorum
  BY <1>4 DEF CommitSetQuorum, SetQuorum, Kinds
<1>5. CASE CommitRotateKey
  <2>1. PICK c \in KeyClasses, n \in Nodes, b \in KeyBytes :
           Commit(RotateKey(c, n, Len(state.keys[c][n]) + 1, b))
    BY <1>5 DEF CommitRotateKey
  <2>2. Len(state.keys[c][n]) + 1 \in Nat
    BY DEF States
  <2>3. RotateKey(c, n, Len(state.keys[c][n]) + 1, b) \in Kinds
    BY <2>2 DEF RotateKey, Kinds
  <2> QED BY <2>1, <2>3
<1>6. CASE CommitRevokeKey
  <2>1. PICK c \in KeyClasses, n \in Nodes : \E e \in DOMAIN state.keys[c][n] : Commit(RevokeKey(c, n, e))
    BY <1>6 DEF CommitRevokeKey
  <2>2. PICK e \in DOMAIN state.keys[c][n] : Commit(RevokeKey(c, n, e))
    BY <2>1
  <2>3. state.keys[c][n] \in Seq(Keys)
    BY DEF States
  <2>4. e \in Nat
    BY <2>3
  <2>5. RevokeKey(c, n, e) \in Kinds
    BY <2>4 DEF RevokeKey, Kinds
  <2> QED BY <2>2, <2>5
<1>7. CASE CommitAddCodingGroup
  BY <1>7 DEF CommitAddCodingGroup, AddCodingGroup, Kinds
<1>8. CASE CommitRetireCodingGroup
  BY <1>8, MaxSequenceAssumption DEF CommitRetireCodingGroup, RetireCodingGroup, Kinds
<1>9. CASE CommitForgetCodingGroup
  BY <1>9 DEF CommitForgetCodingGroup, ForgetCodingGroup, Kinds
<1> QED BY <1>1, <1>2, <1>3, <1>4, <1>5, <1>6, <1>7, <1>8, <1>9 DEF Next

(* Replay keeps the guild state well formed and valid: the two facts that  *)
(* every other theorem here rests on.                                      *)
HistoryInvariant == TypeOK /\ Valid(state)

THEOREM HistoryInvariantHolds == Spec => []HistoryInvariant
<1>1. Init => HistoryInvariant
  BY NewGuildTyped, NewGuildValid, MaxSequenceAssumption
     DEF Init, HistoryInvariant, TypeOK, Sequence, NewGuild
<1>2. HistoryInvariant /\ [Next]_state => HistoryInvariant'
  <2>1. ASSUME HistoryInvariant, Next PROVE HistoryInvariant'
    <3>1. PICK k \in Kinds : Commit(k)
      BY <2>1, NextCommits DEF HistoryInvariant, TypeOK
    <3>2. state \in States /\ Admissible(state, k) /\ state' = ApplyVerified(state, k) /\ Valid(state')
      BY <2>1, <3>1 DEF HistoryInvariant, TypeOK, Commit, ValidProposal
    <3>3. state' \in States /\ Sequence(state') = Sequence(state) + 1
      BY <3>2, ApplyTyped
    <3>4. Sequence(state') <= MaxSequence
      BY <3>1, <3>2, <3>3, MaxSequenceAssumption DEF Commit, Sequence, States
    <3> QED BY <3>2, <3>3, <3>4 DEF HistoryInvariant, TypeOK
  <2>2. ASSUME HistoryInvariant, UNCHANGED state PROVE HistoryInvariant'
    BY <2>2 DEF HistoryInvariant, TypeOK
  <2> QED BY <2>1, <2>2
<1> QED BY <1>1, <1>2, PTL DEF Spec

(* The state that replaying any certified history gives is well formed.    *)
THEOREM TypeCorrect == Spec => []TypeOK
<1>1. HistoryInvariant => TypeOK
  BY DEF HistoryInvariant
<1> QED BY <1>1, HistoryInvariantHolds, PTL

(* No sequence of legal events leaves a guild that cannot certify another  *)
(* one, or whose policy admits two disjoint quorums.                       *)
THEOREM AlwaysGovernable == Spec => []Governable
<1>1. HistoryInvariant => Governable
  <2> SUFFICES ASSUME HistoryInvariant PROVE Governable
    OBVIOUS
  <2> DEFINE A == Active(state)
             need == Required(state.quorum, Cardinality(A))
  <2>1. state \in States /\ Valid(state)
    BY DEF HistoryInvariant, TypeOK
  <2>2. IsFiniteSet(A) /\ Cardinality(A) \in Nat
    BY <2>1, ActiveFinite
  <2>3. Cardinality(A) >= need
    BY <2>1, <2>2 DEF Valid, Satisfiable
  <2>4. \A S, T \in {S \in SUBSET A : Cardinality(S) >= need} : S \cap T # {}
    BY <2>1, QuorumsIntersect
  <2>5. A \in {S \in SUBSET A : Cardinality(S) >= need}
    BY <2>3
  <2> QED BY <2>4, <2>5 DEF Governable
<1> QED BY <1>1, HistoryInvariantHolds, PTL

(* A step that keeps the membership epoch keeps everything an attempt's    *)
(* authority depends on, so comparing epochs is enough.                    *)
THEOREM EpochFences == Spec => EpochFencesAuthority
<1>1. HistoryInvariant /\ [Next]_state =>
        [state'.epoch = state.epoch =>
           /\ Active(state') = Active(state)
           /\ \A n \in Active(state) : state'.members[n].domain = state.members[n].domain
           /\ state'.quorum = state.quorum]_state
  <2> SUFFICES ASSUME HistoryInvariant, Next, state'.epoch = state.epoch
               PROVE  /\ Active(state') = Active(state)
                      /\ \A n \in Active(state) : state'.members[n].domain = state.members[n].domain
                      /\ state'.quorum = state.quorum
    OBVIOUS
  <2>1. PICK k \in Kinds : Commit(k)
    BY NextCommits DEF HistoryInvariant, TypeOK
  <2>2. state \in States /\ state' = ApplyVerified(state, k)
    BY <2>1 DEF HistoryInvariant, TypeOK, Commit
  <2>3. k.type \notin MembershipTypes
    BY <2>2 DEF ApplyVerified, EpochAfter, States
  <2>4. state'.members = state.members /\ state'.quorum = state.quorum
    BY <2>2, <2>3 DEF ApplyVerified, MembersAfter, MembershipTypes
  <2> QED BY <2>4 DEF Active, Known
<1> QED BY <1>1, HistoryInvariantHolds, PTL DEF Spec, EpochFencesAuthority

(* A removed member id never becomes active again. *)
THEOREM RemovalIsFinal == Spec => RemovedForGood
<1>1. HistoryInvariant /\ [Next]_state =>
        [Known(state) \ Active(state) \subseteq Known(state') \ Active(state')]_state
  <2> SUFFICES ASSUME HistoryInvariant, Next, NEW n \in Known(state) \ Active(state)
               PROVE  n \in Known(state') \ Active(state')
    OBVIOUS
  <2>1. PICK k \in Kinds : Commit(k)
    BY NextCommits DEF HistoryInvariant, TypeOK
  <2>2. state \in States /\ Admissible(state, k) /\ state' = ApplyVerified(state, k)
    BY <2>1 DEF HistoryInvariant, TypeOK, Commit, ValidProposal
  <2>3. state'.members[n] = state.members[n]
    <3>1. k.type \in {"AddMember", "RemoveMember", "RelabelMember"} => k.node # n
      BY <2>2 DEF Admissible, MemberAddable
    <3>2. state.members \in [Nodes -> Members \cup {Absent}] /\ n \in Nodes
      BY <2>2 DEF States, Known
    <3>3. state'.members = MembersAfter(state, k)
      BY <2>2 DEF ApplyVerified
    <3> QED BY <3>1, <3>2, <3>3, Zenon DEF MembersAfter
  <2> QED BY <2>3 DEF Active, Known
<1> QED BY <1>1, HistoryInvariantHolds, PTL DEF Spec, RemovedForGood

(* A key that was superseded or revoked is never current again: a rotation *)
(* makes the next epoch current, a revocation the same one or none.        *)
THEOREM KeysStayDead == Spec => KeysNeverRevive
<1>1. HistoryInvariant /\ [Next]_state =>
        [\A c \in KeyClasses, n \in Nodes :
           CurrentKey(state', c, n) # CurrentKey(state, c, n) =>
              CurrentKey(state', c, n) \in {0, Len(state.keys[c][n]) + 1}]_state
  <2> SUFFICES ASSUME HistoryInvariant, Next, NEW c \in KeyClasses, NEW n \in Nodes,
                      CurrentKey(state', c, n) # CurrentKey(state, c, n)
               PROVE  CurrentKey(state', c, n) \in {0, Len(state.keys[c][n]) + 1}
    OBVIOUS
  <2> DEFINE table == state.keys[c][n]
             after == state'.keys[c][n]
  <2>1. PICK k \in Kinds : Commit(k)
    BY NextCommits DEF HistoryInvariant, TypeOK
  <2>2. state \in States /\ Admissible(state, k) /\ state' = ApplyVerified(state, k)
    BY <2>1 DEF HistoryInvariant, TypeOK, Commit, ValidProposal
  <2>3. state.keys \in [KeyClasses -> [Nodes -> Seq(Keys)]] /\ table \in Seq(Keys)
    BY <2>2 DEF States
  <2>4. state'.keys = KeysAfter(state, k)
    BY <2>2 DEF ApplyVerified
  <2>5. k.type \in {"RotateKey", "RevokeKey"} /\ k.class = c /\ k.node = n
    <3>1. SUFFICES ASSUME ~(k.type \in {"RotateKey", "RevokeKey"} /\ k.class = c /\ k.node = n)
                   PROVE  after = table
      BY DEF CurrentKey
    <3>2. CASE k.type \notin {"RotateKey", "RevokeKey"}
      BY <2>4, <3>2 DEF KeysAfter
    <3>3. CASE k.type \in {"RotateKey", "RevokeKey"}
      <4>1. k.class \in KeyClasses /\ k.node \in Nodes
        BY <3>3, Zenon DEF Kinds
      <4>2. \E update : state'.keys = [state.keys EXCEPT ![k.class] =
                                        [state.keys[k.class] EXCEPT ![k.node] = update]]
        BY <2>4, <3>3, Zenon DEF KeysAfter
      <4> QED BY <2>3, <3>1, <3>3, <4>1, <4>2
    <3> QED BY <3>2, <3>3
  <2>6. CASE k.type = "RotateKey"
    <3> DEFINE new == [bytes |-> k.bytes, activated |-> Sequence(state) + 1, revoked |-> 0]
    <3>1. after = Append(table, new)
      BY <2>3, <2>4, <2>5, <2>6 DEF KeysAfter
    <3>2. new.revoked = 0
      OBVIOUS
    <3> HIDE DEF new
    <3>3. Len(after) = Len(table) + 1 /\ after[Len(table) + 1] = new /\ Len(table) \in Nat
      BY <2>3, <3>1, SMTT(30)
    <3> QED BY <3>2, <3>3, Zenon DEF CurrentKey
  <2>7. CASE k.type = "RevokeKey"
    <3>1. k.epoch \in DOMAIN table
      BY <2>2, <2>5, <2>7, Zenon DEF Admissible
    <3> DEFINE new == [bytes |-> table[k.epoch].bytes, activated |-> table[k.epoch].activated,
                       revoked |-> Sequence(state) + 1]
    <3>2. after = [table EXCEPT ![k.epoch] = new]
      BY <2>3, <2>4, <2>5, <2>7 DEF KeysAfter
    <3>3. new.revoked # 0
      BY <2>2 DEF States, Sequence
    <3> HIDE DEF new
    <3>4. Len(after) = Len(table) /\ Len(table) \in Nat
      BY <2>3, <3>2
    <3>5. \A e \in DOMAIN table : after[e] = IF e = k.epoch THEN new ELSE table[e]
      BY <2>3, <3>2
    <3>6. Len(table) # 0 => Len(table) \in DOMAIN table
      BY <2>3
    <3> QED BY <3>3, <3>4, <3>5, <3>6, Zenon DEF CurrentKey
  <2> QED BY <2>5, <2>6, <2>7
<1> QED BY <1>1, HistoryInvariantHolds, PTL DEF Spec, KeysNeverRevive

(* The history records the event of this type for group g at position i.   *)
Recorded(h, i, type, g) == i \in DOMAIN h /\ h[i].type = type /\ h[i].group = g

(* What the record of a group says of the history: its added and retired   *)
(* numbers are those of the last Add and of the Retire that followed it,   *)
(* and no Forget came after the Add; every Add of a group without a record *)
(* was followed by a Forget.                                               *)
GroupTraced(s, g) ==
    LET h == s.history
        kept == s.groups[g]
    IN  IF g \in Retained(s)
        THEN /\ Recorded(h, kept.added, "AddCodingGroup", g)
             /\ \A m \in DOMAIN h : m > kept.added => ~Recorded(h, m, "AddCodingGroup", g)
             /\ \A m \in DOMAIN h : m >= kept.added => ~Recorded(h, m, "ForgetCodingGroup", g)
             /\ kept.retired # 0 =>
                   /\ kept.retired >= kept.added
                   /\ Recorded(h, kept.retired, "RetireCodingGroup", g)
                   /\ h[kept.retired].through = kept.through
        ELSE \A m \in DOMAIN h : Recorded(h, m, "AddCodingGroup", g) =>
                \E j \in DOMAIN h : m <= j /\ Recorded(h, j, "ForgetCodingGroup", g)

(* Every Forget in the history came after its group's retention window.    *)
ForgetsAllowed(h, g) ==
    \A j \in DOMAIN h : Recorded(h, j, "ForgetCodingGroup", g) =>
       \E i \in 1 .. j - 1 :
          /\ Recorded(h, i, "RetireCodingGroup", g)
          /\ h[i].through < j
          /\ \A m \in i .. j : ~Recorded(h, m, "AddCodingGroup", g)

(* A committed event is the last of the new history and leaves the earlier *)
(* ones where they were.                                                   *)
LEMMA HistoryGrows ==
    ASSUME NEW s \in States, NEW k \in Kinds
    PROVE  LET h == s.history
               new == ApplyVerified(s, k).history
           IN  /\ Len(h) \in Nat /\ DOMAIN h = 1 .. Len(h)
               /\ DOMAIN new = 1 .. Len(h) + 1
               /\ new[Len(h) + 1] = k
               /\ \A i \in DOMAIN h : new[i] = h[i]
<1>1. s.history \in Seq(Kinds)
  BY DEF States
<1> QED BY <1>1 DEF ApplyVerified

(* apply_verified_event keeps the trace of every group. *)
LEMMA TraceKept ==
    ASSUME NEW s \in States, NEW k \in Kinds, Admissible(s, k), Valid(s),
           NEW g \in Groups, GroupTraced(s, g)
    PROVE  GroupTraced(ApplyVerified(s, k), g)
<1> DEFINE t == ApplyVerified(s, k)
           h == s.history
           n == Len(h) + 1
<1>1. /\ Len(h) \in Nat /\ DOMAIN h = 1 .. Len(h)
      /\ DOMAIN t.history = 1 .. n
      /\ t.history[n] = k
      /\ \A i \in DOMAIN h : t.history[i] = h[i]
  BY HistoryGrows
<1>2. s.groups \in [Groups -> RetainedGroups \cup {Absent}]
  BY DEF States
<1>3. t.groups = GroupsAfter(s, k)
  BY DEF ApplyVerified
<1>4. \A type : /\ Recorded(t.history, n, type, g) <=> k.type = type /\ k.group = g
                /\ \A i \in DOMAIN h : Recorded(t.history, i, type, g) <=> Recorded(h, i, type, g)
  BY <1>1 DEF Recorded
<1>5. \A i \in DOMAIN t.history : i \in DOMAIN h \/ i = n
  BY <1>1
<1>6. Sequence(s) = Len(h)
  BY DEF Sequence
<1> SUFFICES GroupTraced(t, g)
  OBVIOUS
<1> HIDE DEF t, h, n
<1>7. CASE k.type \notin {"AddCodingGroup", "RetireCodingGroup", "ForgetCodingGroup"} \/ k.group # g
  <2>1. t.groups[g] = s.groups[g]
    BY <1>2, <1>3, <1>7 DEF GroupsAfter, Kinds
  <2>2. g \in Retained(t) <=> g \in Retained(s)
    BY <2>1 DEF Retained
  <2>3. \A type \in {"AddCodingGroup", "RetireCodingGroup", "ForgetCodingGroup"} :
           ~Recorded(t.history, n, type, g)
    BY <1>4, <1>7, Zenon
  <2>4. CASE g \in Retained(s)
    <3>1. s.groups[g].added \in DOMAIN h
      BY <2>4, Zenon DEF GroupTraced, Recorded, h
    <3>2. s.groups[g].retired # 0 => s.groups[g].retired \in DOMAIN h
      BY <2>4 DEF GroupTraced, Recorded, h
    <3> QED BY <1>1, <1>4, <1>5, <2>1, <2>2, <2>3, <2>4, <3>1, <3>2, ZenonT(30) DEF GroupTraced, h
  <2>5. CASE g \notin Retained(s)
    <3> SUFFICES ASSUME NEW m \in DOMAIN t.history, Recorded(t.history, m, "AddCodingGroup", g)
                 PROVE  \E j \in DOMAIN t.history : m <= j /\ Recorded(t.history, j, "ForgetCodingGroup", g)
      BY <2>2, <2>5 DEF GroupTraced
    <3>1. m \in DOMAIN h /\ Recorded(h, m, "AddCodingGroup", g)
      BY <1>4, <1>5, <2>3
    <3>2. PICK j \in DOMAIN h : m <= j /\ Recorded(h, j, "ForgetCodingGroup", g)
      BY <2>5, <3>1 DEF GroupTraced, h
    <3>3. j \in DOMAIN t.history
      BY <1>1 DEF n
    <3> QED BY <1>4, <3>2, <3>3
  <2> QED BY <2>4, <2>5
<1>8. CASE k.type = "AddCodingGroup" /\ k.group = g
  <2>1. t.groups[g] = [added |-> n, retired |-> 0, through |-> 0]
    BY <1>2, <1>3, <1>6, <1>8 DEF GroupsAfter, n
  <2>2. g \in Retained(t) /\ t.groups[g].added = n /\ t.groups[g].retired = 0
    BY <2>1 DEF Retained, Absent
  <2>3. n \in DOMAIN t.history /\ \A m \in DOMAIN t.history : m <= n
    BY <1>1 DEF n
  <2>4. \A m \in DOMAIN t.history : ~(m > n) /\ (m >= n => m = n)
    BY <1>1, <2>3, SMTT(30) DEF n
  <2> QED BY <1>4, <1>8, <2>2, <2>4 DEF GroupTraced
<1>9. CASE k.type = "RetireCodingGroup" /\ k.group = g
  <2>1. g \in Retained(s) /\ s.groups[g] \in RetainedGroups
    BY <1>2, <1>9 DEF Admissible, Retained
  <2>2. t.groups[g] = [added |-> s.groups[g].added, retired |-> n, through |-> k.through]
    BY <1>2, <1>3, <1>6, <1>9 DEF GroupsAfter, n
  <2>3. /\ g \in Retained(t) /\ t.groups[g].added = s.groups[g].added
        /\ t.groups[g].retired = n /\ t.groups[g].through = k.through
    BY <2>2, SMTT(30) DEF Retained, Absent
  <2>4. s.groups[g].added \in DOMAIN h /\ s.groups[g].added <= n
    BY <1>1, <2>1 DEF GroupTraced, Recorded, h, n
  <2>5. ~Recorded(t.history, n, "AddCodingGroup", g) /\ ~Recorded(t.history, n, "ForgetCodingGroup", g)
    BY <1>4, <1>9
  <2>6. Recorded(t.history, n, "RetireCodingGroup", g) /\ t.history[n].through = k.through
    BY <1>1, <1>4, <1>9
  <2>7. \A m \in DOMAIN t.history : /\ m > s.groups[g].added => ~Recorded(t.history, m, "AddCodingGroup", g)
                                    /\ m >= s.groups[g].added => ~Recorded(t.history, m, "ForgetCodingGroup", g)
    BY <1>4, <1>5, <2>1, <2>5, Zenon DEF GroupTraced, h
  <2>8. Recorded(t.history, s.groups[g].added, "AddCodingGroup", g)
    BY <1>4, <2>1, <2>4 DEF GroupTraced, h
  <2>9. n >= s.groups[g].added
    BY <1>1, <2>4, Zenon DEF n
  <2> QED BY <2>3, <2>6, <2>7, <2>8, <2>9 DEF GroupTraced
<1>10. CASE k.type = "ForgetCodingGroup" /\ k.group = g
  <2>1. t.groups[g] = Absent
    BY <1>2, <1>3, <1>10 DEF GroupsAfter
  <2>2. g \notin Retained(t)
    BY <2>1 DEF Retained
  <2>3. n \in DOMAIN t.history /\ \A m \in DOMAIN t.history : m <= n
    BY <1>1 DEF n
  <2>4. Recorded(t.history, n, "ForgetCodingGroup", g)
    BY <1>4, <1>10
  <2> QED BY <2>2, <2>3, <2>4 DEF GroupTraced
<1> QED BY <1>7, <1>8, <1>9, <1>10

(* A Forget is admitted only after the window that the Retire of the same  *)
(* incarnation set, and what was allowed before stays so.                  *)
LEMMA ForgetsStayAllowed ==
    ASSUME NEW s \in States, NEW k \in Kinds, Admissible(s, k), Valid(s),
           NEW g \in Groups, GroupTraced(s, g), ForgetsAllowed(s.history, g)
    PROVE  ForgetsAllowed(ApplyVerified(s, k).history, g)
<1> DEFINE t == ApplyVerified(s, k)
           h == s.history
           n == Len(h) + 1
<1>1. /\ Len(h) \in Nat /\ DOMAIN h = 1 .. Len(h)
      /\ DOMAIN t.history = 1 .. n
      /\ t.history[n] = k
      /\ \A i \in DOMAIN h : t.history[i] = h[i]
  BY HistoryGrows
<1>2. \A type : /\ Recorded(t.history, n, type, g) <=> k.type = type /\ k.group = g
                /\ \A i \in DOMAIN h : Recorded(t.history, i, type, g) <=> Recorded(h, i, type, g)
  BY <1>1 DEF Recorded
<1> SUFFICES ASSUME NEW j \in DOMAIN t.history, Recorded(t.history, j, "ForgetCodingGroup", g)
             PROVE  \E i \in 1 .. j - 1 :
                       /\ Recorded(t.history, i, "RetireCodingGroup", g)
                       /\ t.history[i].through < j
                       /\ \A m \in i .. j : ~Recorded(t.history, m, "AddCodingGroup", g)
  BY DEF ForgetsAllowed
<1>3. Sequence(s) = Len(h)
  BY DEF Sequence
<1>4. s.groups \in [Groups -> RetainedGroups \cup {Absent}]
  BY DEF States
<1>5. ForgetsAllowed(h, g)
  OBVIOUS
<1> HIDE DEF t, h, n
<1>6. CASE j \in DOMAIN h
  <2>1. PICK i \in 1 .. j - 1 :
           /\ Recorded(h, i, "RetireCodingGroup", g)
           /\ h[i].through < j
           /\ \A m \in i .. j : ~Recorded(h, m, "AddCodingGroup", g)
    BY <1>2, <1>5, <1>6 DEF ForgetsAllowed
  <2>2. i \in DOMAIN h /\ \A m \in i .. j : m \in DOMAIN h
    BY <1>1, <1>6
  <2> QED BY <1>1, <1>2, <2>1, <2>2, Zenon
<1>7. CASE j = n
  <2>1. k.type = "ForgetCodingGroup" /\ k.group = g
    BY <1>2, <1>7
  <2> DEFINE kept == s.groups[g]
  <2>2. g \in Retained(s) /\ kept.through # 0 /\ n > kept.through
    BY <1>3, <2>1, Zenon DEF Admissible, Forgettable, n
  <2>3. kept \in RetainedGroups /\ kept.retired # 0
    BY <1>4, <2>2, Zenon DEF Valid, Retained
  <2>4. /\ kept.retired >= kept.added
        /\ Recorded(h, kept.retired, "RetireCodingGroup", g)
        /\ h[kept.retired].through = kept.through
        /\ \A m \in DOMAIN h : m > kept.added => ~Recorded(h, m, "AddCodingGroup", g)
    BY <2>2, <2>3 DEF GroupTraced, h
  <2> HIDE DEF kept
  <2>5. kept.retired \in DOMAIN h /\ kept.added \in Nat /\ kept.through \in Nat
    BY <2>3, <2>4 DEF Recorded, RetainedGroups
  <2>6. kept.retired \in 1 .. j - 1
    BY <1>1, <1>7, <2>5 DEF n
  <2>7. t.history[kept.retired].through < j
    BY <1>1, <1>7, <2>2, <2>4, <2>5 DEF n
  <2>8. Recorded(t.history, kept.retired, "RetireCodingGroup", g)
    BY <1>2, <2>4, <2>5
  <2>9. ASSUME NEW m \in kept.retired .. j PROVE ~Recorded(t.history, m, "AddCodingGroup", g)
    <3>1. CASE m = n
      BY <1>2, <2>1, <3>1
    <3>2. CASE m = kept.retired
      BY <2>8, <3>2 DEF Recorded
    <3>3. CASE m \in DOMAIN h /\ m > kept.added
      BY <1>2, <2>4, <3>3, Zenon
    <3>4. m = n \/ m = kept.retired \/ (m \in DOMAIN h /\ m > kept.added)
      BY <1>1, <1>7, <2>4, <2>5 DEF n
    <3> QED BY <3>1, <3>2, <3>3, <3>4
  <2> QED BY <2>6, <2>7, <2>8, <2>9
<1> QED BY <1>1, <1>6, <1>7 DEF n

RetentionInvariant ==
    /\ HistoryInvariant
    /\ \A g \in Groups : GroupTraced(state, g) /\ ForgetsAllowed(state.history, g)

(* Whatever the order of events, a coding group is forgotten only after    *)
(* its retention window, and the groups retained are those the history     *)
(* added and has not forgotten since.                                      *)
THEOREM RetentionHonoured == Spec => []RetentionWindow
<1>1. Init => RetentionInvariant
  <2> SUFFICES ASSUME Init PROVE RetentionInvariant
    OBVIOUS
  <2>1. HistoryInvariant
    BY NewGuildTyped, NewGuildValid, MaxSequenceAssumption
       DEF Init, HistoryInvariant, TypeOK, Sequence, NewGuild
  <2>2. state.history = << >> /\ Retained(state) = {}
    BY DEF Init, NewGuild, Retained
  <2>3. \A g \in Groups : GroupTraced(state, g) /\ ForgetsAllowed(state.history, g)
    BY <2>2 DEF GroupTraced, ForgetsAllowed
  <2> QED BY <2>1, <2>3 DEF RetentionInvariant
<1>2. RetentionInvariant /\ HistoryInvariant' /\ [Next]_state => RetentionInvariant'
  <2>1. ASSUME RetentionInvariant, HistoryInvariant', Next PROVE RetentionInvariant'
    <3>1. PICK k \in Kinds : Commit(k)
      BY <2>1, NextCommits DEF RetentionInvariant, HistoryInvariant, TypeOK
    <3>2. state \in States /\ Valid(state) /\ Admissible(state, k) /\ state' = ApplyVerified(state, k)
      BY <2>1, <3>1 DEF RetentionInvariant, HistoryInvariant, TypeOK, Commit, ValidProposal
    <3>3. ASSUME NEW g \in Groups
          PROVE  GroupTraced(state', g) /\ ForgetsAllowed(state'.history, g)
      <4>1. GroupTraced(state, g) /\ ForgetsAllowed(state.history, g)
        BY <2>1 DEF RetentionInvariant
      <4>2. GroupTraced(ApplyVerified(state, k), g)
        BY <3>2, <4>1, TraceKept
      <4>3. ForgetsAllowed(ApplyVerified(state, k).history, g)
        BY <3>2, <4>1, ForgetsStayAllowed
      <4> QED BY <3>2, <4>2, <4>3
    <3> QED BY <2>1, <3>3 DEF RetentionInvariant
  <2>2. ASSUME RetentionInvariant, UNCHANGED state PROVE RetentionInvariant'
    BY <2>2 DEF RetentionInvariant, HistoryInvariant, TypeOK
  <2> QED BY <2>1, <2>2
<1>3. RetentionInvariant => RetentionWindow
  <2> SUFFICES ASSUME RetentionInvariant PROVE RetentionWindow
    OBVIOUS
  <2> DEFINE h == state.history
  <2>1. Len(h) \in Nat /\ DOMAIN h = 1 .. Len(h)
    BY DEF RetentionInvariant, HistoryInvariant, TypeOK, States
  <2>2. ASSUME NEW g \in Groups, NEW j \in DOMAIN h, h[j].type = "ForgetCodingGroup", h[j].group = g
        PROVE  \E i \in 1 .. j - 1 :
                  /\ h[i].type = "RetireCodingGroup" /\ h[i].group = g
                  /\ h[i].through < j
                  /\ \A m \in i .. j : ~(h[m].type = "AddCodingGroup" /\ h[m].group = g)
    <3>1. PICK i \in 1 .. j - 1 :
             /\ Recorded(h, i, "RetireCodingGroup", g)
             /\ h[i].through < j
             /\ \A m \in i .. j : ~Recorded(h, m, "AddCodingGroup", g)
      BY <2>2 DEF RetentionInvariant, ForgetsAllowed, Recorded
    <3>2. \A m \in i .. j : m \in DOMAIN h
      BY <2>1
    <3> QED BY <3>1, <3>2 DEF Recorded
  <2>3. ASSUME NEW g \in Groups
        PROVE  g \in Retained(state) <=>
                  \E i \in {i \in 1 .. Len(h) : h[i].type = "AddCodingGroup" /\ h[i].group = g} :
                     \A j \in i .. Len(h) : ~(h[j].type = "ForgetCodingGroup" /\ h[j].group = g)
    <3>1. GroupTraced(state, g)
      BY DEF RetentionInvariant
    <3>2. CASE g \in Retained(state)
      <4> DEFINE a == state.groups[g].added
      <4>1. /\ Recorded(h, a, "AddCodingGroup", g)
            /\ \A m \in DOMAIN h : m >= a => ~Recorded(h, m, "ForgetCodingGroup", g)
        BY <3>1, <3>2 DEF GroupTraced
      <4> HIDE DEF a
      <4>2. a \in 1 .. Len(h) /\ \A j \in a .. Len(h) : j \in DOMAIN h /\ j >= a
        BY <2>1, <4>1 DEF Recorded
      <4> QED BY <3>2, <4>1, <4>2, Zenon DEF Recorded
    <3>3. CASE g \notin Retained(state)
      <4> SUFFICES ASSUME NEW i \in 1 .. Len(h), h[i].type = "AddCodingGroup", h[i].group = g
                   PROVE  \E j \in i .. Len(h) : h[j].type = "ForgetCodingGroup" /\ h[j].group = g
        BY <3>3
      <4>1. PICK j \in DOMAIN h : i <= j /\ Recorded(h, j, "ForgetCodingGroup", g)
        BY <2>1, <3>1, <3>3 DEF GroupTraced, Recorded
      <4> QED BY <2>1, <4>1 DEF Recorded
    <3> QED BY <3>2, <3>3
  <2> QED BY <2>2, <2>3 DEF RetentionWindow
<1> QED BY <1>1, <1>2, <1>3, HistoryInvariantHolds, PTL DEF Spec

=============================================================================
