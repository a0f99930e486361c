-------------------------- MODULE GuildStateProofs --------------------------
(***************************************************************************)
(* Facts about the operators of GuildState: replay keeps states well       *)
(* formed, and two certificates in one valid state share a signer.         *)
(***************************************************************************)
EXTENDS GuildState, FiniteSetTheorems, TLAPS

(* The state a new guild starts from is well formed. *)
LEMMA NewGuildTyped == NewGuild \in States
BY ConstantsAssumption DEF NewGuild, States, Members, Keys, RetainedGroups, KeyClasses

(* The active members of a well-formed state are finitely many nodes. *)
LEMMA ActiveFinite ==
    ASSUME NEW s \in States
    PROVE  Active(s) \subseteq Nodes /\ IsFiniteSet(Active(s)) /\ Cardinality(Active(s)) \in Nat
<1>1. Active(s) \subseteq Nodes
  BY DEF Active, Known
<1>2. IsFiniteSet(Active(s))
  BY <1>1, FS_Subset, ConstantsAssumption
<1> QED BY <1>1, <1>2, FS_CardinalityType

(* QuorumPolicy::required asks for more than half: whatever the policy, a  *)
(* count that satisfies it is a strict majority.                           *)
LEMMA RequiredIsMajority ==
    ASSUME NEW p \in Policies \cup {Unanimous}, NEW n \in Nat, Satisfiable(p, n)
    PROVE  Required(p, n) \in Nat /\ 2 * Required(p, n) > n
<1>1. p \in [rule : {"Unanimous", "Majority", "Threshold"}, votes : Nat]
  BY ConstantsAssumption DEF Unanimous
<1>2. CASE p.rule = "Unanimous"
  BY <1>1, <1>2 DEF Required, Satisfiable
<1>3. CASE p.rule = "Majority"
  BY <1>1, <1>3 DEF Required, Satisfiable
<1>4. CASE p.rule = "Threshold"
  BY <1>1, <1>4 DEF Required, Satisfiable
<1> QED BY <1>1, <1>2, <1>3, <1>4

(* In a valid state any two sets of active members that are large enough   *)
(* for its policy have a member in common.                                 *)
LEMMA QuorumsIntersect ==
    ASSUME NEW s \in States, Valid(s),
           NEW S \in SUBSET Active(s), Cardinality(S) >= Required(s.quorum, Cardinality(Active(s))),
           NEW T \in SUBSET Active(s), Cardinality(T) >= Required(s.quorum, Cardinality(Active(s)))
    PROVE  S \cap T # {}
<1> DEFINE A == Active(s)
<1>1. IsFiniteSet(A) /\ Cardinality(A) \in Nat
  BY ActiveFinite
<1>2. s.quorum \in Policies \cup {Unanimous}
  BY Zenon DEF States
<1>3. Satisfiable(s.quorum, Cardinality(A))
  BY DEF Valid
<1>4. Required(s.quorum, Cardinality(A)) \in Nat /\ 2 * Required(s.quorum, Cardinality(A)) > Cardinality(A)
  BY <1>1, <1>2, <1>3, RequiredIsMajority
<1>5. Cardinality(S) \in Nat /\ Cardinality(T) \in Nat
  BY <1>1, FS_Subset, FS_CardinalityType
<1>6. Cardinality(S) + Cardinality(T) > Cardinality(A)
  BY <1>1, <1>4, <1>5
<1> QED BY <1>1, <1>6, FS_MajoritiesIntersect

(* verify_event: the signers of two events certified in the same valid     *)
(* state have a member in common.                                          *)
LEMMA CertificatesIntersect ==
    ASSUME NEW s \in States, Valid(s), NEW k, NEW l, NEW S, NEW T,
           Authorized(s, k, S), Authorized(s, l, T)
    PROVE  \E n \in Nodes : n \in S /\ n \in T
<1>1. S \cap T # {}
  BY QuorumsIntersect DEF Authorized
<1>2. S \subseteq Nodes
  BY ActiveFinite DEF Authorized
<1> QED BY <1>1, <1>2

(* A new guild is valid: unanimity of its nonempty genesis can be met.     *)
LEMMA NewGuildValid == Valid(NewGuild)
<1>1. Active(NewGuild) = Genesis
  BY ConstantsAssumption, Zenon DEF Active, Known, NewGuild, Absent
<1>2. IsFiniteSet(Genesis) /\ Cardinality(Genesis) \in Nat /\ Cardinality(Genesis) # 0
  BY ConstantsAssumption, FS_Subset, FS_CardinalityType, FS_EmptySet, Zenon
<1>3. Satisfiable(NewGuild.quorum, Cardinality(Active(NewGuild)))
  BY <1>1, <1>2 DEF Satisfiable, Required, NewGuild, Unanimous
<1>4. Sequence(NewGuild) = 0
  BY DEF Sequence, NewGuild
<1>5. \A n \in Known(NewGuild) : NewGuild.members[n].joined = 0 /\ NewGuild.members[n].removed = 0
  BY DEF Known, NewGuild, Absent
<1>6. \A c \in KeyClasses, n \in Nodes : DOMAIN NewGuild.keys[c][n] = {}
  BY DEF NewGuild
<1>7. Retained(NewGuild) = {}
  BY DEF Retained, NewGuild
<1>8. NewGuild.epoch = 1
  BY DEF NewGuild
<1> QED BY <1>3, <1>4, <1>5, <1>6, <1>7, <1>8 DEF Valid, WithinOrNone

(* apply_verified_event keeps the state well formed, and is one event      *)
(* longer.                                                                 *)
LEMMA ApplyTyped ==
    ASSUME NEW s \in States, NEW k \in Kinds, Admissible(s, k)
    PROVE  /\ ApplyVerified(s, k) \in States
           /\ Sequence(ApplyVerified(s, k)) = Sequence(s) + 1
<1>1. s.history \in Seq(Kinds) /\ Sequence(s) \in Nat
  BY SMTT(30) DEF States, Sequence
<1>2. MembersAfter(s, k) \in [Nodes -> Members \cup {Absent}]
  <2>1. s.members \in [Nodes -> Members \cup {Absent}]
    BY DEF States
  <2>2. CASE k.type = "AddMember"
    BY <1>1, <2>1, <2>2 DEF MembersAfter, Kinds, Members
  <2>3. CASE k.type \in {"RemoveMember", "RelabelMember"}
    <3>1. k.node \in Nodes /\ s.members[k.node] \in Members
      BY <2>1, <2>3 DEF Admissible, Active, Known
    <3>2. k.type = "RelabelMember" => k.domain \in Domains
      BY Zenon DEF Kinds
    <3> QED BY <1>1, <2>1, <2>3, <3>1, <3>2, SMTT(30) DEF MembersAfter, Members
  <2> QED BY <2>1, <2>2, <2>3 DEF MembersAfter
<1>3. KeysAfter(s, k) \in [KeyClasses -> [Nodes -> Seq(Keys)]]
  <2>1. s.keys \in [KeyClasses -> [Nodes -> Seq(Keys)]]
    BY DEF States
  <2>2. CASE k.type = "RotateKey"
    <3>1. k.class \in KeyClasses /\ k.node \in Nodes /\ k.bytes \in KeyBytes
      BY <2>2 DEF Kinds
    <3> DEFINE table == s.keys[k.class][k.node]
               new == [bytes |-> k.bytes, activated |-> Sequence(s) + 1, revoked |-> 0]
    <3>2. new \in Keys
      BY <1>1, <3>1 DEF Keys
    <3>3. Append(table, new) \in Seq(Keys)
      BY <2>1, <3>1, <3>2
    <3>4. KeysAfter(s, k) = [s.keys EXCEPT ![k.class] =
                               [s.keys[k.class] EXCEPT ![k.node] = Append(table, new)]]
      BY <2>2 DEF KeysAfter
    <3> HIDE DEF new
    <3> QED BY <2>1, <3>1, <3>3, <3>4
  <2>3. CASE k.type = "RevokeKey"
    <3>1. k.class \in KeyClasses /\ k.node \in Nodes
      BY <2>3, Zenon DEF Kinds
    <3> DEFINE table == s.keys[k.class][k.node]
    <3>2. table \in Seq(Keys) /\ k.epoch \in DOMAIN table
      BY <2>1, <2>3, <3>1 DEF Admissible
    <3> DEFINE new == [bytes |-> table[k.epoch].bytes, activated |-> table[k.epoch].activated,
                       revoked |-> Sequence(s) + 1]
    <3>3. table[k.epoch] \in Keys
      BY <3>2
    <3>4. new \in Keys
      <4>1. table[k.epoch].bytes \in KeyBytes /\ table[k.epoch].activated \in Nat
        BY <3>3 DEF Keys
      <4>2. Sequence(s) + 1 \in Nat
        BY <1>1
      <4> HIDE DEF table
      <4> QED BY <4>1, <4>2, ZenonT(30) DEF Keys
    <3>5. KeysAfter(s, k) = [s.keys EXCEPT ![k.class] =
                               [s.keys[k.class] EXCEPT ![k.node] = [table EXCEPT ![k.epoch] = new]]]
      BY <2>3 DEF KeysAfter
    <3> HIDE DEF new
    <3>6. [table EXCEPT ![k.epoch] = new] \in Seq(Keys)
      BY <3>2, <3>4
    <3> QED BY <2>1, <3>1, <3>5, <3>6
  <2> QED BY <2>1, <2>2, <2>3, Zenon DEF KeysAfter
<1>4. GroupsAfter(s, k) \in [Groups -> RetainedGroups \cup {Absent}]
  <2>1. s.groups \in [Groups -> RetainedGroups \cup {Absent}]
    BY DEF States
  <2>2. CASE k.type = "AddCodingGroup"
    BY <1>1, <2>1, <2>2 DEF GroupsAfter, Kinds, RetainedGroups
  <2>3. CASE k.type = "RetireCodingGroup"
    <3>1. k.group \in Groups /\ s.groups[k.group] \in RetainedGroups
      BY <2>1, <2>3 DEF Admissible, Retained
    <3>2. k.through \in Nat
      BY <2>3 DEF Kinds
    <3> QED BY <1>1, <2>1, <2>3, <3>1, <3>2 DEF GroupsAfter, RetainedGroups
  <2>4. CASE k.type = "ForgetCodingGroup"
    BY <2>1, <2>4, Zenon DEF GroupsAfter
  <2> QED BY <2>1, <2>2, <2>3, <2>4 DEF GroupsAfter
<1>5. EpochAfter(s, k) \in Nat \ {0}
  BY DEF States, EpochAfter
<1>6. k.type = "SetQuorum" => k.policy \in Policies
  BY DEF Kinds
<1>7. Append(s.history, k) \in Seq(Kinds) /\ Len(Append(s.history, k)) = Len(s.history) + 1
  BY <1>1
<1> QED BY <1>2, <1>3, <1>4, <1>5, <1>6, <1>7 DEF ApplyVerified, States, Sequence

=============================================================================
