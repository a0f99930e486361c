----------------------------- MODULE GuildState -----------------------------
(***************************************************************************)
(* The dynamic guild state of crates/mb-core/src/guild.rs: what a member   *)
(* knows after replaying the certified guild events, which next events are *)
(* admissible, and what each of them does.  Everything here is a pure      *)
(* operator; GuildHistory and GuildLog give it behaviours.                 *)
(*                                                                         *)
(* Abstractions.  Event hashes are collision free and every event names    *)
(* its parent's hash, so the head hash stands for the whole history: it is *)
(* modelled as the sequence of event kinds applied so far, and an event's  *)
(* sequence number is one more than its length.  A coding group's id is a  *)
(* hash of the whole group, so its placement is a constant function of the *)
(* id.  Optional event numbers (removed_at_event, revoked_at_event,        *)
(* retired_at_event, retain_through_event) are 0 for None: event numbers   *)
(* start at 1.  Writer and recovery keys follow the same rules and are two *)
(* classes of one table.                                                   *)
(***************************************************************************)
EXTENDS Naturals, FiniteSets, Sequences

CONSTANTS
    Nodes,        \* node ids; ordered, as NodeId is
    Genesis,      \* the members of the certified genesis
    HomeDomain,   \* the failure domain each member joins with
    Domains,      \* failure-domain labels
    Groups,       \* coding group ids
    Placement,    \* group id -> its roles, as a set of <<node, domain>>
    KeyBytes,     \* what a freshly generated key or envelope can be
    Policies      \* quorum policies an administrator may set

KeyClasses == {"writer", "recovery"}

Unanimous == [rule |-> "Unanimous", votes |-> 0]
Majority == [rule |-> "Majority", votes |-> 0]
Threshold(t) == [rule |-> "Threshold", votes |-> t]

ASSUME ConstantsAssumption ==
    /\ Nodes \subseteq Nat /\ IsFiniteSet(Nodes)
    /\ Genesis \subseteq Nodes /\ Genesis # {}
    /\ HomeDomain \in [Nodes -> Domains]
    /\ Placement \in [Groups -> SUBSET (Nodes \X Domains)]
    /\ Policies \subseteq [rule : {"Unanimous", "Majority", "Threshold"}, votes : Nat]

-----------------------------------------------------------------------------
(* GuildEventKind. *)

AddMember(n, d) == [type |-> "AddMember", node |-> n, domain |-> d]
RemoveMember(n) == [type |-> "RemoveMember", node |-> n]
RelabelMember(n, d) == [type |-> "RelabelMember", node |-> n, domain |-> d]
SetQuorum(p) == [type |-> "SetQuorum", policy |-> p]
RotateKey(c, n, e, b) == [type |-> "RotateKey", class |-> c, node |-> n, epoch |-> e, bytes |-> b]
RevokeKey(c, n, e) == [type |-> "RevokeKey", class |-> c, node |-> n, epoch |-> e]
AddCodingGroup(g) == [type |-> "AddCodingGroup", group |-> g]
RetireCodingGroup(g, t) == [type |-> "RetireCodingGroup", group |-> g, through |-> t]
ForgetCodingGroup(g) == [type |-> "ForgetCodingGroup", group |-> g]

MembershipTypes == {"AddMember", "RemoveMember", "RelabelMember", "SetQuorum"}

Kinds ==
    [type : {"AddMember", "RelabelMember"}, node : Nodes, domain : Domains]
    \cup [type : {"RemoveMember"}, node : Nodes]
    \cup [type : {"SetQuorum"}, policy : Policies]
    \cup [type : {"RotateKey"}, class : KeyClasses, node : Nodes, epoch : Nat, bytes : KeyBytes]
    \cup [type : {"RevokeKey"}, class : KeyClasses, node : Nodes, epoch : Nat]
    \cup [type : {"AddCodingGroup", "ForgetCodingGroup"}, group : Groups]
    \cup [type : {"RetireCodingGroup"}, group : Groups, through : Nat]

-----------------------------------------------------------------------------
(* QuorumPolicy::required: how many signatures a policy asks of n active   *)
(* members, and when it is an error.                                       *)

RequiredHalf(policy, n) ==
    IF policy.rule = "Unanimous" THEN n
    ELSE IF policy.rule = "Majority" THEN n \div 2
    ELSE policy.votes

Required(policy, n) ==
    IF policy.rule = "Unanimous" THEN n
    ELSE IF policy.rule = "Majority" THEN n \div 2 + 1
    ELSE policy.votes

AnyThreshold(policy, n) == n > 0 /\ Required(policy, n) \in 1 .. n

Satisfiable(policy, n) ==
    /\ n > 0
    /\ policy.rule = "Threshold" => policy.votes > n \div 2
    /\ Required(policy, n) \in 1 .. n

-----------------------------------------------------------------------------
(* DynamicGuildState. *)

Absent == [absent |-> TRUE]   \* no entry for this node or group id

Members == [domain : Domains, joined : Nat, removed : Nat]
Keys == [bytes : KeyBytes, activated : Nat, revoked : Nat]
RetainedGroups == [added : Nat, retired : Nat, through : Nat]

States ==
    [history : Seq(Kinds),
     epoch   : Nat \ {0},
     quorum  : Policies \cup {Unanimous},
     members : [Nodes -> Members \cup {Absent}],
     keys    : [KeyClasses -> [Nodes -> Seq(Keys)]],
     groups  : [Groups -> RetainedGroups \cup {Absent}]]

Sequence(s) == Len(s.history)

Known(s) == {n \in Nodes : s.members[n] # Absent}
Active(s) == {n \in Known(s) : s.members[n].removed = 0}
Retained(s) == {g \in Groups : s.groups[g] # Absent}

NewGuild ==
    [history |-> << >>,
     epoch   |-> 1,
     quorum  |-> Unanimous,
     members |-> [n \in Nodes |-> IF n \in Genesis
                                 THEN [domain |-> HomeDomain[n], joined |-> 0, removed |-> 0]
                                 ELSE Absent],
     keys    |-> [c \in KeyClasses |-> [n \in Nodes |-> << >>]],
     groups  |-> [g \in Groups |-> Absent]]

(* validate_current_group_placement: every role sits on an active member   *)
(* that still carries the failure domain the group was planned with.       *)
PlacementCurrent(s, g) ==
    \A role \in Placement[g] : role[1] \in Active(s) /\ s.members[role[1]].domain = role[2]

(* current_recovery_key and writer_epoch_is_current: the highest epoch,    *)
(* and only if that one is not revoked; 0 stands for None.                 *)
AnyUnrevoked(s, c, n) ==
    LET live == {e \in DOMAIN s.keys[c][n] : s.keys[c][n][e].revoked = 0}
    IN  IF live = {} THEN 0 ELSE CHOOSE e \in live : \A f \in live : f <= e

CurrentKey(s, c, n) ==
    LET last == Len(s.keys[c][n])
    IN  IF last = 0 \/ s.keys[c][n][last].revoked # 0 THEN 0 ELSE last

(* An event number that is set must lie in the given half-open window.     *)
WithinOrNone(event, after, through) == event = 0 \/ (after < event /\ event <= through)

(* DynamicGuildState::validate, run before and after every event. *)
Valid(s) ==
    /\ s.epoch > 0
    /\ \A n \in Known(s) :
          /\ s.members[n].joined <= Sequence(s)
          /\ WithinOrNone(s.members[n].removed, s.members[n].joined, Sequence(s))
    /\ Satisfiable(s.quorum, Cardinality(Active(s)))
    /\ \A c \in KeyClasses, n \in Nodes : \A e \in DOMAIN s.keys[c][n] :
          LET key == s.keys[c][n][e]
          IN  key.activated \in 1 .. Sequence(s) /\ WithinOrNone(key.revoked, key.activated, Sequence(s))
    /\ \A g \in Retained(s) :
          LET kept == s.groups[g]
          IN  /\ kept.added \in 1 .. Sequence(s)
              /\ (kept.retired = 0) = (kept.through = 0)
              /\ kept.retired # 0 => kept.retired \in kept.added .. Sequence(s)
              /\ kept.through >= kept.retired

-----------------------------------------------------------------------------
(* apply_verified_event, arm by arm.  Admissible is what the arms check;   *)
(* the other operators are what they change, field by field, and the       *)
(* common tail appends the event.                                          *)

ForgettableWhenRetired(s, g) == g \in Retained(s) /\ s.groups[g].through # 0

Forgettable(s, g) ==
    /\ g \in Retained(s)
    /\ s.groups[g].through # 0
    /\ Sequence(s) + 1 > s.groups[g].through

MemberReaddable(s, n) == n \notin Active(s)

MemberAddable(s, n) == n \notin Known(s)

Admissible(s, k) ==
    /\ k.type = "AddMember" => MemberAddable(s, k.node)
    /\ k.type \in {"RemoveMember", "RelabelMember"} => k.node \in Active(s)
    /\ k.type = "SetQuorum" => Satisfiable(k.policy, Cardinality(Active(s)))
    /\ k.type = "RotateKey" =>
          k.node \in Active(s) /\ k.epoch = Len(s.keys[k.class][k.node]) + 1
    /\ k.type = "RevokeKey" =>
          k.epoch \in DOMAIN s.keys[k.class][k.node] /\ s.keys[k.class][k.node][k.epoch].revoked = 0
    /\ k.type = "AddCodingGroup" => k.group \notin Retained(s) /\ PlacementCurrent(s, k.group)
    /\ k.type = "RetireCodingGroup" =>
          /\ k.group \in Retained(s)
          /\ s.groups[k.group].retired = 0
          /\ k.through >= Sequence(s) + 1
    /\ k.type = "ForgetCodingGroup" => Forgettable(s, k.group)

MembersAfter(s, k) ==
    LET seq == Sequence(s) + 1
        old == s.members[k.node]
    IN  IF k.type = "AddMember"
          THEN [s.members EXCEPT ![k.node] = [domain |-> k.domain, joined |-> seq, removed |-> 0]]
        ELSE IF k.type = "RemoveMember"
          THEN [s.members EXCEPT ![k.node] =
                  [domain |-> old.domain, joined |-> old.joined, removed |-> seq]]
        ELSE IF k.type = "RelabelMember"
          THEN [s.members EXCEPT ![k.node] =
                  [domain |-> k.domain, joined |-> old.joined, removed |-> old.removed]]
        ELSE s.members

KeysAfter(s, k) ==
    LET seq == Sequence(s) + 1
        table == s.keys[k.class][k.node]
        old == table[k.epoch]
        update == IF k.type = "RotateKey"
                  THEN Append(table, [bytes |-> k.bytes, activated |-> seq, revoked |-> 0])
                  ELSE [table EXCEPT ![k.epoch] =
                          [bytes |-> old.bytes, activated |-> old.activated, revoked |-> seq]]
    IN  IF k.type \in {"RotateKey", "RevokeKey"}
        THEN [s.keys EXCEPT ![k.class] = [s.keys[k.class] EXCEPT ![k.node] = update]]
        ELSE s.keys

GroupsAfter(s, k) ==
    LET seq == Sequence(s) + 1
    IN  IF k.type = "AddCodingGroup"
          THEN [s.groups EXCEPT ![k.group] = [added |-> seq, retired |-> 0, through |-> 0]]
        ELSE IF k.type = "RetireCodingGroup"
          THEN [s.groups EXCEPT ![k.group] =
                  [added |-> s.groups[k.group].added, retired |-> seq, through |-> k.through]]
        ELSE IF k.type = "ForgetCodingGroup"
          THEN [s.groups EXCEPT ![k.group] = Absent]
        ELSE s.groups

EpochUnlessRelabelled(s, k) ==
    IF k.type \in MembershipTypes \ {"RelabelMember"} THEN s.epoch + 1 ELSE s.epoch

EpochAfter(s, k) == IF k.type \in MembershipTypes THEN s.epoch + 1 ELSE s.epoch

ApplyVerified(s, k) ==
    [history |-> Append(s.history, k),
     epoch   |-> EpochAfter(s, k),
     quorum  |-> IF k.type = "SetQuorum" THEN k.policy ELSE s.quorum,
     members |-> MembersAfter(s, k),
     keys    |-> KeysAfter(s, k),
     groups  |-> GroupsAfter(s, k)]

(* validate_event_proposal for the event that follows s: the arm's checks, *)
(* then validation of the resulting state.                                 *)
ValidProposal(s, k) == Valid(s) /\ Admissible(s, k) /\ Valid(ApplyVerified(s, k))

(* verify_event: only active members count, the policy decides how many    *)
(* are needed, and a key rotation must carry its subject's own signature.  *)
Authorized(s, k, signers) ==
    /\ signers \subseteq Active(s)
    /\ Cardinality(signers) >= Required(s.quorum, Cardinality(Active(s)))
    /\ k.type = "RotateKey" => k.node \in signers

=============================================================================
