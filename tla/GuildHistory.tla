---------------------------- MODULE GuildHistory ----------------------------
(***************************************************************************)
(* What a guild promises: one linear history of certified events and the   *)
(* state that replaying it gives.  One action per GuildEventKind; GuildLog *)
(* shows how members with their own disks and messages implement it.       *)
(***************************************************************************)
EXTENDS GuildState

CONSTANT MaxSequence   \* bound on the event sequence (a u64 that must not overflow)

ASSUME MaxSequenceAssumption == MaxSequence \in Nat

VARIABLE state

Init == state = NewGuild

CommitPastLimit(k) ==
    /\ Sequence(state) <= MaxSequence
    /\ ValidProposal(state, k)
    /\ state' = ApplyVerified(state, k)

(* apply_event once the quorum certificate has been checked. *)
Commit(k) ==
    /\ Sequence(state) < MaxSequence
    /\ ValidProposal(state, k)
    /\ state' = ApplyVerified(state, k)

CommitAddMember == \E n \in Nodes, d \in Domains : Commit(AddMember(n, d))
CommitRemoveMember == \E n \in Nodes : Commit(RemoveMember(n))
CommitRelabelMember == \E n \in Nodes, d \in Domains : Commit(RelabelMember(n, d))
CommitSetQuorum == \E p \in Policies : Commit(SetQuorum(p))
CommitRotateKey ==
    \E c \in KeyClasses, n \in Nodes, b \in KeyBytes :
        Commit(RotateKey(c, n, Len(state.keys[c][n]) + 1, b))
CommitRevokeKey ==
    \E c \in KeyClasses, n \in Nodes : \E e \in DOMAIN state.keys[c][n] : Commit(RevokeKey(c, n, e))
CommitAddCodingGroup == \E g \in Groups : Commit(AddCodingGroup(g))
CommitRetireCodingGroup ==
    \E g \in Groups, t \in 1 .. MaxSequence : Commit(RetireCodingGroup(g, t))
CommitForgetCodingGroup == \E g \in Groups : Commit(ForgetCodingGroup(g))

Next ==
    \/ CommitAddMember
    \/ CommitRemoveMember
    \/ CommitRelabelMember
    \/ CommitSetQuorum
    \/ CommitRotateKey
    \/ CommitRevokeKey
    \/ CommitAddCodingGroup
    \/ CommitRetireCodingGroup
    \/ CommitForgetCodingGroup

Spec == Init /\ [][Next]_state

-----------------------------------------------------------------------------

(* After any sequence of legal events the guild can still be governed: its *)
(* policy can be met by the active members, and any two quorums of them    *)
(* share a member.  AddMember can break a threshold from above, and        *)
(* RemoveMember from below; both are only caught by re-validating the      *)
(* resulting state (QuorumPolicy::required).                               *)
Governable ==
    LET quorums == {S \in SUBSET Active(state) :
                       Cardinality(S) >= Required(state.quorum, Cardinality(Active(state)))}
    IN  /\ quorums # {}
        /\ \A S, T \in quorums : S \cap T # {}

(* The membership epoch fences: validate_attempt_authority compares only   *)
(* epochs, so a step that keeps the epoch must keep the active members,    *)
(* their failure domains and the quorum policy.                            *)
EpochFencesAuthority ==
    [][state'.epoch = state.epoch =>
         /\ Active(state') = Active(state)
         /\ \A n \in Active(state) : state'.members[n].domain = state.members[n].domain
         /\ state'.quorum = state.quorum]_state

(* A group's retention window is honoured by the history itself: every     *)
(* Forget is preceded by a Retire of the same incarnation of the group     *)
(* whose retain_through_event lies strictly before the Forget, and the     *)
(* groups retained now are exactly those added and not forgotten since.    *)
RetentionWindow ==
    LET h == state.history
        Is(i, type, g) == h[i].type = type /\ h[i].group = g
        LastAdd(g, j) == {i \in 1 .. j : Is(i, "AddCodingGroup", g)}
    IN  \A g \in Groups :
          /\ \A j \in DOMAIN h : Is(j, "ForgetCodingGroup", g) =>
                \E i \in 1 .. j - 1 :
                   /\ Is(i, "RetireCodingGroup", g)
                   /\ h[i].through < j
                   /\ \A m \in i .. j : ~Is(m, "AddCodingGroup", g)
          /\ g \in Retained(state) <=>
                \E i \in LastAdd(g, Len(h)) :
                   \A j \in i .. Len(h) : ~Is(j, "ForgetCodingGroup", g)

(* A superseded or revoked key never becomes current again: the current    *)
(* epoch of a member's key only moves up or to none, so revoking the       *)
(* newest key does not revive an older unrevoked one.                      *)
KeysNeverRevive ==
    [][\A c \in KeyClasses, n \in Nodes :
         CurrentKey(state', c, n) # CurrentKey(state, c, n) =>
            CurrentKey(state', c, n) \in {0, Len(state.keys[c][n]) + 1}]_state

(* A removed member stays removed: no sequence of events makes the same    *)
(* node id active again, so an old signature of its cannot count anew.     *)
RemovedForGood ==
    [][Known(state) \ Active(state) \subseteq Known(state') \ Active(state')]_state

(* Replay keeps the state well formed, field by field. *)
TypeOK == state \in States /\ Sequence(state) <= MaxSequence

=============================================================================
