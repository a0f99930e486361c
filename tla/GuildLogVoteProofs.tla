------------------------- MODULE GuildLogVoteProofs -------------------------
(***************************************************************************)
(* Who proposes what, for every set of nodes, groups and policies and any  *)
(* number of interruptions.  What a background loop may propose makes its  *)
(* member the only one that can, the one that leads in the state the event *)
(* extends: the loops never split the vote.  An operator may, but each     *)
(* event still has one proposer: there is one certificate of it.           *)
(***************************************************************************)
EXTENDS GuildLogProofs

(* The one member whose loops may extend s: the first without a recovery   *)
(* key (needs_recovery_key_registration), or the coordinator once every    *)
(* active member has one.                                                  *)
Leads(n, s) ==
    LET missing == MissingRecoveryKey(s)
    IN  IF missing = {} THEN n = Coordinator(s)
        ELSE n \in missing /\ \A m \in missing : n <= m

(* The coordinator of a guild that may be backed up. *)
Ready(n, s) == n = Coordinator(s) /\ MissingRecoveryKey(s) = {}

(* t has the members of s, and lacks no key that s has. *)
Follows(t, s) == Active(t) = Active(s) /\ MissingRecoveryKey(t) \subseteq MissingRecoveryKey(s)

(* What the loops propose; groups only in a guild that has its keys. *)
RoutineTypes == {"RotateKey", "AddCodingGroup", "RetireCodingGroup", "ForgetCodingGroup"}

Routine(e) ==
    /\ e.kind.type \in RoutineTypes
    /\ e.kind.type = "AddCodingGroup" => MissingRecoveryKey(e.parent) = {}

(* The member that leads in the event's parent has voted for it. *)
Led(e) == \E n \in Nodes : Leads(n, e.parent) /\ e \in lock[n]

(* The inductive invariant: every vote and every request is led, ...       *)
VotesLed == (\A n \in Nodes : \A e \in lock[n] : Led(e)) /\ \A e \in asked : Led(e)

(* ... extends a state of its voter's own history, ...                     *)
VotesExtend ==
    \A n \in Nodes : \A e \in lock[n] :
      /\ Sequence(e.parent) \in 0 .. Len(log[n])
      /\ e.parent = After(n, Sequence(e.parent))

(* ... only routine events are called for, certified and installed, ...    *)
AllRoutine ==
    /\ \A c \in certificates : Routine(c.event)
    /\ \A n \in Nodes : \A t \in tasks[n] : Routine(t.event)
    /\ \A n \in Nodes : \A i \in DOMAIN log[n] : Routine(log[n][i].event)

(* ... a member's state follows those before it, ...                       *)
HistoryFollows ==
    \A n \in Nodes : \A i \in DOMAIN log[n] : Follows(state[n], log[n][i].event.parent)

(* ... and groups and backup work exist only once every key is registered. *)
WorkIsReady ==
    \A n \in Nodes :
      /\ Retained(state[n]) # {} => MissingRecoveryKey(state[n]) = {}
      /\ jobs[n] # {} \/ claimed[n] # {} => Ready(n, state[n])

Voting == VotesLed /\ VotesExtend /\ AllRoutine /\ HistoryFollows /\ WorkIsReady

-----------------------------------------------------------------------------
(* The operators.                                                          *)

(* Only one member leads. *)
LEMMA OneLeader ==
    ASSUME NEW s, NEW n \in Nodes, NEW m \in Nodes, Leads(n, s), Leads(m, s)
    PROVE  n = m
<1>1. n \in Nat /\ m \in Nat
  BY ConstantsAssumption
<1>2. CASE MissingRecoveryKey(s) = {}
  BY <1>2 DEF Leads
<1>3. CASE MissingRecoveryKey(s) # {}
  <2>1. n <= m /\ m <= n
    BY <1>3 DEF Leads
  <2> QED BY <1>1, <2>1
<1> QED BY <1>2, <1>3

(* Following is transitive, ... *)
LEMMA FollowsTransitive ==
    ASSUME NEW u, NEW t, NEW s, Follows(u, t), Follows(t, s)
    PROVE  Follows(u, s)
BY DEF Follows

(* ... and keeps a ready coordinator ready. *)
LEMMA FollowsReady ==
    ASSUME NEW t, NEW s, NEW n, Follows(t, s), Ready(n, s)
    PROVE  Ready(n, t)
<1>1. Coordinator(t) = Coordinator(s)
  BY DEF Follows, Coordinator
<1>2. MissingRecoveryKey(t) = {}
  BY DEF Follows, Ready
<1> QED BY <1>1, <1>2 DEF Ready

(* apply_verified_event on a routine event removes no member and no key,   *)
(* and adds a group in one case only.                                      *)
LEMMA RoutineFollows ==
    ASSUME NEW s \in States, NEW k \in Kinds, Admissible(s, k), k.type \in RoutineTypes
    PROVE  /\ Follows(ApplyVerified(s, k), s)
           /\ k.type # "AddCodingGroup" => Retained(ApplyVerified(s, k)) \subseteq Retained(s)
<1> DEFINE t == ApplyVerified(s, k)
<1>1. t.members = s.members
  BY DEF ApplyVerified, MembersAfter, RoutineTypes
<1>2. Active(t) = Active(s)
  <2> HIDE DEF t
  <2> QED BY <1>1 DEF Active, Known
<1>3. t.keys = KeysAfter(s, k)
  BY DEF ApplyVerified
<1>4. t.groups = GroupsAfter(s, k)
  BY DEF ApplyVerified
<1> HIDE DEF t
<1>5. ASSUME NEW m \in Nodes, CurrentKey(s, "recovery", m) # 0
      PROVE  CurrentKey(t, "recovery", m) # 0
  <2>1. s.keys \in [KeyClasses -> [Nodes -> Seq(Keys)]]
    BY DEF States
  <2>2. CASE k.type # "RotateKey"
    <3>1. t.keys = s.keys
      BY <1>3, <2>2, Zenon DEF KeysAfter, RoutineTypes
    <3> QED BY <1>5, <3>1 DEF CurrentKey
  <2>3. CASE k.type = "RotateKey"
    <3> DEFINE table == s.keys[k.class][k.node]
               new == [bytes |-> k.bytes, activated |-> Sequence(s) + 1, revoked |-> 0]
               longer == Append(table, new)
    <3>1. k.class \in KeyClasses /\ k.node \in Nodes
      BY <2>3, ZenonT(30) DEF Kinds
    <3>2. t.keys = [s.keys EXCEPT ![k.class] = [s.keys[k.class] EXCEPT ![k.node] = longer]]
      BY <1>3, <2>3 DEF KeysAfter
    <3>3. CASE k.class = "recovery" /\ k.node = m
      <4>1. t.keys["recovery"][m] = longer
        <5> HIDE DEF longer
        <5>1. "recovery" \in KeyClasses
          BY DEF KeyClasses
        <5>2. t.keys["recovery"] = [s.keys["recovery"] EXCEPT ![m] = longer]
          BY <2>1, <3>2, <3>3, <5>1, Zenon
        <5>3. s.keys["recovery"] \in [Nodes -> Seq(Keys)]
          BY <2>1, <5>1
        <5> QED BY <1>5, <5>2, <5>3
      <4>2. table \in Seq(Keys)
        BY <2>1, <3>1
      <4>3. Len(longer) = Len(table) + 1 /\ longer[Len(table) + 1] = new /\ Len(table) \in Nat
        <5>1. k.bytes \in KeyBytes /\ Sequence(s) + 1 \in Nat
          BY <2>3 DEF Kinds, States, Sequence
        <5>2. new \in Keys
          BY <5>1 DEF Keys
        <5> HIDE DEF table, new
        <5> QED BY <4>2, <5>2
      <4>4. new.revoked = 0
        OBVIOUS
      <4> HIDE DEF table, new, longer
      <4> QED BY <4>1, <4>3, <4>4 DEF CurrentKey
    <3>4. CASE ~(k.class = "recovery" /\ k.node = m)
      <4> HIDE DEF longer
      <4>1. t.keys["recovery"][m] = s.keys["recovery"][m]
        BY <2>1, <3>1, <3>2, <3>4, SMTT(30) DEF KeyClasses
      <4> QED BY <1>5, <4>1 DEF CurrentKey
    <3> QED BY <3>3, <3>4
  <2> QED BY <2>2, <2>3
<1>6. MissingRecoveryKey(t) \subseteq MissingRecoveryKey(s)
  <2>1. Active(s) \subseteq Nodes
    BY DEF Active, Known
  <2> QED BY <1>2, <1>5, <2>1, Zenon DEF MissingRecoveryKey
<1>7. ASSUME k.type # "AddCodingGroup" PROVE Retained(t) \subseteq Retained(s)
  <2>1. s.groups \in [Groups -> RetainedGroups \cup {Absent}]
    BY DEF States
  <2>2. CASE k.type = "RotateKey"
    BY <1>4, <2>2 DEF GroupsAfter, Retained
  <2>3. CASE k.type = "RetireCodingGroup"
    <3>1. k.group \in Retained(s)
      BY <2>3 DEF Admissible
    <3>2. \A g \in Groups : g # k.group => t.groups[g] = s.groups[g]
      BY <1>4, <2>1, <2>3 DEF GroupsAfter
    <3> QED BY <3>1, <3>2 DEF Retained
  <2>4. CASE k.type = "ForgetCodingGroup"
    <3>1. \A g \in Groups : t.groups[g] = IF g = k.group THEN Absent ELSE s.groups[g]
      BY <1>4, <2>1, <2>4 DEF GroupsAfter
    <3> QED BY <3>1 DEF Retained
  <2> QED BY <1>7, <2>2, <2>3, <2>4, Zenon DEF RoutineTypes
<1> QED BY <1>2, <1>6, <1>7, Zenon DEF Follows, t

(* Two members were in the same state after the same number of events. *)
LEMMA SameAfter ==
    ASSUME TypeOK, Core, NEW n \in Nodes, NEW m \in Nodes, NEW i \in Nat,
           i <= Len(log[n]), i <= Len(log[m])
    PROVE  After(n, i) = After(m, i)
<1>1. CASE i = 0
  BY <1>1 DEF Core, Replayed
<1>2. CASE i # 0
  <2>1. log[n] \in Seq(Certificates) /\ log[m] \in Seq(Certificates)
    BY DEF TypeOK
  <2>2. i \in DOMAIN log[n] /\ i \in DOMAIN log[m]
    BY <1>2, <2>1
  <2>3. log[n][i].event = log[m][i].event
    BY <2>2 DEF Core, Agreement
  <2>4. After(m, i) = ApplyVerified(log[m][i].event.parent, log[m][i].event.kind)
    BY <2>2, Zenon DEF Core, Replayed
  <2>5. After(n, i) = ApplyVerified(log[n][i].event.parent, log[n][i].event.kind)
    BY <2>2 DEF Core, Replayed
  <2> QED BY <2>3, <2>4, <2>5, Zenon
<1> QED BY <1>1, <1>2

(* Votes that are led, in states of one history, are not split. *)
LEMMA LedVotesAgree ==
    ASSUME TypeOK, Core, VotesLed, VotesExtend
    PROVE  NoSplitVote
<1> SUFFICES ASSUME NEW n \in Nodes, NEW m \in Nodes, NEW e \in lock[n], NEW f \in lock[m],
                    EventSequence(e) = EventSequence(f)
             PROVE  e = f
  BY DEF NoSplitVote
<1>1. e \in Events /\ f \in Events
  BY DEF TypeOK
<1>2. Sequence(e.parent) \in Nat /\ Sequence(f.parent) \in Nat
  BY <1>1 DEF Events, States, Sequence
<1>3. Sequence(e.parent) = Sequence(f.parent)
  BY <1>2 DEF EventSequence
<1>4. Len(log[n]) \in Nat /\ Len(log[m]) \in Nat
  BY DEF TypeOK
<1>5. e.parent = f.parent
  <2> DEFINE i == Sequence(e.parent)
  <2>1. /\ i <= Len(log[n]) /\ e.parent = After(n, i)
        /\ i <= Len(log[m]) /\ f.parent = After(m, i)
    BY <1>2, <1>3, <1>4, SMTT(30) DEF VotesExtend
  <2> QED BY <1>2, <2>1, SameAfter, Zenon
<1>6. PICK p \in Nodes : Leads(p, e.parent) /\ e \in lock[p]
  BY DEF VotesLed, Led
<1>7. PICK q \in Nodes : Leads(q, f.parent) /\ f \in lock[q]
  BY DEF VotesLed, Led
<1>8. p = q
  BY <1>5, <1>6, <1>7, OneLeader, Zenon
<1> QED BY <1>6, <1>7, <1>8, Zenon DEF Core, VoteOnce

-----------------------------------------------------------------------------
(* The steps.                                                              *)

(* A step that installs nothing: what it adds to votes, requests, calls    *)
(* and work is as the invariant asks.                                      *)
LEMMA HistoryKept ==
    ASSUME TypeOK, Core, Voting, UNCHANGED <<state, log, certificates>>,
           \A n \in Nodes : lock[n] \subseteq lock'[n],
           \A n \in Nodes : \A e \in lock'[n] \ lock[n] : e.parent = state[n] /\ Led(e)',
           \A e \in asked' \ asked : \E n \in Nodes : e \in lock[n],
           \A n \in Nodes : \A t \in tasks'[n] :
              Routine(t.event) \/ \E u \in tasks[n] : t.event = u.event,
           \A n \in Nodes : jobs'[n] # {} \/ claimed'[n] # {} =>
              jobs[n] # {} \/ claimed[n] # {} \/ Ready(n, state[n])
    PROVE  Voting'
<1>1. state' = state /\ log' = log /\ certificates' = certificates
  OBVIOUS
<1>2. \A e : Led(e) => Led(e)'
  BY DEF Led
<1>3. VotesLed'
  BY <1>2 DEF VotesLed, Voting
<1>4. VotesExtend'
  <2> SUFFICES ASSUME NEW n \in Nodes, NEW e \in lock'[n]
               PROVE  Sequence(e.parent) \in 0 .. Len(log[n]) /\ e.parent = After(n, Sequence(e.parent))
    BY <1>1, SMTT(30) DEF VotesExtend, After
  <2>1. CASE e \in lock[n]
    BY <2>1 DEF Voting, VotesExtend
  <2>2. CASE e \notin lock[n]
    <3>1. e.parent = state[n]
      BY <2>2, Zenon
    <3>2. Sequence(state[n]) = Len(log[n]) /\ Len(log[n]) \in Nat
      BY SMTT(30) DEF Core, Replayed, TypeOK
    <3> QED BY <3>1, <3>2 DEF After
  <2> QED BY <2>1, <2>2, Zenon
<1>5. AllRoutine'
  <2>1. \A n \in Nodes : \A t \in tasks'[n] : Routine(t.event)
    BY Zenon DEF Voting, AllRoutine
  <2>2. /\ \A c \in certificates' : Routine(c.event)
        /\ \A n \in Nodes : \A i \in DOMAIN log'[n] : Routine(log'[n][i].event)
    BY <1>1, Zenon DEF Voting, AllRoutine
  <2> QED BY <2>1, <2>2, Zenon DEF AllRoutine
<1>6. HistoryFollows'
  BY <1>1, Zenon DEF Voting, HistoryFollows
<1>7. WorkIsReady'
  BY <1>1, Zenon DEF Voting, WorkIsReady
<1> QED BY <1>3, <1>4, <1>5, <1>6, <1>7, Zenon DEF Voting

(* install_guild_event_inner with a routine event. *)
LEMMA InstallVotes ==
    ASSUME TypeOK, Core, Voting, NEW n \in Nodes, NEW c \in Certificates, Install(n, c),
           Routine(c.event), UNCHANGED <<lock, jobs, claimed, asked>>,
           \A m \in Nodes : tasks'[m] \subseteq tasks[m],
           certificates' \subseteq certificates \cup {c}
    PROVE  Voting'
<1> DEFINE L == Len(log[n])
           k == c.event.kind
<1>1. /\ c.event.parent = state[n] /\ ValidProposal(state[n], k)
      /\ state' = [state EXCEPT ![n] = ApplyVerified(@, k)]
      /\ log' = [log EXCEPT ![n] = Append(@, c)]
  BY DEF Install, Installable
<1>2. /\ state \in [Nodes -> States] /\ log \in [Nodes -> Seq(Certificates)]
      /\ L \in Nat /\ DOMAIN log[n] = 1 .. L /\ k \in Kinds
  <2>1. state \in [Nodes -> States] /\ log \in [Nodes -> Seq(Certificates)]
    BY Zenon DEF TypeOK
  <2>2. k \in Kinds
    BY Zenon DEF Certificates, Events
  <2> QED BY <2>1, <2>2
<1>3. /\ \A m \in Nodes : m # n => state'[m] = state[m] /\ log'[m] = log[m]
      /\ state'[n] = ApplyVerified(state[n], k)
      /\ log'[n] = Append(log[n], c)
  BY <1>1, <1>2, Zenon
<1>4. /\ Len(log'[n]) = L + 1 /\ DOMAIN log'[n] = 1 .. L + 1
      /\ \A i \in 1 .. L : log'[n][i] = log[n][i]
      /\ log'[n][L + 1] = c
  BY <1>2, <1>3
<1>5. /\ Follows(state'[n], state[n])
      /\ k.type # "AddCodingGroup" => Retained(state'[n]) \subseteq Retained(state[n])
  <2>1. Admissible(state[n], k) /\ state[n] \in States
    BY <1>1, <1>2, Zenon DEF ValidProposal
  <2>2. k.type \in RoutineTypes
    BY DEF Routine
  <2> HIDE DEF k
  <2> QED BY <1>2, <1>3, <2>1, <2>2, RoutineFollows, Zenon
<1>6. \A i \in 1 .. L + 1 : i \in 1 .. L \/ i = L + 1
  BY <1>2, SMTT(30)
<1>7. VotesLed'
  BY DEF Voting, VotesLed, Led
<1>8. VotesExtend'
  <2> SUFFICES ASSUME NEW m \in Nodes, NEW e \in lock[m]
               PROVE  /\ Sequence(e.parent) \in 0 .. Len(log'[m])
                      /\ e.parent = After(m, Sequence(e.parent))'
    BY DEF VotesExtend
  <2> DEFINE i == Sequence(e.parent)
  <2>1. i \in 0 .. Len(log[m]) /\ e.parent = After(m, i)
    BY Zenon DEF Voting, VotesExtend
  <2> HIDE DEF i
  <2>2. CASE m # n
    <3>1. state'[m] = state[m] /\ log'[m] = log[m]
      BY <1>3, <2>2, Zenon
    <3> QED BY <2>1, <3>1, Zenon DEF After, i
  <2>3. CASE m = n
    <3>1. i \in 0 .. L + 1 /\ i # L + 1 /\ i + 1 \in 1 .. L + 1
      BY <1>2, <2>1, <2>3, SMTT(30)
    <3>2. After(n, i)' = log'[n][i + 1].event.parent
      BY <1>4, <3>1, Zenon DEF After
    <3>3. CASE i = L
      <4>1. After(n, i) = state[n]
        BY <3>3, Zenon DEF After
      <4> QED BY <1>1, <1>4, <2>1, <2>3, <3>1, <3>2, <3>3, <4>1, Zenon DEF i
    <3>4. CASE i # L
      <4>1. After(n, i) = log[n][i + 1].event.parent
        BY <3>4 DEF After
      <4>2. i + 1 \in 1 .. L
        <5>1. i \in 0 .. L /\ L \in Nat
          BY <1>2, <2>1, <2>3, Zenon
        <5> HIDE DEF L
        <5> QED BY <3>4, <5>1, SMTT(30)
      <4> QED BY <1>4, <2>1, <2>3, <3>1, <3>2, <4>1, <4>2, Zenon DEF i
    <3> QED BY <3>3, <3>4, Zenon
  <2> QED BY <2>2, <2>3, Zenon
<1>9. AllRoutine'
  <2>1. \A d \in certificates' : Routine(d.event)
    BY DEF Voting, AllRoutine
  <2>2. \A m \in Nodes : \A t \in tasks'[m] : Routine(t.event)
    BY Zenon DEF Voting, AllRoutine
  <2>3. ASSUME NEW m \in Nodes, NEW i \in DOMAIN log'[m] PROVE Routine(log'[m][i].event)
    <3>1. CASE m # n
      BY <1>3, <3>1, Zenon DEF Voting, AllRoutine
    <3>2. CASE m = n /\ i \in 1 .. L
      BY <1>2, <1>4, <3>2 DEF Voting, AllRoutine
    <3>3. CASE m = n /\ i = L + 1
      BY <1>4, <3>3, Zenon
    <3> QED BY <1>4, <1>6, <3>1, <3>2, <3>3, Zenon
  <2> QED BY <2>1, <2>2, <2>3, Zenon DEF AllRoutine
<1>10. HistoryFollows'
  <2> SUFFICES ASSUME NEW m \in Nodes, NEW i \in DOMAIN log'[m]
               PROVE  Follows(state'[m], log'[m][i].event.parent)
    BY Zenon DEF HistoryFollows
  <2>1. CASE m # n
    BY <1>3, <2>1, Zenon DEF Voting, HistoryFollows
  <2>2. CASE m = n /\ i \in 1 .. L
    <3>1. Follows(state[n], log[n][i].event.parent)
      BY <1>2, <2>2, Zenon DEF Voting, HistoryFollows
    <3> QED BY <1>4, <1>5, <2>2, <3>1, FollowsTransitive, Zenon
  <2>3. CASE m = n /\ i = L + 1
    BY <1>1, <1>4, <1>5, <2>3, Zenon
  <2> QED BY <1>4, <1>6, <2>1, <2>2, <2>3, Zenon
<1>11. WorkIsReady'
  <2> SUFFICES ASSUME NEW m \in Nodes
               PROVE  /\ Retained(state'[m]) # {} => MissingRecoveryKey(state'[m]) = {}
                      /\ jobs[m] # {} \/ claimed[m] # {} => Ready(m, state'[m])
    BY Zenon DEF WorkIsReady
  <2>1. CASE m # n
    BY <1>3, <2>1, Zenon DEF Voting, WorkIsReady
  <2>2. CASE m = n
    <3>1. jobs[n] # {} \/ claimed[n] # {} => Ready(n, state'[n])
      BY <1>5, FollowsReady, Zenon DEF Voting, WorkIsReady
    <3>2. CASE k.type = "AddCodingGroup"
      <4>1. MissingRecoveryKey(state[n]) = {}
        BY <1>1, <3>2, Zenon DEF Routine
      <4> QED BY <1>5, <2>2, <3>1, <4>1, Zenon DEF Follows
    <3>3. CASE k.type # "AddCodingGroup"
      <4>1. Retained(state'[n]) # {} => MissingRecoveryKey(state[n]) = {}
        BY <1>5, <3>3, Zenon DEF Voting, WorkIsReady
      <4> QED BY <1>5, <2>2, <3>1, <4>1, Zenon DEF Follows
    <3> QED BY <3>2, <3>3, Zenon
  <2> QED BY <2>1, <2>2, Zenon
<1> QED BY <1>7, <1>8, <1>9, <1>10, <1>11, Zenon DEF Voting

(* What the loops propose is routine, and with nothing locked it is the    *)
(* leader that proposes: recovery keys by the first member without one,    *)
(* everything else by the coordinator when no such member is left.         *)
LEMMA LeadersPropose ==
    ASSUME TypeOK, Voting, NEW n \in Nodes,
           \/ RegisterRecoveryKey(n) \/ RegisterWriterKey(n) \/ ActivateCodingGroup(n)
           \/ ReconcileGroupLifecycle(n)
    PROVE  \E caller, k : /\ Drive(n, caller, k)
                          /\ Routine(Event(state[n], k))
                          /\ NextLocks(n) = {} => Leads(n, state[n])
<1>0. \A k : Event(state[n], k).kind = k /\ Event(state[n], k).parent = state[n]
  BY DEF Event
<1>1. Ready(n, state[n]) => Leads(n, state[n])
  BY DEF Ready, Leads
<1>2. CASE RegisterRecoveryKey(n)
  <2> DEFINE Key(b) == RotateKey("recovery", n, Len(state[n].keys["recovery"][n]) + 1, b)
             missing == MissingRecoveryKey(state[n])
  <2>1. PICK b \in KeyBytes :
          /\ Resumes(n, Key(b)) \/ (n \in missing /\ \A m \in missing : n <= m)
          /\ Drive(n, "reconcile", Key(b))
    BY <1>2 DEF RegisterRecoveryKey
  <2>2. Key(b).type = "RotateKey"
    BY DEF RotateKey
  <2>3. NextLocks(n) = {} => ~Resumes(n, Key(b))
    BY DEF Resumes
  <2>4. n \in missing /\ (\A m \in missing : n <= m) => Leads(n, state[n])
    BY Zenon DEF Leads
  <2>5. Routine(Event(state[n], Key(b)))
    <3> HIDE DEF Key
    <3> QED BY <1>0, <2>2, Zenon DEF Routine, RoutineTypes
  <2> HIDE DEF Key, missing
  <2> QED BY <2>1, <2>3, <2>4, <2>5, Zenon
<1>3. CASE RegisterWriterKey(n)
  <2>1. PICK job \in claimed[n] : Drive(n, "backup", WriterKeyOf(job))
    BY <1>3, Zenon DEF RegisterWriterKey
  <2>2. WriterKeyOf(job).type = "RotateKey"
    BY Zenon DEF WriterKeyOf, RotateKey
  <2>3. Routine(Event(state[n], WriterKeyOf(job)))
    BY <1>0, <2>2, Zenon DEF Routine, RoutineTypes
  <2>4. Ready(n, state[n])
    BY <2>1, Zenon DEF Voting, WorkIsReady
  <2> QED BY <1>1, <2>1, <2>3, <2>4, Zenon
<1>4. CASE ActivateCodingGroup(n)
  <2>1. PICK g \in jobs[n] : Drive(n, "coding", AddCodingGroup(g))
    BY <1>4 DEF ActivateCodingGroup
  <2>2. AddCodingGroup(g).type = "AddCodingGroup"
    BY Zenon DEF AddCodingGroup
  <2>3. Ready(n, state[n])
    BY <2>1, Zenon DEF Voting, WorkIsReady
  <2>4. Routine(Event(state[n], AddCodingGroup(g)))
    BY <1>0, <2>2, <2>3, Zenon DEF Routine, RoutineTypes, Ready
  <2> QED BY <1>1, <2>1, <2>3, <2>4, ZenonT(30)
<1>5. CASE ReconcileGroupLifecycle(n)
  <2>1. PICK g \in Retained(state[n]) :
          \E k \in {ForgetCodingGroup(g), RetireCodingGroup(g, Sequence(state[n]) + 1)} : Drive(n, "reconcile", k)
    BY <1>5 DEF ReconcileGroupLifecycle
  <2>2. PICK k \in {ForgetCodingGroup(g), RetireCodingGroup(g, Sequence(state[n]) + 1)} : Drive(n, "reconcile", k)
    BY <2>1, Zenon
  <2>3. k.type \in {"ForgetCodingGroup", "RetireCodingGroup"}
    BY <2>2 DEF ForgetCodingGroup, RetireCodingGroup
  <2>4. Ready(n, state[n])
    BY <1>5, <2>1, Zenon DEF ReconcileGroupLifecycle, Voting, WorkIsReady, Ready
  <2>5. Routine(Event(state[n], k))
    BY <1>0, <2>3, Zenon DEF Routine, RoutineTypes
  <2> QED BY <1>1, <2>2, <2>4, <2>5, ZenonT(30)
<1> QED BY <1>2, <1>3, <1>4, <1>5, Zenon

(* A proposer's first step. *)
LEMMA DriveVotes ==
    ASSUME TypeOK, Core, Voting, NEW n \in Nodes, NEW caller, NEW k, Drive(n, caller, k),
           Routine(Event(state[n], k)), NextLocks(n) = {} => Leads(n, state[n])
    PROVE  Voting'
<1> DEFINE e == Event(state[n], k)
           t == [caller |-> caller, event |-> e, signatures |-> {}]
<1>1. /\ Sign(n, e)
      /\ tasks' = [tasks EXCEPT ![n] = @ \cup {t}]
      /\ UNCHANGED <<state, log, partial, jobs, backups, claimed, running, asked, certificates, interruptions, losses>>
  BY DEF Drive
<1>2. e.parent = state[n] /\ EventSequence(e) = Sequence(state[n]) + 1 /\ t.event = e
  BY DEF Event, EventSequence
<1>3. Routine(e)
  OBVIOUS
<1> HIDE DEF e, t
<1>4. lock' = [lock EXCEPT ![n] = @ \cup {e}] /\ DOMAIN lock = Nodes /\ DOMAIN tasks = Nodes
  BY <1>1, Zenon DEF Sign, TypeOK
<1>5. e \in lock[n] \/ NextLocks(n) = {}
  BY <1>1, <1>2 DEF Sign, MaySign, NextLocks
<1>6. ASSUME NEW m \in Nodes, NEW f \in lock'[m] \ lock[m]
      PROVE  f.parent = state[m] /\ Led(f)'
  <2>1. m = n /\ f = e
    BY <1>4, Zenon
  <2>2. Leads(n, e.parent) /\ e \in lock'[n]
    BY <1>2, <1>4, <1>5, <2>1, Zenon
  <2> QED BY <1>2, <2>1, <2>2, Zenon DEF Led
<1>7. \A m \in Nodes : lock[m] \subseteq lock'[m]
  BY <1>4, ZenonT(30)
<1>8. \A m \in Nodes : \A u \in tasks'[m] : Routine(u.event) \/ \E w \in tasks[m] : u.event = w.event
  BY <1>1, <1>2, <1>3, <1>4, Zenon
<1>9. asked' = asked /\ jobs' = jobs /\ claimed' = claimed
  BY <1>1, Zenon
<1> QED BY <1>1, <1>6, <1>7, <1>8, <1>9, HistoryKept, ZenonT(30)

(* The steps that only rearrange work: no vote, request or certificate. *)
LEMMA BookkeepingVotes ==
    ASSUME TypeOK, Core, Voting, NEW n \in Nodes,
           \/ SubmitBackup(n) \/ ClaimBackup(n) \/ EndBackup(n) \/ QueueActivation(n)
           \/ EndActivation(n) \/ Crash(n) \/ (\E t \in tasks[n] : Abandon(n, t))
    PROVE  Voting'
<1> DEFINE Quiet == /\ UNCHANGED <<state, log, lock, asked, certificates>>
                    /\ \A m \in Nodes : tasks'[m] \subseteq tasks[m]
           Work == \A m \in Nodes : jobs'[m] # {} \/ claimed'[m] # {} =>
                      jobs[m] # {} \/ claimed[m] # {} \/ Ready(m, state[m])
<1>0. DOMAIN tasks = Nodes /\ DOMAIN jobs = Nodes /\ DOMAIN claimed = Nodes
  BY DEF TypeOK
<1>1. ASSUME Quiet, Work PROVE Voting'
  <2>1. \A m \in Nodes : \A t \in tasks'[m] :
          Routine(t.event) \/ \E u \in tasks[m] : t.event = u.event
    BY <1>1, Zenon
  <2>2. /\ \A m \in Nodes : lock[m] \subseteq lock'[m]
        /\ \A m \in Nodes : \A e \in lock'[m] \ lock[m] : e.parent = state[m] /\ Led(e)'
        /\ \A e \in asked' \ asked : \E m \in Nodes : e \in lock[m]
    BY <1>1, Zenon
  <2> QED BY <1>1, <2>1, <2>2, HistoryKept, Zenon
<1> HIDE DEF Quiet, Work
<1>2. CASE SubmitBackup(n)
  BY <1>1, <1>2 DEF SubmitBackup, Quiet, Work
<1>3. CASE ClaimBackup(n)
  <2>1. PICK job \in backups[n] : Claim(n, job)
    BY <1>3, Zenon DEF ClaimBackup
  <2>2. Ready(n, state[n])
    BY <1>3, Zenon DEF ClaimBackup, Ready
  <2>3. Quiet
    BY <2>1, Zenon DEF Claim, Quiet
  <2>4. \A m \in Nodes : m # n => claimed'[m] = claimed[m] /\ jobs'[m] = jobs[m]
    BY <1>0, <2>1, Zenon DEF Claim
  <2> QED BY <1>1, <2>2, <2>3, <2>4, Zenon DEF Work
<1>4. CASE EndBackup(n)
  <2>1. claimed' = [claimed EXCEPT ![n] = {}] /\ jobs' = jobs
    BY <1>4, Zenon DEF EndBackup
  <2>2. Quiet
    BY <1>4, Zenon DEF EndBackup, Quiet
  <2>3. Work
    BY <1>0, <2>1, Zenon DEF Work
  <2> QED BY <1>1, <2>2, <2>3, Zenon
<1>5. CASE QueueActivation(n)
  <2>1. PICK g \in Groups, s \in {state[n]} \cup {log[n][i].event.parent : i \in DOMAIN log[n]} :
          /\ Ready(n, s)
          /\ jobs' = [jobs EXCEPT ![n] = @ \cup {g}]
          /\ UNCHANGED <<state, log, lock, partial, backups, claimed, running, tasks, asked, certificates, interruptions, losses>>
    BY <1>5, Zenon DEF QueueActivation, Ready
  <2>2. Ready(n, state[n])
    <3>1. CASE s = state[n]
      BY <2>1, <3>1, Zenon
    <3>2. CASE s # state[n]
      <4>1. Follows(state[n], s)
        BY <2>1, <3>2, Zenon DEF Voting, HistoryFollows
      <4> QED BY <2>1, <4>1, FollowsReady, Zenon
    <3> QED BY <3>1, <3>2, Zenon
  <2>3. Quiet
    BY <2>1, Zenon DEF Quiet
  <2>4. Work
    BY <1>0, <2>1, <2>2, Zenon DEF Work
  <2> QED BY <1>1, <2>3, <2>4
<1>6. CASE EndActivation(n)
  <2>1. PICK g \in jobs[n] :
          /\ jobs' = [jobs EXCEPT ![n] = @ \ {g}]
          /\ UNCHANGED <<state, log, lock, partial, backups, claimed, running, tasks, asked, certificates, interruptions, losses>>
    BY <1>6, Zenon DEF EndActivation
  <2>2. Quiet
    BY <2>1, Zenon DEF Quiet
  <2>3. Work
    BY <1>0, <2>1, Zenon DEF Work
  <2> QED BY <1>1, <2>2, <2>3
<1>7. CASE Crash(n)
  <2>1. /\ tasks' = [tasks EXCEPT ![n] = {}] /\ claimed' = [claimed EXCEPT ![n] = {}] /\ jobs' = jobs
        /\ UNCHANGED <<state, log, lock, asked, certificates>>
    BY <1>7 DEF Crash
  <2>2. Quiet
    BY <1>0, <2>1, Zenon DEF Quiet
  <2>3. Work
    BY <1>0, <2>1, Zenon DEF Work
  <2> QED BY <1>1, <2>2, <2>3, Zenon
<1>8. CASE \E t \in tasks[n] : Abandon(n, t)
  <2>1. PICK t \in tasks[n] : Abandon(n, t)
    BY <1>8
  <2>2. /\ tasks' = [tasks EXCEPT ![n] = @ \ {t}] /\ jobs' = jobs
        /\ \E left : claimed' = [claimed EXCEPT ![n] = @ \ left]
        /\ UNCHANGED <<state, log, lock, asked, certificates>>
    BY <2>1, Zenon DEF Abandon
  <2>3. Quiet
    BY <1>0, <2>2, ZenonT(30) DEF Quiet
  <2>4. Work
    BY <1>0, <2>2 DEF Work
  <2> QED BY <1>1, <2>3, <2>4, Zenon
<1> QED BY <1>2, <1>3, <1>4, <1>5, <1>6, <1>7, <1>8, Zenon

(* Every background step keeps the votes led, one case per kind of step. *)
LEMMA BackgroundVotes ==
    ASSUME TypeOK, Core, Voting, Background
    PROVE  Voting'
<1>1. PICK n \in Nodes :
        \/ ReconcileLoop(n) \/ BackupLoop(n) \/ CodingLoop(n)
        \/ SubmitBackup(n) \/ QueueActivation(n) \/ Serve(n)
        \/ \E c \in certificates : InstallPushed(n, c)
        \/ Crash(n) \/ (\E t \in tasks[n] : Abandon(n, t))
  BY DEF Background
<1>2. CASE \/ RegisterRecoveryKey(n) \/ RegisterWriterKey(n) \/ ActivateCodingGroup(n)
           \/ ReconcileGroupLifecycle(n)
  <2>1. PICK caller, k : /\ Drive(n, caller, k)
                         /\ Routine(Event(state[n], k))
                         /\ NextLocks(n) = {} => Leads(n, state[n])
    BY <1>2, LeadersPropose, Zenon
  <2> QED BY <2>1, DriveVotes
<1>3. CASE \E p \in Nodes : PullTail(n, p)
  <2>1. PICK p \in Nodes : PullTail(n, p)
    BY <1>3, Zenon
  <2> DEFINE i == Sequence(state[n]) + 1
             c == log[p][i]
  <2>2. i \in DOMAIN log[p] /\ Install(n, c) /\ UNCHANGED <<lock, jobs, claimed, asked, tasks, certificates>>
    BY <2>1, Zenon DEF PullTail
  <2>3. c \in Certificates /\ Routine(c.event)
    BY <2>2, SMTT(30) DEF TypeOK, Voting, AllRoutine
  <2> HIDE DEF c, i
  <2> QED BY <2>2, <2>3, InstallVotes
<1>4. CASE \E c \in certificates : InstallPushed(n, c)
  <2>1. PICK c \in certificates : InstallPushed(n, c)
    BY <1>4
  <2>2. Install(n, c) /\ UNCHANGED <<lock, jobs, claimed, asked, tasks, certificates>>
    BY <2>1, Zenon DEF InstallPushed
  <2>3. c \in Certificates /\ Routine(c.event)
    BY Zenon DEF TypeOK, Voting, AllRoutine
  <2> QED BY <2>2, <2>3, InstallVotes, Zenon
<1>5. CASE \E t \in tasks[n] : Finish(n, t)
  <2>1. PICK t \in tasks[n] : Finish(n, t)
    BY <1>5, Zenon
  <2> DEFINE c == [event |-> t.event, signers |-> t.signatures]
  <2>2. t.event \in Events /\ t.signatures \in SUBSET Nodes /\ Routine(t.event) /\ DOMAIN tasks = Nodes
    BY DEF TypeOK, Voting, AllRoutine
  <2>3. c \in Certificates /\ c.event = t.event
    BY <2>2, Zenon DEF Certificates
  <2>4. /\ tasks' = [tasks EXCEPT ![n] = @ \ {t}]
        /\ certificates' = certificates \cup {c}
        /\ UNCHANGED <<lock, jobs, claimed, asked>>
        /\ Install(n, c) \/ UNCHANGED <<state, log, partial>>
    BY <2>1, Zenon DEF Finish
  <2> HIDE DEF c
  <2>5. \A m \in Nodes : tasks'[m] \subseteq tasks[m]
    BY <2>2, <2>4, Zenon
  <2>6. CASE Install(n, c)
    BY <2>2, <2>3, <2>4, <2>5, <2>6, InstallVotes, ZenonT(30)
  <2>7. CASE UNCHANGED <<state, log, partial>>
    <3>1. state' = state /\ log' = log /\ lock' = lock /\ asked' = asked /\ jobs' = jobs /\ claimed' = claimed
      BY <2>4, <2>7, Zenon
    <3>2. VotesLed' /\ VotesExtend'
      BY <3>1, Zenon DEF Voting, VotesLed, Led, VotesExtend, After
    <3>3. HistoryFollows' /\ WorkIsReady'
      BY <3>1, Zenon DEF Voting, HistoryFollows, WorkIsReady
    <3>4. AllRoutine'
      BY <2>2, <2>3, <2>4, <2>5, <3>1, ZenonT(30) DEF Voting, AllRoutine
    <3> QED BY <3>2, <3>3, <3>4, Zenon DEF Voting
  <2> QED BY <2>4, <2>6, <2>7, Zenon
<1>6. CASE \E t \in tasks[n], m \in Nodes : Collect(n, m, t)
  <2>1. PICK t \in tasks[n], m \in Nodes : Collect(n, m, t)
    BY <1>6, Zenon
  <2> DEFINE new == [caller |-> t.caller, event |-> t.event, signatures |-> partial[n] \cup {m}]
  <2>2. /\ tasks' = [tasks EXCEPT ![n] = (@ \ {t}) \cup {new}]
        /\ asked' = asked \cup {t.event} /\ t.event \in lock[n]
        /\ UNCHANGED <<state, log, lock, jobs, claimed, certificates>>
    BY <2>1, ZenonT(30) DEF Collect
  <2>3. new.event = t.event
    OBVIOUS
  <2> HIDE DEF new
  <2>4. DOMAIN tasks = Nodes
    BY ZenonT(30) DEF TypeOK
  <2>5. \A p \in Nodes : \A u \in tasks'[p] : Routine(u.event) \/ \E w \in tasks[p] : u.event = w.event
    BY <2>1, <2>2, <2>3, <2>4, Zenon
  <2>6. \A e \in asked' \ asked : \E p \in Nodes : e \in lock[p]
    BY <2>2, Zenon
  <2>7. lock' = lock /\ jobs' = jobs /\ claimed' = claimed
    BY <2>2, Zenon
  <2> QED BY <2>2, <2>5, <2>6, <2>7, HistoryKept, Zenon
<1>7. CASE Serve(n)
  <2>1. PICK e \in asked : AnswerSignRequest(n, e)
    BY <1>7, Zenon DEF Serve
  <2>2. /\ lock' = [lock EXCEPT ![n] = @ \cup {e}]
        /\ e \in lock[n] \/ e.parent = state[n]
        /\ UNCHANGED <<state, log, jobs, claimed, tasks, asked, certificates>>
    BY <2>1 DEF AnswerSignRequest, Sign, MaySign
  <2>3. DOMAIN lock = Nodes
    BY Zenon DEF TypeOK
  <2>4. \A m \in Nodes : lock[m] \subseteq lock'[m]
    BY <2>2, <2>3, Zenon
  <2>5. Led(e)'
    <3>1. PICK p \in Nodes : Leads(p, e.parent) /\ e \in lock[p]
      BY Zenon DEF Voting, VotesLed, Led
    <3> QED BY <2>4, <3>1 DEF Led
  <2>6. \A m \in Nodes : \A f \in lock'[m] \ lock[m] : f.parent = state[m] /\ Led(f)'
    BY <2>2, <2>3, <2>5, Zenon
  <2>7. asked' = asked /\ tasks' = tasks /\ jobs' = jobs /\ claimed' = claimed
    BY <2>2, Zenon
  <2> QED BY <2>2, <2>4, <2>6, <2>7, HistoryKept, Zenon
<1>8. CASE \/ SubmitBackup(n) \/ ClaimBackup(n) \/ EndBackup(n) \/ QueueActivation(n)
           \/ EndActivation(n) \/ Crash(n) \/ (\E t \in tasks[n] : Abandon(n, t))
  BY <1>8, BookkeepingVotes
<1> QED
  BY <1>1, <1>2, <1>3, <1>4, <1>5, <1>6, <1>7, <1>8, ZenonT(30)
     DEF ReconcileLoop, BackupLoop, CodingLoop, Progress

-----------------------------------------------------------------------------

(* The background loops of different members never compete for a sequence  *)
(* number, however calls are interrupted, retried and delayed: the rule    *)
(* that backup claims wait for every recovery key is enough.               *)
THEOREM LoopsNeverSplitTheVote == BackgroundSpec => []NoSplitVote
<1> DEFINE Inv == TypeOK /\ Core /\ Voting
<1>1. Init => Inv
  <2> SUFFICES ASSUME Init PROVE Voting
    BY InitStep
  <2>1. ASSUME NEW n \in Nodes
        PROVE  /\ log[n] = << >> /\ lock[n] = {} /\ tasks[n] = {} /\ jobs[n] = {} /\ claimed[n] = {}
               /\ state[n] = NewGuild
    BY DEF Init
  <2>2. DOMAIN << >> = {}
    OBVIOUS
  <2>3. \A n \in Nodes : DOMAIN log[n] = {}
    BY <2>1, <2>2, Zenon
  <2>4. asked = {} /\ certificates = {}
    BY Zenon DEF Init
  <2>5. Retained(NewGuild) = {}
    BY Zenon DEF Retained, NewGuild
  <2>6. VotesLed /\ VotesExtend
    BY <2>1, <2>4, Zenon DEF VotesLed, VotesExtend
  <2>7. AllRoutine /\ HistoryFollows
    BY <2>1, <2>3, <2>4, Zenon DEF AllRoutine, HistoryFollows
  <2>8. WorkIsReady
    BY <2>1, <2>5, Zenon DEF WorkIsReady
  <2> QED BY <2>6, <2>7, <2>8 DEF Voting
<1>2. Inv /\ [Background]_vars => Inv'
  <2> SUFFICES ASSUME TypeOK, Core, Voting, [Background]_vars PROVE TypeOK' /\ Core' /\ Voting'
    OBVIOUS
  <2>1. CASE Background
    <3>1. Next
      BY <2>1 DEF Next
    <3> QED BY <2>1, <3>1, NextStep, BackgroundVotes, Zenon
  <2>2. CASE UNCHANGED vars
    <3>1. UNCHANGED <<state, log, lock, asked, certificates, tasks, jobs, claimed>>
      BY <2>2, Zenon DEF vars
    <3>2. Voting'
      BY <3>1, HistoryKept, Zenon
    <3> QED BY <2>2, <3>2, StutterStep, Zenon
  <2> QED BY <2>1, <2>2, Zenon
<1>3. Inv => NoSplitVote
  BY LedVotesAgree, Zenon DEF Voting
<1> QED BY <1>1, <1>2, <1>3, PTL DEF BackgroundSpec

-----------------------------------------------------------------------------
(* One certificate of each event.                                          *)

(* The member whose calls propose an event: the owner of a recovery key,   *)
(* else the coordinator of the state the event extends.                    *)
Proposer(e) ==
    IF e.kind.type = "RotateKey" /\ e.kind.class = "recovery" THEN e.kind.node ELSE Coordinator(e.parent)

(* The inductive invariant: calls are their proposer's, and nobody joins,  *)
(* ...                                                                     *)
CallsOwned ==
    \A n \in Nodes : \A t \in tasks[n] : n = Proposer(t.event) /\ t.event.kind.type # "AddMember"

(* ... the proposer keeps the certificate it made in its log, ...          *)
CertificatesKept ==
    \A c \in certificates :
      /\ c.event.kind.type # "AddMember"
      /\ Proposer(c.event) \in Nodes
      /\ EventSequence(c.event) \in DOMAIN log[Proposer(c.event)]
      /\ log[Proposer(c.event)][EventSequence(c.event)] = c

(* ... what a member installed was sent by its proposer, ...               *)
LogsIssued == \A n \in Nodes : \A i \in DOMAIN log[n] : log[n][i] \in certificates

(* ... members only leave along a history, ...                             *)
MembersLeave ==
    \A n \in Nodes : \A i \in DOMAIN log[n] : Active(state[n]) \subseteq Active(log[n][i].event.parent)

(* ... who votes is active, ...                                            *)
VotersActive == \A n \in Nodes : \A e \in lock[n] : n \in Active(e.parent)

(* ... and a member with work of a coordinator is it, unless removed.      *)
WorkLed ==
    \A n \in Nodes :
      n \in Active(state[n]) /\ (jobs[n] # {} \/ claimed[n] # {}) => n = Coordinator(state[n])

Issuing ==
    CallsOwned /\ CertificatesKept /\ LogsIssued /\ MembersLeave /\ VotersActive /\ WorkLed

(* A coordinator that is not removed stays the coordinator as others are.  *)
LEMMA CoordinatorStays ==
    ASSUME NEW s, NEW t, NEW n, Active(t) \subseteq Active(s), n \in Active(t), n = Coordinator(s)
    PROVE  n = Coordinator(t)
<1>1. Active(s) \in SUBSET Nat /\ Active(s) # {} /\ Active(t) \in SUBSET Nat
  BY ConstantsAssumption, Zenon DEF Active, Known
<1>2. CASE FirstCoordinator \in Active(t)
  BY <1>2 DEF Coordinator
<1>3. CASE FirstCoordinator \notin Active(t)
  <2>1. FirstCoordinator \notin Active(s)
    BY <1>3 DEF Coordinator
  <2>2. n = CHOOSE x \in Active(s) : \A m \in Active(s) : x <= m
    BY <2>1 DEF Coordinator
  <2>3. PICK l \in Active(s) : \A m \in Active(s) : ~(<<m, l>> \in OpToRel(<, Nat))
    BY <1>1, WFMin, NatLessThanWellFounded, Zenon
  <2>4. \A m \in Active(s) : ~(m < l)
    BY <1>1, <2>3, Zenon DEF OpToRel
  <2>5. \E x \in Active(s) : \A m \in Active(s) : x <= m
    BY <1>1, <2>4
  <2>6. \A m \in Active(s) : n <= m
    BY <2>2, <2>5, Zenon
  <2> DEFINE c == CHOOSE x \in Active(t) : \A m \in Active(t) : x <= m
  <2>7. \E x \in Active(t) : \A m \in Active(t) : x <= m
    BY <2>6
  <2>8. c \in Active(t) /\ \A m \in Active(t) : c <= m
    BY <2>7, Zenon
  <2> HIDE DEF c
  <2>9. n = c
    <3>1. n <= c /\ c <= n /\ n \in Nat /\ c \in Nat
      BY <1>1, <2>6, <2>8, Zenon
    <3> QED BY <3>1
  <2> QED BY <1>3, <2>9, Zenon DEF Coordinator, c
<1> QED BY <1>2, <1>3, Zenon

(* apply_verified_event adds no member unless the event says so. *)
LEMMA MembersOnlyLeave ==
    ASSUME NEW s \in States, NEW k, Admissible(s, k), k.type # "AddMember"
    PROVE  Active(ApplyVerified(s, k)) \subseteq Active(s)
<1> DEFINE t == ApplyVerified(s, k)
<1>1. t.members = MembersAfter(s, k)
  BY Zenon DEF ApplyVerified
<1> HIDE DEF t
<1>2. \A n \in Nodes : t.members[n] = s.members[n] \/ n \in Active(s)
  <2>1. CASE k.type \in {"RemoveMember", "RelabelMember"}
    <3>1. k.node \in Active(s)
      BY <2>1, Zenon DEF Admissible
    <3>2. \A n \in Nodes : n # k.node => t.members[n] = s.members[n]
      BY <1>1, <2>1, Zenon DEF MembersAfter, States
    <3> QED BY <3>1, <3>2
  <2>2. CASE k.type \notin {"RemoveMember", "RelabelMember"}
    BY <1>1, <2>2, Zenon DEF MembersAfter
  <2> QED BY <2>1, <2>2, Zenon
<1> QED BY <1>2, Zenon DEF Active, Known, t

(* A step that installs and certifies nothing. *)
LEMMA IssuingKept ==
    ASSUME Issuing, UNCHANGED <<state, log, certificates>>,
           \A n \in Nodes : \A e \in lock'[n] : e \in lock[n] \/ n \in Active(e.parent),
           \A n \in Nodes : \A t \in tasks'[n] :
              \/ n = Proposer(t.event) /\ t.event.kind.type # "AddMember"
              \/ \E u \in tasks[n] : t.event = u.event,
           \A n \in Nodes : jobs'[n] # {} \/ claimed'[n] # {} =>
              \/ jobs[n] # {} \/ claimed[n] # {}
              \/ n \in Active(state[n]) => n = Coordinator(state[n])
    PROVE  Issuing'
<1>1. state' = state /\ log' = log /\ certificates' = certificates
  BY Zenon
<1>2. CallsOwned'
  BY DEF Issuing, CallsOwned
<1>3. CertificatesKept' /\ LogsIssued' /\ MembersLeave'
  BY <1>1, Zenon DEF Issuing, CertificatesKept, LogsIssued, MembersLeave
<1>4. VotersActive'
  BY Zenon DEF Issuing, VotersActive
<1>5. WorkLed'
  BY <1>1, Zenon DEF Issuing, WorkLed
<1> QED BY <1>2, <1>3, <1>4, <1>5, Zenon DEF Issuing

(* install_guild_event_inner, of a certificate that was sent or that its   *)
(* proposer sends with it.                                                 *)
LEMMA InstallIssued ==
    ASSUME TypeOK, Core, Issuing, NEW n \in Nodes, NEW c \in Certificates, Install(n, c),
           c.event.kind.type # "AddMember", c \in certificates \/ n = Proposer(c.event),
           certificates' = certificates \cup {c}, UNCHANGED <<lock, jobs, claimed>>,
           \A m \in Nodes : tasks'[m] \subseteq tasks[m]
    PROVE  Issuing'
<1> DEFINE L == Len(log[n])
           k == c.event.kind
<1>1. /\ c.event.parent = state[n] /\ ValidProposal(state[n], k)
      /\ state' = [state EXCEPT ![n] = ApplyVerified(@, k)]
      /\ log' = [log EXCEPT ![n] = Append(@, c)]
  BY Zenon DEF Install, Installable
<1>2. /\ state \in [Nodes -> States] /\ log \in [Nodes -> Seq(Certificates)]
      /\ L \in Nat /\ DOMAIN log[n] = 1 .. L
  <2>1. state \in [Nodes -> States] /\ log \in [Nodes -> Seq(Certificates)]
    BY Zenon DEF TypeOK
  <2> QED BY <2>1
<1>3. /\ \A m \in Nodes : m # n => state'[m] = state[m] /\ log'[m] = log[m]
      /\ state'[n] = ApplyVerified(state[n], k)
      /\ log'[n] = Append(log[n], c)
  BY <1>1, <1>2, ZenonT(30)
<1>4. /\ DOMAIN log'[n] = 1 .. L + 1 /\ log'[n][L + 1] = c
      /\ \A i \in 1 .. L : log'[n][i] = log[n][i]
      /\ \A i \in 1 .. L + 1 : i \in 1 .. L \/ i = L + 1
      /\ L + 1 \in 1 .. L + 1 /\ 1 .. L \subseteq 1 .. L + 1
  BY <1>2, <1>3, SMTT(30)
<1>5. \A m \in Nodes : \A i \in DOMAIN log[m] : i \in DOMAIN log'[m] /\ log'[m][i] = log[m][i]
  BY <1>2, <1>3, <1>4, Zenon
<1>6. EventSequence(c.event) = L + 1
  BY <1>1, Zenon DEF EventSequence, Core, Replayed
<1>7. Active(state'[n]) \subseteq Active(state[n])
  <2>1. Admissible(state[n], k) /\ state[n] \in States
    BY <1>1, <1>2, Zenon DEF ValidProposal
  <2> QED BY <1>3, <2>1, MembersOnlyLeave, Zenon
<1> HIDE DEF L, k
<1>8. CallsOwned'
  BY Zenon DEF Issuing, CallsOwned
<1>9. CertificatesKept'
  <2> SUFFICES ASSUME NEW d \in certificates'
               PROVE  /\ d.event.kind.type # "AddMember" /\ Proposer(d.event) \in Nodes
                      /\ EventSequence(d.event) \in DOMAIN log'[Proposer(d.event)]
                      /\ log'[Proposer(d.event)][EventSequence(d.event)] = d
    BY Zenon DEF CertificatesKept, Proposer
  <2>1. CASE d \in certificates
    BY <1>5, <2>1, Zenon DEF Issuing, CertificatesKept
  <2>2. CASE d = c /\ n = Proposer(c.event)
    BY <1>4, <1>6, <2>2, Zenon
  <2> QED BY <2>1, <2>2, Zenon
<1>10. LogsIssued'
  <2> SUFFICES ASSUME NEW m \in Nodes, NEW i \in DOMAIN log'[m] PROVE log'[m][i] \in certificates'
    BY Zenon DEF LogsIssued
  <2>1. CASE m # n
    BY <1>3, <2>1, Zenon DEF Issuing, LogsIssued
  <2>2. CASE m = n /\ i \in 1 .. L
    BY <1>2, <1>4, <2>2, Zenon DEF Issuing, LogsIssued, L
  <2>3. CASE m = n /\ i = L + 1
    BY <1>4, <2>3, Zenon
  <2> QED BY <1>4, <2>1, <2>2, <2>3, Zenon
<1>11. MembersLeave'
  <2> SUFFICES ASSUME NEW m \in Nodes, NEW i \in DOMAIN log'[m]
               PROVE  Active(state'[m]) \subseteq Active(log'[m][i].event.parent)
    BY Zenon DEF MembersLeave
  <2>1. CASE m # n
    BY <1>3, <2>1, Zenon DEF Issuing, MembersLeave
  <2>2. CASE m = n /\ i \in 1 .. L
    BY <1>2, <1>4, <1>7, <2>2, Zenon DEF Issuing, MembersLeave, L
  <2>3. CASE m = n /\ i = L + 1
    BY <1>1, <1>4, <1>7, <2>3, Zenon
  <2> QED BY <1>4, <2>1, <2>2, <2>3, Zenon
<1>12. VotersActive'
  BY Zenon DEF Issuing, VotersActive
<1>13. WorkLed'
  <2> SUFFICES ASSUME NEW m \in Nodes, m \in Active(state'[m]), jobs[m] # {} \/ claimed[m] # {}
               PROVE  m = Coordinator(state'[m])
    BY Zenon DEF WorkLed
  <2>1. CASE m # n
    BY <1>3, <2>1, Zenon DEF Issuing, WorkLed
  <2>2. CASE m = n
    <3>1. n = Coordinator(state[n])
      BY <1>7, <2>2, Zenon DEF Issuing, WorkLed
    <3> QED BY <1>7, <2>2, <3>1, CoordinatorStays, Zenon
  <2> QED BY <2>1, <2>2, Zenon
<1> QED BY <1>8, <1>9, <1>10, <1>11, <1>12, <1>13, ZenonT(30) DEF Issuing

(* Every proposal is its proposer's.  A member that can sign is active, so *)
(* claimed backups and activation jobs are still the coordinator's.        *)
LEMMA ProposalsOwned ==
    ASSUME Issuing, NEW n \in Nodes,
           \/ RegisterRecoveryKey(n) \/ RegisterWriterKey(n) \/ ActivateCodingGroup(n)
           \/ ReconcileGroupLifecycle(n) \/ Administer(n)
    PROVE  \E caller, k : /\ Drive(n, caller, k)
                          /\ n = Proposer(Event(state[n], k))
                          /\ k.type # "AddMember"
<1>0. \A k : Event(state[n], k).kind = k /\ Event(state[n], k).parent = state[n]
  BY Zenon DEF Event
<1>1. ASSUME NEW k, k.type # "RotateKey" \/ k.class # "recovery", n = Coordinator(state[n])
      PROVE  n = Proposer(Event(state[n], k))
  BY <1>0, <1>1, Zenon DEF Proposer
<1>2. ASSUME NEW k, k.type = "RotateKey", k.class = "recovery", k.node = n
      PROVE  n = Proposer(Event(state[n], k))
  BY <1>0, <1>2, ZenonT(30) DEF Proposer
<1>3. ASSUME NEW caller, NEW k, Drive(n, caller, k), jobs[n] # {} \/ claimed[n] # {}
      PROVE  n = Coordinator(state[n])
  <2>1. MaySign(n, Event(state[n], k))
    BY <1>3, Zenon DEF Drive, Sign
  <2>2. n \in Active(state[n])
    BY <1>0, <2>1, Zenon DEF MaySign, Issuing, VotersActive
  <2> QED BY <1>3, <2>2 DEF Issuing, WorkLed
<1>4. CASE RegisterRecoveryKey(n)
  <2> DEFINE Key(b) == RotateKey("recovery", n, Len(state[n].keys["recovery"][n]) + 1, b)
  <2>1. PICK b \in KeyBytes : Drive(n, "reconcile", Key(b))
    BY <1>4, Zenon DEF RegisterRecoveryKey
  <2>2. Key(b).type = "RotateKey" /\ Key(b).class = "recovery" /\ Key(b).node = n
    BY DEF RotateKey
  <2> HIDE DEF Key
  <2> QED BY <1>2, <2>1, <2>2, Zenon
<1>5. CASE RegisterWriterKey(n)
  <2>1. PICK job \in claimed[n] : Drive(n, "backup", WriterKeyOf(job))
    BY <1>5, Zenon DEF RegisterWriterKey
  <2>2. WriterKeyOf(job).type = "RotateKey" /\ WriterKeyOf(job).class = "writer"
    BY Zenon DEF WriterKeyOf, RotateKey
  <2>3. n = Coordinator(state[n])
    BY <1>3, <2>1, Zenon
  <2> QED BY <1>1, <2>1, <2>2, <2>3, Zenon
<1>6. CASE ActivateCodingGroup(n)
  <2>1. PICK g \in jobs[n] : Drive(n, "coding", AddCodingGroup(g))
    BY <1>6, Zenon DEF ActivateCodingGroup
  <2>2. AddCodingGroup(g).type = "AddCodingGroup"
    BY Zenon DEF AddCodingGroup
  <2>3. n = Coordinator(state[n])
    BY <1>3, <2>1, Zenon
  <2> QED BY <1>1, <2>1, <2>2, <2>3, Zenon
<1>7. CASE ReconcileGroupLifecycle(n)
  <2>1. PICK g \in Retained(state[n]) :
          \E k \in {ForgetCodingGroup(g), RetireCodingGroup(g, Sequence(state[n]) + 1)} : Drive(n, "reconcile", k)
    BY <1>7, Zenon DEF ReconcileGroupLifecycle
  <2>2. PICK k \in {ForgetCodingGroup(g), RetireCodingGroup(g, Sequence(state[n]) + 1)} : Drive(n, "reconcile", k)
    BY <2>1, ZenonT(30)
  <2>3. k.type \in {"ForgetCodingGroup", "RetireCodingGroup"}
    BY <2>2, SMTT(30) DEF ForgetCodingGroup, RetireCodingGroup
  <2>4. n = Coordinator(state[n])
    BY <1>7 DEF ReconcileGroupLifecycle
  <2>5. k.type # "RotateKey" /\ k.type # "AddMember"
    BY <2>3
  <2> QED BY <1>1, <2>2, <2>4, <2>5, Zenon
<1>8. CASE Administer(n)
  <2>1. PICK k \in OperatorKind(state[n], n) : Drive(n, "operator", k)
    BY <1>8, Zenon DEF Administer
  <2>2. \/ /\ n = Coordinator(state[n])
           /\ \/ \E m : k = RemoveMember(m)
              \/ \E m, d : k = RelabelMember(m, d)
              \/ \E p : k = SetQuorum(p)
              \/ \E m, e : k = RevokeKey("recovery", m, e)
        \/ \E e, b : k = RotateKey("recovery", n, e, b)
    BY <2>1, SMTT(30) DEF OperatorKind
  <2>3. CASE n = Coordinator(state[n]) /\ k.type \in {"RemoveMember", "RelabelMember", "SetQuorum", "RevokeKey"}
    <3>1. k.type # "RotateKey" /\ k.type # "AddMember"
      BY <2>3, Zenon
    <3> QED BY <1>1, <2>1, <2>3, <3>1, Zenon
  <2>4. CASE k.type = "RotateKey" /\ k.class = "recovery" /\ k.node = n
    <3>1. k.type # "AddMember"
      BY <2>4, Zenon
    <3> QED BY <1>2, <2>1, <2>4, <3>1, Zenon
  <2>5. /\ \A m : RemoveMember(m).type = "RemoveMember"
        /\ \A m, d : RelabelMember(m, d).type = "RelabelMember"
        /\ \A p : SetQuorum(p).type = "SetQuorum"
        /\ \A m, e : RevokeKey("recovery", m, e).type = "RevokeKey"
    BY Zenon DEF RemoveMember, RelabelMember, SetQuorum, RevokeKey
  <2>6. \A e, b : LET r == RotateKey("recovery", n, e, b)
                IN  r.type = "RotateKey" /\ r.class = "recovery" /\ r.node = n
    BY DEF RotateKey
  <2> QED BY <2>2, <2>3, <2>4, <2>5, <2>6, ZenonT(30)
<1> QED BY <1>4, <1>5, <1>6, <1>7, <1>8, Zenon

(* A proposer's first step. *)
LEMMA DriveIssues ==
    ASSUME TypeOK, Issuing, NEW n \in Nodes, NEW caller, NEW k, Drive(n, caller, k),
           n = Proposer(Event(state[n], k)), k.type # "AddMember"
    PROVE  Issuing'
<1> DEFINE e == Event(state[n], k)
           t == [caller |-> caller, event |-> e, signatures |-> {}]
<1>1. /\ Sign(n, e)
      /\ tasks' = [tasks EXCEPT ![n] = @ \cup {t}]
      /\ UNCHANGED <<state, log, jobs, claimed, certificates>>
  BY Zenon DEF Drive
<1>2. e.parent = state[n] /\ e.kind = k /\ t.event = e
  BY DEF Event
<1>3. n = Proposer(e)
  OBVIOUS
<1> HIDE DEF e, t
<1>4. /\ lock' = [lock EXCEPT ![n] = @ \cup {e}] /\ DOMAIN lock = Nodes /\ DOMAIN tasks = Nodes
      /\ e \in lock[n] \/ n \in Active(e.parent)
  BY <1>1, <1>2, Zenon DEF Sign, MaySign, TypeOK
<1>5. \A m \in Nodes : \A f \in lock'[m] : f \in lock[m] \/ m \in Active(f.parent)
  BY <1>4, Zenon
<1>6. \A m \in Nodes : \A u \in tasks'[m] :
        \/ m = Proposer(u.event) /\ u.event.kind.type # "AddMember"
        \/ \E w \in tasks[m] : u.event = w.event
  BY <1>1, <1>2, <1>3, <1>4, Zenon
<1> QED BY <1>1, <1>5, <1>6, IssuingKept, Zenon

(* The steps that only rearrange work.  A coding attempt that was planned  *)
(* in an earlier state is queued by a member that still leads, or left.    *)
LEMMA BookkeepingIssues ==
    ASSUME TypeOK, Issuing, NEW n \in Nodes,
           \/ SubmitBackup(n) \/ ClaimBackup(n) \/ EndBackup(n) \/ QueueActivation(n)
           \/ EndActivation(n) \/ Crash(n) \/ (\E t \in tasks[n] : Abandon(n, t))
    PROVE  Issuing'
<1> DEFINE Quiet == /\ UNCHANGED <<state, log, lock, certificates>>
                    /\ \A m \in Nodes : tasks'[m] \subseteq tasks[m]
           LeadsOrLeft(m) == m \in Active(state[m]) => m = Coordinator(state[m])
           Work == \A m \in Nodes : jobs'[m] # {} \/ claimed'[m] # {} =>
                      jobs[m] # {} \/ claimed[m] # {} \/ LeadsOrLeft(m)
<1>0. DOMAIN tasks = Nodes /\ DOMAIN jobs = Nodes /\ DOMAIN claimed = Nodes
  BY DEF TypeOK
<1>1. ASSUME Quiet, Work PROVE Issuing'
  <2>1. \A m \in Nodes : \A t \in tasks'[m] : \E u \in tasks[m] : t.event = u.event
    BY <1>1, Zenon
  <2>2. \A m \in Nodes : \A e \in lock'[m] : e \in lock[m]
    BY <1>1, Zenon
  <2> QED BY <1>1, <2>1, <2>2, IssuingKept, Zenon
<1> HIDE DEF Quiet, Work
<1>2. CASE SubmitBackup(n)
  BY <1>1, <1>2 DEF SubmitBackup, Quiet, Work
<1>3. CASE ClaimBackup(n)
  <2>1. PICK job \in backups[n] : Claim(n, job)
    BY <1>3, ZenonT(30) DEF ClaimBackup
  <2>2. LeadsOrLeft(n)
    BY <1>3, Zenon DEF ClaimBackup
  <2>3. Quiet
    BY <2>1, Zenon DEF Claim, Quiet
  <2>4. \A m \in Nodes : m # n => claimed'[m] = claimed[m] /\ jobs'[m] = jobs[m]
    BY <1>0, <2>1, Zenon DEF Claim
  <2> QED BY <1>1, <2>2, <2>3, <2>4, Zenon DEF Work
<1>4. CASE EndBackup(n)
  <2>1. claimed' = [claimed EXCEPT ![n] = {}] /\ jobs' = jobs
    BY <1>4, Zenon DEF EndBackup
  <2>2. Quiet
    BY <1>4, Zenon DEF EndBackup, Quiet
  <2>3. Work
    BY <1>0, <2>1, Zenon DEF Work
  <2> QED BY <1>1, <2>2, <2>3, Zenon
<1>5. CASE QueueActivation(n)
  <2>1. PICK g \in Groups, s \in {state[n]} \cup {log[n][i].event.parent : i \in DOMAIN log[n]} :
          /\ n = Coordinator(s)
          /\ jobs' = [jobs EXCEPT ![n] = @ \cup {g}]
          /\ UNCHANGED <<state, log, lock, partial, backups, claimed, running, tasks, asked, certificates, interruptions, losses>>
    BY <1>5, Zenon DEF QueueActivation
  <2>2. LeadsOrLeft(n)
    <3>1. CASE s = state[n]
      BY <2>1, <3>1, Zenon
    <3>2. CASE s # state[n]
      <4>1. Active(state[n]) \subseteq Active(s)
        BY <2>1, <3>2, Zenon DEF Issuing, MembersLeave
      <4> QED BY <2>1, <4>1, CoordinatorStays, Zenon
    <3> QED BY <3>1, <3>2, Zenon
  <2>3. Quiet
    BY <2>1, Zenon DEF Quiet
  <2> HIDE DEF LeadsOrLeft
  <2>4. Work
    BY <1>0, <2>1, <2>2, ZenonT(30) DEF Work
  <2> QED BY <1>1, <2>3, <2>4, Zenon
<1>6. CASE EndActivation(n)
  <2>1. PICK g \in jobs[n] :
          /\ jobs' = [jobs EXCEPT ![n] = @ \ {g}]
          /\ UNCHANGED <<state, log, lock, partial, backups, claimed, running, tasks, asked, certificates, interruptions, losses>>
    BY <1>6, Zenon DEF EndActivation
  <2>2. Quiet
    BY <2>1, Zenon DEF Quiet
  <2>3. Work
    BY <1>0, <2>1, ZenonT(30) DEF Work
  <2> QED BY <1>1, <2>2, <2>3, Zenon
<1>7. CASE Crash(n)
  <2>1. /\ tasks' = [tasks EXCEPT ![n] = {}] /\ claimed' = [claimed EXCEPT ![n] = {}] /\ jobs' = jobs
        /\ UNCHANGED <<state, log, lock, certificates>>
    BY <1>7 DEF Crash
  <2>2. Quiet
    BY <1>0, <2>1 DEF Quiet
  <2>3. Work
    BY <1>0, <2>1, Zenon DEF Work
  <2> QED BY <1>1, <2>2, <2>3, Zenon
<1>8. CASE \E t \in tasks[n] : Abandon(n, t)
  <2>1. PICK t \in tasks[n] : Abandon(n, t)
    BY <1>8
  <2>2. /\ tasks' = [tasks EXCEPT ![n] = @ \ {t}] /\ jobs' = jobs
        /\ \E left : claimed' = [claimed EXCEPT ![n] = @ \ left]
        /\ UNCHANGED <<state, log, lock, certificates>>
    BY <2>1, Zenon DEF Abandon
  <2>3. Quiet
    BY <1>0, <2>2 DEF Quiet
  <2>4. Work
    BY <1>0, <2>2, Zenon DEF Work
  <2> QED BY <1>1, <2>3, <2>4, Zenon
<1> QED BY <1>2, <1>3, <1>4, <1>5, <1>6, <1>7, <1>8, ZenonT(30)

(* Every step keeps the invariant while no disk is lost. *)
LEMMA StepIssues ==
    ASSUME TypeOK, Core, Issuing, Next, MaxLosses = 0
    PROVE  Issuing'
<1>1. PICK n \in Nodes :
        \/ ReconcileLoop(n) \/ BackupLoop(n) \/ CodingLoop(n)
        \/ Administer(n) \/ Progress(n, "operator")
        \/ SubmitBackup(n) \/ QueueActivation(n) \/ Serve(n)
        \/ \E c \in certificates : InstallPushed(n, c)
        \/ Crash(n) \/ (\E t \in tasks[n] : Abandon(n, t))
  <2>1. ~(losses < MaxLosses)
    BY DEF TypeOK
  <2>2. \A n, p \in Nodes : ~RecoverFromSeed(n, p)
    BY <2>1, Zenon DEF RecoverFromSeed
  <2> QED BY <2>2, Zenon DEF Next, Background
<1>2. CASE \/ RegisterRecoveryKey(n) \/ RegisterWriterKey(n) \/ ActivateCodingGroup(n)
           \/ ReconcileGroupLifecycle(n) \/ Administer(n)
  <2>1. PICK caller, k : /\ Drive(n, caller, k)
                         /\ n = Proposer(Event(state[n], k))
                         /\ k.type # "AddMember"
    BY <1>2, ProposalsOwned
  <2> QED BY <2>1, DriveIssues, Zenon
<1>3. CASE \E p \in Nodes : PullTail(n, p)
  <2>1. PICK p \in Nodes : PullTail(n, p)
    BY <1>3, Zenon
  <2> DEFINE i == Sequence(state[n]) + 1
             c == log[p][i]
  <2>2. i \in DOMAIN log[p] /\ Install(n, c) /\ UNCHANGED <<lock, jobs, claimed, tasks, certificates>>
    BY <2>1, Zenon DEF PullTail
  <2>3. c \in Certificates /\ c \in certificates
    BY <2>2, Zenon DEF TypeOK, Issuing, LogsIssued
  <2> HIDE DEF c, i
  <2>4. c.event.kind.type # "AddMember" /\ certificates' = certificates \cup {c}
    BY <2>2, <2>3, Zenon DEF Issuing, CertificatesKept
  <2> QED BY <2>2, <2>3, <2>4, InstallIssued, Zenon
<1>4. CASE \E c \in certificates : InstallPushed(n, c)
  <2>1. PICK c \in certificates : InstallPushed(n, c)
    BY <1>4
  <2>2. Install(n, c) /\ UNCHANGED <<lock, jobs, claimed, tasks, certificates>>
    BY <2>1, Zenon DEF InstallPushed
  <2>3. c \in Certificates
    BY Zenon DEF TypeOK
  <2>4. c.event.kind.type # "AddMember" /\ certificates' = certificates \cup {c}
    BY <2>2, Zenon DEF Issuing, CertificatesKept
  <2> QED BY <2>2, <2>3, <2>4, InstallIssued, Zenon
<1>5. CASE \E t \in tasks[n] : Finish(n, t)
  <2>1. PICK t \in tasks[n] : Finish(n, t)
    BY <1>5, Zenon
  <2> DEFINE c == [event |-> t.event, signers |-> t.signatures]
  <2>2. t.event \in Events /\ t.signatures \in SUBSET Nodes /\ DOMAIN tasks = Nodes
    BY DEF TypeOK
  <2>3. c \in Certificates /\ c.event = t.event
    BY <2>2, Zenon DEF Certificates
  <2>4. /\ tasks' = [tasks EXCEPT ![n] = @ \ {t}]
        /\ certificates' = certificates \cup {c}
        /\ UNCHANGED <<lock, jobs, claimed>>
        /\ Install(n, c) \/ (AlreadyInstalled(n, c) /\ UNCHANGED <<state, log>>)
    BY <2>1, Zenon DEF Finish
  <2> HIDE DEF c
  <2>5. \A m \in Nodes : tasks'[m] \subseteq tasks[m]
    BY <2>2, <2>4, ZenonT(30)
  <2>6. n = Proposer(c.event) /\ c.event.kind.type # "AddMember"
    BY <2>3 DEF Issuing, CallsOwned
  <2>7. CASE Install(n, c)
    BY <2>3, <2>4, <2>5, <2>6, <2>7, InstallIssued, Zenon
  <2>8. CASE AlreadyInstalled(n, c) /\ UNCHANGED <<state, log>>
    <3>1. c \in certificates
      BY <2>8, Zenon DEF AlreadyInstalled, Issuing, LogsIssued
    <3>2. UNCHANGED <<state, log, certificates, lock, jobs, claimed>>
      BY <2>4, <2>8, <3>1, Zenon
    <3>3. \A m \in Nodes : \A u \in tasks'[m] : \E w \in tasks[m] : u.event = w.event
      BY <2>5
    <3>4. \A m \in Nodes : \A e \in lock'[m] : e \in lock[m]
      BY <3>2, Zenon
    <3> QED BY <3>2, <3>3, <3>4, IssuingKept, Zenon
  <2> QED BY <2>4, <2>7, <2>8, Zenon
<1>6. CASE \E t \in tasks[n], m \in Nodes : Collect(n, m, t)
  <2>1. PICK t \in tasks[n], m \in Nodes : Collect(n, m, t)
    BY <1>6, Zenon
  <2> DEFINE new == [caller |-> t.caller, event |-> t.event, signatures |-> partial[n] \cup {m}]
  <2>2. /\ tasks' = [tasks EXCEPT ![n] = (@ \ {t}) \cup {new}]
        /\ UNCHANGED <<state, log, lock, jobs, claimed, certificates>>
    BY <2>1, Zenon DEF Collect
  <2>3. new.event = t.event
    OBVIOUS
  <2> HIDE DEF new
  <2>4. DOMAIN tasks = Nodes
    BY DEF TypeOK
  <2>5. \A p \in Nodes : \A u \in tasks'[p] : \E w \in tasks[p] : u.event = w.event
    BY <2>1, <2>2, <2>3, <2>4, Zenon
  <2>6. \A p \in Nodes : \A e \in lock'[p] : e \in lock[p]
    BY <2>2, ZenonT(30)
  <2> QED BY <2>2, <2>5, <2>6, IssuingKept, Zenon
<1>7. CASE Serve(n)
  <2>1. PICK e \in asked : AnswerSignRequest(n, e)
    BY <1>7 DEF Serve
  <2>2. /\ lock' = [lock EXCEPT ![n] = @ \cup {e}]
        /\ e \in lock[n] \/ n \in Active(e.parent)
        /\ UNCHANGED <<state, log, jobs, claimed, tasks, certificates>>
    BY <2>1, Zenon DEF AnswerSignRequest, Sign, MaySign
  <2>3. DOMAIN lock = Nodes
    BY DEF TypeOK
  <2>4. \A m \in Nodes : \A f \in lock'[m] : f \in lock[m] \/ m \in Active(f.parent)
    BY <2>2, <2>3, Zenon
  <2>5. \A m \in Nodes : \A u \in tasks'[m] : \E w \in tasks[m] : u.event = w.event
    BY <2>2
  <2> QED BY <2>2, <2>4, <2>5, IssuingKept, Zenon
<1>8. CASE \/ SubmitBackup(n) \/ ClaimBackup(n) \/ EndBackup(n) \/ QueueActivation(n)
           \/ EndActivation(n) \/ Crash(n) \/ (\E t \in tasks[n] : Abandon(n, t))
  BY <1>8, BookkeepingIssues, Zenon
<1> QED
  BY <1>1, <1>2, <1>3, <1>4, <1>5, <1>6, <1>7, <1>8, ZenonT(30)
     DEF ReconcileLoop, BackupLoop, CodingLoop, Progress

(* As long as no disk is lost, members never hold two certificates of one  *)
(* event, although any member may collect any quorum for it: retries run   *)
(* at the event's one proposer, whose log decides which certificate goes   *)
(* out (install_guild_event_inner).  Invitations are not among the         *)
(* proposals of GuildLog, so members only leave.                           *)
THEOREM CertificatesAreUnique == MaxLosses = 0 => (Spec => []OneCertificate)
<1> SUFFICES ASSUME MaxLosses = 0 PROVE Spec => []OneCertificate
  OBVIOUS
<1> DEFINE Inv == TypeOK /\ Core /\ Issuing
<1>1. Init => Inv
  <2> SUFFICES ASSUME Init PROVE Issuing
    BY InitStep
  <2>1. ASSUME NEW n \in Nodes
        PROVE  log[n] = << >> /\ lock[n] = {} /\ tasks[n] = {} /\ jobs[n] = {} /\ claimed[n] = {}
    BY DEF Init
  <2>2. DOMAIN << >> = {}
    OBVIOUS
  <2>3. \A n \in Nodes : DOMAIN log[n] = {}
    BY <2>1, <2>2, Zenon
  <2>4. certificates = {}
    BY Zenon DEF Init
  <2>5. CallsOwned /\ CertificatesKept /\ VotersActive /\ WorkLed
    BY <2>1, <2>4, Zenon DEF CallsOwned, CertificatesKept, VotersActive, WorkLed
  <2>6. LogsIssued /\ MembersLeave
    BY <2>3 DEF LogsIssued, MembersLeave
  <2> QED BY <2>5, <2>6 DEF Issuing
<1>2. Inv /\ [Next]_vars => Inv'
  <2> SUFFICES ASSUME TypeOK, Core, Issuing, [Next]_vars PROVE TypeOK' /\ Core' /\ Issuing'
    OBVIOUS
  <2>1. CASE Next
    BY <2>1, NextStep, StepIssues, Zenon
  <2>2. CASE UNCHANGED vars
    <3>1. UNCHANGED <<state, log, lock, certificates, tasks, jobs, claimed>>
      BY <2>2 DEF vars
    <3>2. \A m \in Nodes : \A u \in tasks'[m] : \E w \in tasks[m] : u.event = w.event
      BY <3>1, Zenon
    <3>3. \A m \in Nodes : \A e \in lock'[m] : e \in lock[m]
      BY <3>1, Zenon
    <3>4. Issuing'
      BY <3>1, <3>2, <3>3, IssuingKept, Zenon
    <3> QED BY <2>2, <3>4, StutterStep, Zenon
  <2> QED BY <2>1, <2>2, Zenon
<1>3. Inv => OneCertificate
  <2> SUFFICES ASSUME Core, Issuing, NEW n \in Nodes, NEW m \in Nodes, NEW i \in DOMAIN log[n] \cap DOMAIN log[m]
               PROVE  log[n][i].signers = log[m][i].signers
    BY Zenon DEF OneCertificate
  <2> DEFINE c == log[n][i]
             d == log[m][i]
             Stored(e) == log[Proposer(e)][EventSequence(e)]
  <2>1. c \in certificates /\ d \in certificates /\ c.event = d.event
    BY Zenon DEF Issuing, LogsIssued, Core, Agreement
  <2>2. Stored(c.event) = c /\ Stored(d.event) = d
    BY <2>1 DEF Issuing, CertificatesKept
  <2> HIDE DEF c, d, Stored
  <2>3. c = d
    BY <2>1, <2>2
  <2> QED BY <2>3 DEF c, d
<1> QED BY <1>1, <1>2, <1>3, PTL DEF Spec

=============================================================================
