--------------------------- MODULE GuildLogProofs ---------------------------
(***************************************************************************)
(* Agreement of the members' histories, for every set of nodes, every      *)
(* policy and every interleaving, as long as no member loses its disk; and *)
(* members with their own disks and messages implement the single history  *)
(* of GuildHistory.                                                        *)
(***************************************************************************)
EXTENDS GuildLog, GuildStateProofs, WellFoundedInduction

(* The part of the invariant beyond types. *)
Core == VoteOnce /\ Replayed /\ SignaturesAreVotes /\ StatesValid /\ Agreement

(* A step that touches neither histories nor votes and starts or drops     *)
(* calls without signatures keeps the invariant.                           *)
LEMMA QuietStep ==
    ASSUME Core, UNCHANGED <<state, log, lock, partial, certificates>>,
           \A m \in Nodes : tasks'[m] \subseteq tasks[m]
    PROVE  Core'
<1>1. VoteOnce' /\ Replayed' /\ StatesValid' /\ Agreement'
  <2>1. state' = state /\ log' = log /\ lock' = lock
    OBVIOUS
  <2>2. VoteOnce'
    BY <2>1, Zenon DEF Core, VoteOnce
  <2>3. Replayed'
    BY <2>1 DEF Core, Replayed, After, Voted
  <2>4. StatesValid' /\ Agreement'
    BY <2>1 DEF Core, StatesValid, Agreement
  <2> QED BY <2>2, <2>3, <2>4
<1>2. SignaturesAreVotes'
  BY DEF Core, SignaturesAreVotes, NextLocks, LocksAt, Voted
<1> QED BY <1>1, <1>2 DEF Core

(* sign_guild_event_proposal_inner keeps the invariant: the lock makes the *)
(* vote the only one for its sequence number.                              *)
LEMMA SignStep ==
    ASSUME TypeOK, Core, NEW n \in Nodes, NEW e \in Events, Sign(n, e),
           UNCHANGED <<state, log, partial, certificates>>,
           \A m \in Nodes : \A t \in tasks'[m] : t \in tasks[m] \/ t.signatures = {}
    PROVE  Core'
<1>1. /\ lock' = [lock EXCEPT ![n] = @ \cup {e}]
      /\ lock \in [Nodes -> SUBSET Events]
      /\ e \in lock[n] \/ LocksAt(n, EventSequence(e)) = {}
  BY DEF Sign, MaySign, TypeOK
<1>2. \A m \in Nodes : lock[m] \subseteq lock'[m] /\ (m # n => lock'[m] = lock[m])
  BY <1>1
<1>3. \A f : Voted(f) \subseteq Voted(f)'
  BY <1>2 DEF Voted
<1>4. VoteOnce'
  BY <1>1 DEF Core, VoteOnce, LocksAt
<1>5. Replayed'
  <2> SUFFICES ASSUME NEW m \in Nodes
               PROVE  /\ Sequence(state[m]) = Len(log[m])
                      /\ After(m, 0) = NewGuild
                      /\ \A i \in DOMAIN log[m] :
                            /\ After(m, i) = ApplyVerified(log[m][i].event.parent, log[m][i].event.kind)
                            /\ Sequence(log[m][i].event.parent) = i - 1
                            /\ Certified(log[m][i].event, log[m][i].signers)
                            /\ log[m][i].signers \subseteq Voted(log[m][i].event)'
    <3>1. state' = state /\ log' = log
      OBVIOUS
    <3> QED BY <3>1 DEF Replayed, After
  <2> QED BY <1>3 DEF Core, Replayed
<1>6. SignaturesAreVotes'
  <2>1. \A c \in certificates' : c.signers \subseteq Voted(c.event)'
    BY <1>3 DEF Core, SignaturesAreVotes
  <2>2. ASSUME NEW m \in Nodes PROVE \A t \in tasks'[m] : t.signatures \subseteq Voted(t.event)'
    BY <1>3 DEF Core, SignaturesAreVotes
  <2>3. ASSUME NEW m \in Nodes
        PROVE  /\ NextLocks(m)' = {} => partial'[m] = {}
               /\ \A f \in NextLocks(m)' : partial'[m] \subseteq Voted(f)'
    <3>1. NextLocks(m) \subseteq NextLocks(m)'
      BY <1>2 DEF NextLocks, LocksAt
    <3>2. ASSUME NEW f \in NextLocks(m)', f \notin NextLocks(m)
          PROVE  NextLocks(m) = {}
      <4>1. m = n /\ f = e /\ e \notin lock[n] /\ EventSequence(e) = Sequence(state[n]) + 1
        BY <1>1, <3>2, Zenon DEF NextLocks, LocksAt
      <4> QED BY <1>1, <4>1 DEF NextLocks
    <3> QED BY <1>3, <3>1, <3>2 DEF Core, SignaturesAreVotes
  <2> QED BY <2>1, <2>2, <2>3 DEF SignaturesAreVotes
<1>7. StatesValid' /\ Agreement'
  BY DEF Core, StatesValid, Agreement
<1> QED BY <1>4, <1>5, <1>6, <1>7 DEF Core

(* collect_guild_event_signature keeps the invariant: what it accumulates  *)
(* are votes for the one event the proposer has locked next.               *)
LEMMA CollectStep ==
    ASSUME TypeOK, Core, NEW n \in Nodes, NEW m \in Nodes, NEW t \in tasks[n], Collect(n, m, t)
    PROVE  Core'
<1>1. /\ t.event \in lock[n] /\ t.event.parent = state[n] /\ t.event \in lock[m]
      /\ partial' = [partial EXCEPT ![n] = @ \cup {m}]
      /\ UNCHANGED <<state, log, lock, certificates>>
      /\ partial \in [Nodes -> SUBSET Nodes]
  BY DEF Collect, TypeOK
<1> DEFINE new == [caller |-> t.caller, event |-> t.event, signatures |-> partial[n] \cup {m}]
<1>2. /\ tasks' = [tasks EXCEPT ![n] = (@ \ {t}) \cup {new}]
      /\ DOMAIN tasks = Nodes
  BY DEF Collect, TypeOK
<1>3. VoteOnce' /\ Replayed' /\ StatesValid' /\ Agreement'
  <2>1. state' = state /\ log' = log /\ lock' = lock
    BY <1>1
  <2>2. VoteOnce'
    BY <2>1, Zenon DEF Core, VoteOnce
  <2>3. Replayed'
    BY <2>1 DEF Core, Replayed, After, Voted
  <2>4. StatesValid' /\ Agreement'
    BY <2>1 DEF Core, StatesValid, Agreement
  <2> QED BY <2>2, <2>3, <2>4, Zenon
<1>4. t.event \in NextLocks(n)
  BY <1>1 DEF NextLocks, LocksAt, EventSequence
<1>5. partial'[n] = partial[n] \cup {m} /\ partial'[n] \subseteq Voted(t.event)
  BY <1>1, <1>4 DEF Core, SignaturesAreVotes, Voted
<1>6. \A f : Voted(f)' = Voted(f)
  BY <1>1 DEF Voted
<1>7. \A p \in Nodes : NextLocks(p)' = NextLocks(p)
  BY <1>1 DEF NextLocks, LocksAt
<1>8. \A f \in NextLocks(n) : f = t.event
  BY <1>4 DEF Core, VoteOnce, NextLocks, LocksAt
<1>9. ASSUME NEW p \in Nodes, NEW u \in tasks'[p] PROVE u.signatures \subseteq Voted(u.event)'
  <2>1. CASE u \in tasks[p]
    BY <1>6, <2>1 DEF Core, SignaturesAreVotes
  <2>2. CASE u \notin tasks[p]
    <3>1. p = n /\ u = new
      BY <1>2, <2>2
    <3>2. u.signatures = partial'[n] /\ u.event = t.event
      BY <1>5, <3>1
    <3> QED BY <1>5, <1>6, <3>2, Zenon
  <2> QED BY <2>1, <2>2
<1>10. ASSUME NEW p \in Nodes
       PROVE  /\ NextLocks(p)' = {} => partial'[p] = {}
              /\ \A f \in NextLocks(p)' : partial'[p] \subseteq Voted(f)'
  <2>1. CASE p = n
    BY <1>4, <1>5, <1>6, <1>7, <1>8, <2>1, Zenon
  <2>2. CASE p # n
    BY <1>1, <1>6, <1>7, <2>2, Zenon DEF Core, SignaturesAreVotes
  <2> QED BY <2>1, <2>2
<1>11. \A c \in certificates' : c.signers \subseteq Voted(c.event)'
  BY <1>1, <1>6 DEF Core, SignaturesAreVotes
<1>12. SignaturesAreVotes'
  BY <1>9, <1>10, <1>11 DEF SignaturesAreVotes
<1> QED BY <1>3, <1>12, Zenon DEF Core

(* install_guild_event_inner keeps the invariant.  The heart of it: if m   *)
(* already has an event at n's next position, both logs agree before it,   *)
(* so both events were certified in the same state, some member signed     *)
(* both, and its lock makes them equal.                                    *)
LEMMA InstallStep ==
    ASSUME TypeOK, Core, NEW n \in Nodes, NEW c \in Certificates, Install(n, c),
           c.signers \subseteq Voted(c.event),
           UNCHANGED lock,
           \A m \in Nodes : tasks'[m] \subseteq tasks[m],
           certificates' \subseteq certificates \cup {c}
    PROVE  Core'
<1>0. PICK L \in Nat : L = Len(log[n])
  BY DEF TypeOK
<1>1. /\ c.event.parent = state[n]
      /\ Authorized(state[n], c.event.kind, c.signers)
      /\ ValidProposal(state[n], c.event.kind)
      /\ state' = [state EXCEPT ![n] = ApplyVerified(@, c.event.kind)]
      /\ log' = [log EXCEPT ![n] = Append(@, c)]
      /\ partial' = [partial EXCEPT ![n] = {}]
  BY DEF Install, Installable
<1>2. /\ state \in [Nodes -> States] /\ log \in [Nodes -> Seq(Certificates)]
      /\ partial \in [Nodes -> SUBSET Nodes]
      /\ log[n] \in Seq(Certificates) /\ L = Len(log[n])
      /\ c.event.kind \in Kinds
  <2>1. c.event.kind \in Kinds
    BY DEF Certificates, Events
  <2> QED BY <1>0, <2>1 DEF TypeOK
<1>3. /\ state'[n] = ApplyVerified(state[n], c.event.kind)
      /\ log'[n] = Append(log[n], c) /\ Len(log'[n]) = L + 1 /\ log'[n][L + 1] = c
      /\ DOMAIN log'[n] = 1 .. L + 1 /\ DOMAIN log[n] = 1 .. L
      /\ \A i \in 1 .. L : log'[n][i] = log[n][i]
  BY <1>1, <1>2, SMTT(30)
<1>4. \A m \in Nodes : m # n => state'[m] = state[m] /\ log'[m] = log[m] /\ partial'[m] = partial[m]
  BY <1>1, <1>2
<1>5. Sequence(state[n]) = L /\ Sequence(state'[n]) = L + 1 /\ Valid(state[n]) /\ Valid(state'[n])
  <2>1. Sequence(state[n]) = L
    BY <1>2, Zenon DEF Core, Replayed
  <2>2. Valid(state[n])
    BY Zenon DEF Core, StatesValid
  <2>3. Valid(state'[n])
    BY <1>1, <1>3 DEF ValidProposal
  <2>4. state[n] \in States
    BY <1>2, Zenon
  <2>5. Sequence(state'[n]) = Sequence(state[n]) + 1
    BY <1>1, <1>2, <1>3, <2>4, ApplyTyped, Zenon DEF ValidProposal
  <2> QED BY <2>1, <2>2, <2>3, <2>5, Zenon
<1>6. \A f : Voted(f)' = Voted(f)
  BY DEF Voted
<1>7. VoteOnce'
  BY Zenon DEF Core, VoteOnce
<1>8. Replayed'
  <2>1. ASSUME NEW m \in Nodes, m # n
        PROVE  /\ Sequence(state'[m]) = Len(log'[m])
               /\ After(m, 0)' = NewGuild
               /\ \A i \in DOMAIN log'[m] :
                     /\ After(m, i)' = ApplyVerified(log'[m][i].event.parent, log'[m][i].event.kind)
                     /\ Sequence(log'[m][i].event.parent) = i - 1
                     /\ Certified(log'[m][i].event, log'[m][i].signers)
                     /\ log'[m][i].signers \subseteq Voted(log'[m][i].event)
    <3>1. state'[m] = state[m] /\ log'[m] = log[m]
      BY <1>4, <2>1, Zenon
    <3>2. \A i : After(m, i)' = After(m, i)
      BY <3>1 DEF After
    <3> QED BY <3>1, <3>2 DEF Core, Replayed
  <2>2. \A i \in 0 .. L : After(n, i)' = After(n, i)
    <3>1. \A i \in 0 .. L : i # L + 1 /\ (i # L => i + 1 \in 1 .. L)
      BY <1>2
    <3>2. \A i \in 1 .. L : log'[n][i].event.parent = log[n][i].event.parent
      BY <1>3, Zenon
    <3>3. Len(log'[n]) = L + 1 /\ Len(log[n]) = L /\ log'[n][L + 1].event.parent = state[n]
      BY <1>1, <1>2, <1>3, Zenon
    <3> QED BY <3>1, <3>2, <3>3, Zenon DEF After
  <2>3. After(n, L + 1)' = ApplyVerified(c.event.parent, c.event.kind)
    BY <1>1, <1>3, Zenon DEF After
  <2>4. After(n, 0)' = NewGuild
    BY <1>2, <2>2, SMTT(30) DEF Core, Replayed
  <2>5. ASSUME NEW i \in 1 .. L
        PROVE  /\ After(n, i)' = ApplyVerified(log'[n][i].event.parent, log'[n][i].event.kind)
               /\ Sequence(log'[n][i].event.parent) = i - 1
               /\ Certified(log'[n][i].event, log'[n][i].signers)
               /\ log'[n][i].signers \subseteq Voted(log'[n][i].event)
    <3>1. log'[n][i] = log[n][i] /\ i \in DOMAIN log[n]
      BY <1>3
    <3>2. After(n, i)' = After(n, i)
      BY <1>2, <2>2
    <3> QED BY <3>1, <3>2, Zenon DEF Core, Replayed
  <2>6. /\ Sequence(c.event.parent) = (L + 1) - 1
        /\ Certified(c.event, c.signers)
    <3>1. Certified(c.event, c.signers)
      BY <1>1, Zenon DEF Certified
    <3>2. Sequence(c.event.parent) = L /\ L = (L + 1) - 1
      BY <1>1, <1>5
    <3> QED BY <3>1, <3>2, Zenon
  <2>7. \A i \in 1 .. L + 1 : i \in 1 .. L \/ i = L + 1
    BY <1>2, SMTT(30)
  <2>8. ASSUME NEW i \in DOMAIN log'[n]
        PROVE  /\ After(n, i)' = ApplyVerified(log'[n][i].event.parent, log'[n][i].event.kind)
               /\ Sequence(log'[n][i].event.parent) = i - 1
               /\ Certified(log'[n][i].event, log'[n][i].signers)
               /\ log'[n][i].signers \subseteq Voted(log'[n][i].event)
    <3>1. CASE i \in 1 .. L
      BY <2>5, <3>1, Zenon
    <3>2. CASE i = L + 1
      BY <1>3, <2>3, <2>6, <3>2, Zenon
    <3> QED BY <1>3, <2>7, <3>1, <3>2, Zenon
  <2>9. Sequence(state'[n]) = Len(log'[n])
    BY <1>3, <1>5, Zenon
  <2> QED BY <2>1, <2>4, <2>8, <2>9, ZenonT(30) DEF Replayed, Certified, Voted
<1>9. SignaturesAreVotes'
  <2>1. \A d \in certificates' : d.signers \subseteq Voted(d.event)'
    BY <1>6 DEF Core, SignaturesAreVotes
  <2>2. \A m \in Nodes : \A t \in tasks'[m] : t.signatures \subseteq Voted(t.event)'
    BY <1>6 DEF Core, SignaturesAreVotes
  <2>3. ASSUME NEW m \in Nodes
        PROVE  /\ NextLocks(m)' = {} => partial'[m] = {}
               /\ \A f \in NextLocks(m)' : partial'[m] \subseteq Voted(f)'
    <3>1. CASE m = n
      BY <1>1, <1>2, <3>1, Zenon
    <3>2. CASE m # n
      <4>1. NextLocks(m)' = NextLocks(m)
        BY <1>4, <3>2, Zenon DEF NextLocks, LocksAt
      <4> QED BY <1>4, <1>6, <3>2, <4>1, Zenon DEF Core, SignaturesAreVotes
    <3> QED BY <3>1, <3>2, Zenon
  <2> QED BY <2>1, <2>2, <2>3, Zenon DEF SignaturesAreVotes
<1>10. StatesValid'
  <2>1. ASSUME NEW m \in Nodes PROVE Valid(state'[m])
    BY <1>4, <1>5, Zenon DEF Core, StatesValid
  <2>2. ASSUME NEW m \in Nodes, NEW i \in DOMAIN log'[m] PROVE Valid(log'[m][i].event.parent)
    <3>1. CASE m # n
      BY <1>4, <3>1, Zenon DEF Core, StatesValid
    <3>2. CASE m = n /\ i \in 1 .. L
      BY <1>3, <3>2, Zenon DEF Core, StatesValid
    <3>3. CASE m = n /\ i = L + 1
      BY <1>1, <1>3, <1>5, <3>3, Zenon
    <3>4. \A j \in 1 .. L + 1 : j \in 1 .. L \/ j = L + 1
      BY <1>2, SMTT(30)
    <3> QED BY <1>3, <3>1, <3>2, <3>3, <3>4, Zenon
  <2> QED BY <2>1, <2>2, Zenon DEF StatesValid
<1>11. ASSUME NEW m \in Nodes, m # n, L + 1 \in DOMAIN log[m]
       PROVE  log[m][L + 1].event = c.event
  <2> DEFINE f == log[m][L + 1].event
  <2>1. log[m] \in Seq(Certificates) /\ Len(log[m]) \in Nat /\ L < Len(log[m])
    BY <1>2, <1>11, SMTT(30)
  <2>2. f.parent = After(m, L)
    BY <1>2, <2>1, SMTT(30) DEF After
  <2>3. After(n, L) = state[n]
    BY <1>2 DEF After
  <2>4. After(m, L) = After(n, L)
    <3>1. CASE L = 0
      BY <3>1, Zenon DEF Core, Replayed
    <3>2. CASE L # 0
      <4>1. L \in DOMAIN log[n] /\ L \in DOMAIN log[m]
        BY <1>2, <2>1, <3>2, SMTT(30)
      <4>2. log[n][L].event = log[m][L].event
        BY <4>1, Zenon DEF Core, Agreement
      <4>3. After(m, L) = ApplyVerified(log[m][L].event.parent, log[m][L].event.kind)
        BY <4>1, Zenon DEF Core, Replayed
      <4>4. After(n, L) = ApplyVerified(log[n][L].event.parent, log[n][L].event.kind)
        BY <4>1 DEF Core, Replayed
      <4> QED BY <4>2, <4>3, <4>4, Zenon
    <3> QED BY <3>1, <3>2, Zenon
  <2>5. f.parent = state[n]
    BY <2>2, <2>3, <2>4, Zenon
  <2>6. Certified(f, log[m][L + 1].signers) /\ log[m][L + 1].signers \subseteq Voted(f)
    BY <1>11, Zenon DEF Core, Replayed
  <2>7. Authorized(state[n], f.kind, log[m][L + 1].signers)
    BY <2>5, <2>6, Zenon DEF Certified
  <2>8. PICK v \in Nodes : v \in log[m][L + 1].signers /\ v \in c.signers
    BY <1>1, <1>2, <1>5, <2>7, CertificatesIntersect, Zenon
  <2>9. f \in lock[v] /\ c.event \in lock[v]
    BY <2>6, <2>8, Zenon DEF Voted
  <2>10. EventSequence(f) = EventSequence(c.event)
    BY <1>1, <2>5, Zenon DEF EventSequence
  <2> QED BY <2>9, <2>10, Zenon DEF Core, VoteOnce
<1>12. Agreement'
  <2> SUFFICES ASSUME NEW m \in Nodes, NEW p \in Nodes, NEW i \in DOMAIN log'[m] \cap DOMAIN log'[p]
               PROVE  log'[m][i].event = log'[p][i].event
    BY Zenon DEF Agreement
  <2>0. \A j \in 1 .. L + 1 : j \in 1 .. L \/ j = L + 1
    BY <1>2
  <2>1. CASE m = p
    BY <2>1, Zenon
  <2>2. CASE m # n /\ p # n
    <3>1. log'[m] = log[m] /\ log'[p] = log[p]
      BY <1>4, <2>2, Zenon
    <3> QED BY <3>1, SMTT(30) DEF Core, Agreement
  <2>3. CASE m = n /\ p # n
    <3>1. CASE i \in 1 .. L
      <4>1. log'[m][i] = log[n][i] /\ i \in DOMAIN log[n] /\ log'[p] = log[p]
        BY <1>3, <1>4, <2>3, <3>1, Zenon
      <4> QED BY <4>1, <2>3, SMTT(30) DEF Core, Agreement
    <3>2. CASE i = L + 1
      BY <1>3, <1>4, <1>11, <2>3, <3>2, Zenon
    <3> QED BY <1>3, <2>0, <2>3, <3>1, <3>2, Zenon
  <2>4. CASE m # n /\ p = n
    <3>1. CASE i \in 1 .. L
      <4>1. log'[p][i] = log[n][i] /\ i \in DOMAIN log[n] /\ log'[m] = log[m]
        BY <1>3, <1>4, <2>4, <3>1, Zenon
      <4> QED BY <4>1, <2>4, SMTT(30) DEF Core, Agreement
    <3>2. CASE i = L + 1
      BY <1>3, <1>4, <1>11, <2>4, <3>2, Zenon
    <3> QED BY <1>3, <2>0, <2>4, <3>1, <3>2, Zenon
  <2> QED BY <2>1, <2>2, <2>3, <2>4, Zenon
<1> QED BY <1>7, <1>8, <1>9, <1>10, <1>12, Zenon DEF Core

(* Every proposal, whoever makes it, is a commit call for a well-formed    *)
(* kind of event.                                                          *)
LEMMA ProposalsDrive ==
    ASSUME TypeOK, NEW n \in Nodes,
           \/ RegisterRecoveryKey(n) \/ RegisterWriterKey(n) \/ ActivateCodingGroup(n)
           \/ ReconcileGroupLifecycle(n) \/ Administer(n)
    PROVE  \E caller \in Callers, k \in Kinds : Drive(n, caller, k)
<1>1. /\ state[n] \in States
      /\ \A c \in KeyClasses, m \in Nodes : Len(state[n].keys[c][m]) + 1 \in Nat
      /\ Sequence(state[n]) + 1 \in Nat
  <2>1. state[n] \in States
    BY Zenon DEF TypeOK
  <2>2. \A c \in KeyClasses, m \in Nodes : Len(state[n].keys[c][m]) + 1 \in Nat
    BY <2>1 DEF States
  <2>3. Sequence(state[n]) + 1 \in Nat
    BY <2>1 DEF States, Sequence
  <2> QED BY <2>1, <2>2, <2>3
<1>2. CASE RegisterRecoveryKey(n)
  <2>1. PICK b \in KeyBytes : Drive(n, "reconcile", RotateKey("recovery", n, Len(state[n].keys["recovery"][n]) + 1, b))
    BY <1>2, Zenon DEF RegisterRecoveryKey
  <2>2. RotateKey("recovery", n, Len(state[n].keys["recovery"][n]) + 1, b) \in Kinds
    BY <1>1, Zenon DEF RotateKey, Kinds, KeyClasses
  <2> QED BY <2>1, <2>2, Zenon DEF Callers
<1>3. CASE RegisterWriterKey(n)
  <2>1. PICK job \in claimed[n] : Drive(n, "backup", WriterKeyOf(job))
    BY <1>3 DEF RegisterWriterKey
  <2>2. job.owner \in Nodes /\ job.epoch \in Nat /\ job.bytes \in KeyBytes
    BY SMTT(30) DEF TypeOK, BackupJobs
  <2>3. WriterKeyOf(job) \in Kinds
    BY <1>1, <2>2, Zenon DEF WriterKeyOf, RotateKey, Kinds, KeyClasses
  <2> QED BY <2>1, <2>3, Zenon DEF Callers
<1>4. CASE ActivateCodingGroup(n)
  <2>1. PICK g \in jobs[n] : Drive(n, "coding", AddCodingGroup(g))
    BY <1>4, Zenon DEF ActivateCodingGroup
  <2>2. AddCodingGroup(g) \in Kinds
    BY DEF TypeOK, AddCodingGroup, Kinds
  <2> QED BY <2>1, <2>2, Zenon DEF Callers
<1>5. CASE ReconcileGroupLifecycle(n)
  <2>1. PICK g \in Retained(state[n]) :
          \E k \in {ForgetCodingGroup(g), RetireCodingGroup(g, Sequence(state[n]) + 1)} : Drive(n, "reconcile", k)
    BY <1>5 DEF ReconcileGroupLifecycle
  <2>2. g \in Groups
    BY Zenon DEF Retained
  <2>3. ForgetCodingGroup(g) \in Kinds /\ RetireCodingGroup(g, Sequence(state[n]) + 1) \in Kinds
    BY <1>1, <2>2, Zenon DEF ForgetCodingGroup, RetireCodingGroup, Kinds
  <2> QED BY <2>1, <2>3, ZenonT(30) DEF Callers
<1>6. CASE Administer(n)
  <2>1. PICK k \in OperatorKind(state[n], n) : Drive(n, "operator", k)
    BY <1>6 DEF Administer
  <2>2. \A m \in Nodes : /\ RemoveMember(m) \in Kinds
                         /\ \A d \in Domains : RelabelMember(m, d) \in Kinds
                         /\ \A e \in 1 .. MaxSequence : RevokeKey("recovery", m, e) \in Kinds
    <3> SUFFICES ASSUME NEW m \in Nodes
                 PROVE  /\ RemoveMember(m) \in Kinds
                        /\ \A d \in Domains : RelabelMember(m, d) \in Kinds
                        /\ \A e \in 1 .. MaxSequence : RevokeKey("recovery", m, e) \in Kinds
      BY Zenon
    <3>1. RemoveMember(m) \in Kinds
      BY Zenon DEF RemoveMember, Kinds
    <3>2. \A d \in Domains : RelabelMember(m, d) \in Kinds
      BY Zenon DEF RelabelMember, Kinds
    <3>3. \A e \in 1 .. MaxSequence : RevokeKey("recovery", m, e) \in Kinds
      BY LogAssumption, SMTT(30) DEF RevokeKey, Kinds, KeyClasses
    <3> QED BY <3>1, <3>2, <3>3, Zenon
  <2>3. \A q \in Policies : SetQuorum(q) \in Kinds
    BY Zenon DEF SetQuorum, Kinds
  <2>4. \A b \in KeyBytes : RotateKey("recovery", n, Len(state[n].keys["recovery"][n]) + 1, b) \in Kinds
    BY <1>1, Zenon DEF RotateKey, Kinds, KeyClasses
  <2>5. k \in Kinds
    BY <2>1, <2>2, <2>3, <2>4, SMTT(30) DEF OperatorKind
  <2> QED BY <2>1, <2>5, Zenon DEF Callers
<1> QED BY <1>2, <1>3, <1>4, <1>5, <1>6, Zenon

(* A proposer's first step: the lock, and a call without signatures yet.   *)
LEMMA DriveStep ==
    ASSUME TypeOK, Core, NEW n \in Nodes, NEW caller \in Callers, NEW k \in Kinds, Drive(n, caller, k)
    PROVE  TypeOK' /\ Core'
<1> DEFINE e == Event(state[n], k)
           t == [caller |-> caller, event |-> e, signatures |-> {}]
<1>1. e \in Events
  BY Zenon DEF TypeOK, Event, Events
<1>2. t \in [caller : Callers, event : Events, signatures : SUBSET Nodes]
  BY <1>1, Zenon
<1>3. /\ Sign(n, e)
      /\ tasks' = [tasks EXCEPT ![n] = @ \cup {t}]
      /\ UNCHANGED <<state, log, partial, jobs, backups, claimed, running, asked, certificates, interruptions, losses>>
  BY Zenon DEF Drive
<1> HIDE DEF e, t
<1>4. TypeOK'
  BY <1>1, <1>2, <1>3, Zenon DEF TypeOK, Sign
<1>5. t.signatures = {} /\ DOMAIN tasks = Nodes
  BY DEF t, TypeOK
<1>6. \A m \in Nodes : \A u \in tasks'[m] : u \in tasks[m] \/ u.signatures = {}
  BY <1>3, <1>5, Zenon
<1>7. Core'
  BY <1>1, <1>3, <1>6, SignStep, Zenon
<1> QED BY <1>4, <1>7, Zenon

(* Installing keeps the types. *)
LEMMA InstallTyped ==
    ASSUME TypeOK, NEW n \in Nodes, NEW c \in Certificates, Install(n, c)
    PROVE  /\ state' \in [Nodes -> States]
           /\ log' \in [Nodes -> Seq(Certificates)]
           /\ partial' \in [Nodes -> SUBSET Nodes]
<1>1. state[n] \in States /\ c.event.kind \in Kinds /\ Admissible(state[n], c.event.kind)
  BY DEF TypeOK, Certificates, Events, Install, Installable, ValidProposal
<1>2. ApplyVerified(state[n], c.event.kind) \in States
  BY <1>1, ApplyTyped
<1>3. Append(log[n], c) \in Seq(Certificates)
  BY DEF TypeOK
<1> QED BY <1>2, <1>3, Zenon DEF TypeOK, Install

(* The end of a commit call, by installation or because the very           *)
(* certificate is installed already.                                       *)
LEMMA FinishStep ==
    ASSUME TypeOK, Core, NEW n \in Nodes, NEW t \in tasks[n], Finish(n, t)
    PROVE  TypeOK' /\ Core'
<1> DEFINE c == [event |-> t.event, signers |-> t.signatures]
<1>1. t.event \in Events /\ t.signatures \in SUBSET Nodes
  BY SMTT(30) DEF TypeOK
<1>2. c \in Certificates /\ c.event = t.event /\ c.signers = t.signatures
  BY <1>1, Zenon DEF Certificates
<1>3. c.signers \subseteq Voted(c.event)
  BY <1>2, Zenon DEF Core, SignaturesAreVotes
<1>4. /\ tasks' = [tasks EXCEPT ![n] = @ \ {t}]
      /\ certificates' = certificates \cup {c}
      /\ UNCHANGED <<lock, jobs, backups, claimed, running, asked, interruptions, losses>>
      /\ Install(n, c) \/ (AlreadyInstalled(n, c) /\ UNCHANGED <<state, log, partial>>)
  BY Zenon DEF Finish
<1> HIDE DEF c
<1>5. /\ \A m \in Nodes : tasks'[m] \subseteq tasks[m]
      /\ tasks' \in [Nodes -> SUBSET [caller : Callers, event : Events, signatures : SUBSET Nodes]]
      /\ certificates' \in SUBSET Certificates
  BY <1>2, <1>4, Zenon DEF TypeOK
<1>6. CASE Install(n, c)
  BY <1>2, <1>3, <1>4, <1>5, <1>6, InstallTyped, InstallStep, ZenonT(30) DEF TypeOK
<1>7. CASE UNCHANGED <<state, log, partial>>
  <2>1. TypeOK'
    BY <1>4, <1>5, <1>7, Zenon DEF TypeOK
  <2>2. /\ state' = state /\ log' = log /\ partial' = partial
        /\ lock' = lock
    BY <1>4, <1>7
  <2>3. VoteOnce'
    BY <2>2, Zenon DEF Core, VoteOnce
  <2>4. Replayed'
    BY <2>2, ZenonT(30) DEF Core, Replayed, After, Voted
  <2>5. StatesValid' /\ Agreement'
    BY <2>2, Zenon DEF Core, StatesValid, Agreement
  <2>6. SignaturesAreVotes'
    <3>1. \A f : Voted(f)' = Voted(f)
      BY <2>2 DEF Voted
    <3>2. \A m \in Nodes : NextLocks(m)' = NextLocks(m)
      BY <2>2, Zenon DEF NextLocks, LocksAt
    <3>3. \A d \in certificates' : d.signers \subseteq Voted(d.event)'
      BY <1>3, <1>4, <3>1, Zenon DEF Core, SignaturesAreVotes
    <3>4. ASSUME NEW m \in Nodes, NEW u \in tasks'[m] PROVE u.signatures \subseteq Voted(u.event)'
      BY <1>5, <3>1, Zenon DEF Core, SignaturesAreVotes
    <3>5. ASSUME NEW m \in Nodes
          PROVE  /\ NextLocks(m)' = {} => partial'[m] = {}
                 /\ \A f \in NextLocks(m)' : partial'[m] \subseteq Voted(f)'
      BY <2>2, <3>1, <3>2, Zenon DEF Core, SignaturesAreVotes
    <3> QED BY <3>3, <3>4, <3>5 DEF SignaturesAreVotes
  <2> QED BY <2>1, <2>3, <2>4, <2>5, <2>6, Zenon DEF Core
<1> QED BY <1>4, <1>6, <1>7, Zenon

(* A step that leaves histories and votes alone and starts no call. *)
LEMMA Bookkeeping ==
    ASSUME TypeOK, Core, NEW n \in Nodes,
           \/ SubmitBackup(n) \/ ClaimBackup(n) \/ EndBackup(n) \/ QueueActivation(n)
           \/ EndActivation(n) \/ Crash(n) \/ (\E t \in tasks[n] : Abandon(n, t))
    PROVE  TypeOK' /\ Core'
<1> DEFINE Quiet == /\ UNCHANGED <<state, log, lock, partial, certificates>>
                    /\ \A m \in Nodes : tasks'[m] \subseteq tasks[m]
<1>1. Quiet
  <2>1. ASSUME UNCHANGED <<state, log, lock, partial, tasks, certificates>> PROVE Quiet
    BY <2>1, Zenon
  <2>2. CASE SubmitBackup(n) \/ QueueActivation(n) \/ EndActivation(n)
    BY <2>1, <2>2, Zenon DEF SubmitBackup, QueueActivation, EndActivation
  <2>3. CASE ClaimBackup(n)
    BY <2>1, <2>3, ZenonT(30) DEF ClaimBackup, Claim
  <2>4. CASE EndBackup(n)
    BY <2>1, <2>4, Zenon DEF EndBackup
  <2>5. CASE Crash(n)
    BY <2>5 DEF Crash, TypeOK
  <2>6. CASE \E t \in tasks[n] : Abandon(n, t)
    <3>1. PICK t \in tasks[n] : Abandon(n, t)
      BY <2>6
    <3>2. DOMAIN tasks = Nodes
      BY Zenon DEF TypeOK
    <3>3. tasks' = [tasks EXCEPT ![n] = @ \ {t}] /\ UNCHANGED <<state, log, lock, partial, certificates>>
      BY <3>1, Zenon DEF Abandon
    <3> QED BY <3>2, <3>3, Zenon
  <2> QED BY <2>2, <2>3, <2>4, <2>5, <2>6, Zenon
<1>2. CASE SubmitBackup(n)
  <2>1. PICK owner \in Active(state[n]), epoch \in 1 .. MaxWriterEpoch, b \in KeyBytes :
          /\ backups' = [backups EXCEPT ![n] = @ \cup {[owner |-> owner, epoch |-> epoch, bytes |-> b]}]
          /\ UNCHANGED <<state, log, lock, partial, jobs, claimed, running, tasks, asked, certificates, interruptions, losses>>
    BY <1>2, ZenonT(30) DEF SubmitBackup
  <2>2. owner \in Nodes /\ epoch \in Nat
    BY LogAssumption DEF Active, Known
  <2>3. [owner |-> owner, epoch |-> epoch, bytes |-> b] \in BackupJobs
    BY <2>2, Zenon DEF BackupJobs
  <2>4. backups' \in [Nodes -> SUBSET BackupJobs]
    BY <2>1, <2>3, Zenon DEF TypeOK
  <2>5. TypeOK'
    BY <2>1, <2>4, ZenonT(30) DEF TypeOK
  <2> QED BY <1>1, <2>5, QuietStep, ZenonT(30)
<1>3. CASE ClaimBackup(n)
  <2>1. PICK job \in backups[n] : Claim(n, job)
    BY <1>3, Zenon DEF ClaimBackup
  <2>2. job \in BackupJobs
    BY Zenon DEF TypeOK
  <2>3. /\ claimed' \in [Nodes -> SUBSET BackupJobs]
        /\ running' \in [Nodes -> SUBSET BackupJobs]
    BY <2>1, <2>2, Zenon DEF TypeOK, Claim
  <2>4. TypeOK'
    BY <2>1, <2>3, Zenon DEF TypeOK, Claim
  <2> QED BY <1>1, <2>4, QuietStep, ZenonT(30)
<1>4. CASE EndBackup(n)
  <2>1. PICK job \in claimed[n] :
          /\ claimed' = [claimed EXCEPT ![n] = {}]
          /\ running' = [running EXCEPT ![n] = @ \ {job}]
          /\ \E left \in SUBSET backups[n] : backups' = [backups EXCEPT ![n] = left]
          /\ UNCHANGED <<state, log, lock, partial, jobs, tasks, asked, certificates, interruptions, losses>>
    BY <1>4, Zenon DEF EndBackup
  <2>2. /\ claimed' \in [Nodes -> SUBSET BackupJobs]
        /\ running' \in [Nodes -> SUBSET BackupJobs]
    BY <2>1, Zenon DEF TypeOK
  <2>3. backups' \in [Nodes -> SUBSET BackupJobs]
    <3>1. PICK left \in SUBSET backups[n] : backups' = [backups EXCEPT ![n] = left]
      BY <2>1, Zenon
    <3>2. left \subseteq BackupJobs
      BY <3>1, Zenon DEF TypeOK
    <3> QED BY <3>1, <3>2, Zenon DEF TypeOK
  <2>4. TypeOK'
    BY <2>1, <2>2, <2>3, Zenon DEF TypeOK
  <2> QED BY <1>1, <2>4, QuietStep, Zenon
<1>5. CASE QueueActivation(n)
  <2>1. PICK g \in Groups :
          /\ jobs' = [jobs EXCEPT ![n] = @ \cup {g}]
          /\ UNCHANGED <<state, log, lock, partial, backups, claimed, running, tasks, asked, certificates, interruptions, losses>>
    BY <1>5, Zenon DEF QueueActivation
  <2>2. jobs' \in [Nodes -> SUBSET Groups]
    BY <2>1, Zenon DEF TypeOK
  <2>3. TypeOK'
    BY <2>1, <2>2, Zenon DEF TypeOK
  <2> QED BY <1>1, <2>3, QuietStep, ZenonT(30)
<1>6. CASE EndActivation(n)
  <2>1. PICK g \in jobs[n] :
          /\ jobs' = [jobs EXCEPT ![n] = @ \ {g}]
          /\ UNCHANGED <<state, log, lock, partial, backups, claimed, running, tasks, asked, certificates, interruptions, losses>>
    BY <1>6, Zenon DEF EndActivation
  <2>2. jobs' \in [Nodes -> SUBSET Groups]
    BY <2>1, Zenon DEF TypeOK
  <2>3. TypeOK'
    BY <2>1, <2>2, Zenon DEF TypeOK
  <2> QED BY <1>1, <2>3, QuietStep, Zenon
<1>7. CASE Crash(n)
  <2>1. /\ tasks' \in [Nodes -> SUBSET [caller : Callers, event : Events, signatures : SUBSET Nodes]]
        /\ claimed' \in [Nodes -> SUBSET BackupJobs]
        /\ interruptions' \in Nat
    <3>1. /\ tasks' = [tasks EXCEPT ![n] = {}] /\ claimed' = [claimed EXCEPT ![n] = {}]
          /\ interruptions' = interruptions + 1
      BY <1>7, Zenon DEF Crash
    <3> QED BY <3>1, SMTT(30) DEF TypeOK
  <2>0. UNCHANGED <<state, log, lock, partial, jobs, backups, running, asked, certificates, losses>>
    BY <1>7, Zenon DEF Crash
  <2>2. TypeOK'
    BY <2>0, <2>1, Zenon DEF TypeOK
  <2> QED BY <1>1, <2>2, QuietStep, Zenon
<1>8. CASE \E t \in tasks[n] : Abandon(n, t)
  <2>1. PICK t \in tasks[n] : Abandon(n, t)
    BY <1>8
  <2>2. tasks' \in [Nodes -> SUBSET [caller : Callers, event : Events, signatures : SUBSET Nodes]]
    BY <2>1, Zenon DEF TypeOK, Abandon
  <2>3. interruptions' = interruptions \/ interruptions' = interruptions + 1
    BY <2>1, Zenon DEF Abandon
  <2>4. /\ claimed' \in [Nodes -> SUBSET BackupJobs]
        /\ running' \in [Nodes -> SUBSET BackupJobs]
    BY <2>1, Zenon DEF TypeOK, Abandon
  <2>5. UNCHANGED <<state, log, lock, partial, jobs, backups, asked, certificates, losses>>
    BY <2>1, Zenon DEF Abandon
  <2>6. interruptions' \in Nat
    BY <2>3, SMTT(30) DEF TypeOK
  <2>7. TypeOK'
    BY <2>2, <2>4, <2>5, <2>6, Zenon DEF TypeOK
  <2> QED BY <1>1, <2>7, QuietStep, ZenonT(30)
<1> QED BY <1>2, <1>3, <1>4, <1>5, <1>6, <1>7, <1>8, Zenon

(* The next-state relation without the loss of a disk, one case per kind   *)
(* of step.                                                                *)
LEMMA NextStep ==
    ASSUME TypeOK, Core, Next, MaxLosses = 0 \/ Background
    PROVE  TypeOK' /\ Core'
<1>1. PICK n \in Nodes :
        \/ ReconcileLoop(n) \/ BackupLoop(n) \/ CodingLoop(n)
        \/ Administer(n) \/ Progress(n, "operator")
        \/ SubmitBackup(n) \/ QueueActivation(n) \/ Serve(n)
        \/ \E c \in certificates : InstallPushed(n, c)
        \/ Crash(n) \/ (\E t \in tasks[n] : Abandon(n, t))
  <2>1. CASE Background
    BY <2>1, Zenon DEF Background
  <2>2. CASE MaxLosses = 0
    <3>1. ~(losses < MaxLosses)
      BY <2>2 DEF TypeOK
    <3>2. \A n, p \in Nodes : ~RecoverFromSeed(n, p)
      BY <3>1 DEF RecoverFromSeed
    <3> QED BY <3>2 DEF Next, Background
  <2> QED BY <2>1, <2>2, ZenonT(30)
<1>2. CASE \/ RegisterRecoveryKey(n) \/ RegisterWriterKey(n) \/ ActivateCodingGroup(n)
           \/ ReconcileGroupLifecycle(n) \/ Administer(n)
  BY <1>2, ProposalsDrive, DriveStep
<1>3. CASE \E p \in Nodes : PullTail(n, p)
  <2>1. PICK p \in Nodes : PullTail(n, p)
    BY <1>3, Zenon
  <2> DEFINE i == Sequence(state[n]) + 1
             c == log[p][i]
  <2>2. i \in DOMAIN log[p] /\ Install(n, c)
        /\ UNCHANGED <<lock, jobs, backups, claimed, running, tasks, asked, certificates, interruptions, losses>>
    BY <2>1, Zenon DEF PullTail
  <2>3. c \in Certificates
    BY <2>2, SMTT(30) DEF TypeOK
  <2>4. c.signers \subseteq Voted(c.event)
    BY <2>2, Zenon DEF Core, Replayed
  <2> HIDE DEF c, i
  <2>5. TypeOK'
    BY <2>2, <2>3, InstallTyped, Zenon DEF TypeOK
  <2>6. Core'
    BY <2>2, <2>3, <2>4, InstallStep, Zenon
  <2> QED BY <2>5, <2>6
<1>4. CASE \E c \in certificates : InstallPushed(n, c)
  <2>1. PICK c \in certificates : InstallPushed(n, c)
    BY <1>4, ZenonT(30)
  <2>2. c \in Certificates /\ c.signers \subseteq Voted(c.event)
    BY DEF TypeOK, Core, SignaturesAreVotes
  <2>3. /\ Install(n, c)
        /\ UNCHANGED <<lock, jobs, backups, claimed, running, tasks, asked, certificates, interruptions, losses>>
    BY <2>1, Zenon DEF InstallPushed
  <2>4. TypeOK'
    BY <2>2, <2>3, InstallTyped, ZenonT(30) DEF TypeOK
  <2>5. Core'
    BY <2>2, <2>3, InstallStep, Zenon
  <2> QED BY <2>4, <2>5
<1>5. CASE \E t \in tasks[n] : Finish(n, t)
  BY <1>5, FinishStep, Zenon
<1>6. CASE \E t \in tasks[n], m \in Nodes : Collect(n, m, t)
  <2>1. PICK t \in tasks[n], m \in Nodes : Collect(n, m, t)
    BY <1>6, Zenon
  <2> DEFINE new == [caller |-> t.caller, event |-> t.event, signatures |-> partial[n] \cup {m}]
  <2>2. t.caller \in Callers /\ t.event \in Events /\ partial[n] \cup {m} \in SUBSET Nodes
    BY SMTT(30) DEF TypeOK
  <2>3. new \in [caller : Callers, event : Events, signatures : SUBSET Nodes]
    BY <2>2, Zenon
  <2>4. /\ partial' = [partial EXCEPT ![n] = @ \cup {m}]
        /\ tasks' = [tasks EXCEPT ![n] = (@ \ {t}) \cup {new}]
        /\ asked' = asked \cup {t.event}
        /\ UNCHANGED <<state, log, lock, jobs, backups, claimed, running, certificates, interruptions, losses>>
    BY <2>1, Zenon DEF Collect
  <2> HIDE DEF new
  <2>5. TypeOK'
    BY <2>2, <2>3, <2>4, Zenon DEF TypeOK
  <2> QED BY <2>1, <2>5, CollectStep, Zenon
<1>7. CASE Serve(n)
  <2>1. PICK e \in asked : AnswerSignRequest(n, e)
    BY <1>7 DEF Serve
  <2>2. e \in Events
    BY Zenon DEF TypeOK
  <2>3. /\ Sign(n, e)
        /\ UNCHANGED <<state, log, partial, jobs, backups, claimed, running, tasks, asked, certificates, interruptions, losses>>
    BY <2>1, Zenon DEF AnswerSignRequest
  <2>4. TypeOK'
    BY <2>2, <2>3, Zenon DEF TypeOK, Sign
  <2> QED BY <2>2, <2>3, <2>4, SignStep, Zenon
<1>8. CASE \/ SubmitBackup(n) \/ ClaimBackup(n) \/ EndBackup(n) \/ QueueActivation(n)
           \/ EndActivation(n) \/ Crash(n) \/ (\E t \in tasks[n] : Abandon(n, t))
  BY <1>8, Bookkeeping, Zenon
<1> QED
  BY <1>1, <1>2, <1>3, <1>4, <1>5, <1>6, <1>7, <1>8, ZenonT(30)
     DEF ReconcileLoop, BackupLoop, CodingLoop, Progress

(* The members of a new guild start with the invariant. *)
LEMMA InitStep ==
    ASSUME Init
    PROVE  TypeOK /\ Core
<1>1. TypeOK
  BY NewGuildTyped DEF Init, TypeOK
<1>2. Core
  <2>1. \A n \in Nodes : log[n] = << >> /\ state[n] = NewGuild /\ Sequence(state[n]) = 0
    BY Zenon DEF Init, Sequence, NewGuild
  <2>2. VoteOnce /\ SignaturesAreVotes /\ Agreement
    BY <2>1, Zenon DEF Init, VoteOnce, SignaturesAreVotes, Agreement, NextLocks, LocksAt
  <2>3. Replayed
    <3>0. Len(<< >>) = 0 /\ DOMAIN << >> = {}
      OBVIOUS
    <3>1. ASSUME NEW n \in Nodes PROVE Len(log[n]) = 0 /\ DOMAIN log[n] = {}
      <4>1. log[n] = << >>
        BY <2>1
      <4> QED BY <3>0, <4>1, Zenon
    <3> QED BY <2>1, <3>1 DEF Replayed, After
  <2>4. StatesValid
    BY <2>1, NewGuildValid, SMTT(30) DEF StatesValid
  <2> QED BY <2>2, <2>3, <2>4, Zenon DEF Core
<1> QED BY <1>1, <1>2, Zenon

(* A step of something else keeps it. *)
LEMMA StutterStep ==
    ASSUME TypeOK, Core, UNCHANGED vars
    PROVE  TypeOK' /\ Core'
<1>1. TypeOK'
  BY DEF vars, TypeOK
<1> QED BY <1>1, QuietStep, Zenon DEF vars

(* As long as no member loses its disk, the inductive invariant holds in   *)
(* every behaviour: votes are unique per sequence number, states are       *)
(* replays of certified logs, and every signature in flight is a vote.     *)
THEOREM LogInvariantHolds == MaxLosses = 0 => (Spec => []LogInvariant)
<1> SUFFICES ASSUME MaxLosses = 0 PROVE Spec => []LogInvariant
  OBVIOUS
<1>1. Init => LogInvariant
  BY InitStep DEF LogInvariant, Core
<1>2. LogInvariant /\ [Next]_vars => LogInvariant'
  BY NextStep, StutterStep DEF LogInvariant, Core
<1> QED BY <1>1, <1>2, PTL DEF Spec

(* The installed histories never diverge, for any number of members, any   *)
(* quorum policy the guild may adopt and any interleaving of proposals,    *)
(* retries, crashes, late certificates and membership changes.             *)
THEOREM AgreementHolds == MaxLosses = 0 => (Spec => []Agreement)
<1>1. LogInvariant => Agreement
  BY DEF LogInvariant
<1> QED BY <1>1, LogInvariantHolds, PTL

-----------------------------------------------------------------------------
(* The abstract specification speaks of its own copy of GuildState; it is  *)
(* the same algebra.                                                       *)

(* Both read the same members and groups from a state. *)
LEMMA SameViews ==
    ASSUME NEW s
    PROVE  /\ Abstract!Sequence(s) = Sequence(s)
           /\ Abstract!Known(s) = Known(s)
           /\ Abstract!Active(s) = Active(s)
           /\ Abstract!Retained(s) = Retained(s)
<1>1. Abstract!Sequence(s) = Sequence(s)
  BY DEF Abstract!Sequence, Sequence
<1>2. Abstract!Absent = Absent
  BY DEF Abstract!Absent, Absent
<1>3. Abstract!Known(s) = Known(s)
  BY <1>2 DEF Abstract!Known, Known
<1>4. Abstract!Active(s) = Active(s)
  BY <1>3 DEF Abstract!Active, Active
<1>5. Abstract!Retained(s) = Retained(s)
  BY <1>2 DEF Abstract!Retained, Retained
<1> QED BY <1>1, <1>3, <1>4, <1>5

(* Cardinality counts the same in both. *)
LEMMA SameCardinality ==
    ASSUME NEW S
    PROVE  Abstract!Cardinality(S) = Cardinality(S)
BY DEF Abstract!Cardinality, Cardinality

(* Both judge policies and key epochs alike. *)
LEMMA SameOperators ==
    /\ \A p, n : Abstract!Satisfiable(p, n) <=> Satisfiable(p, n)
    /\ \A e, a, t : Abstract!WithinOrNone(e, a, t) <=> WithinOrNone(e, a, t)
    /\ Abstract!KeyClasses = KeyClasses
<1>1. \A p, n : Abstract!Required(p, n) = Required(p, n)
  BY DEF Abstract!Required, Required
<1>2. \A p, n : Abstract!Satisfiable(p, n) <=> Satisfiable(p, n)
  BY <1>1 DEF Abstract!Satisfiable, Satisfiable
<1>3. \A e, a, t : Abstract!WithinOrNone(e, a, t) <=> WithinOrNone(e, a, t)
  BY DEF Abstract!WithinOrNone, WithinOrNone
<1>4. Abstract!KeyClasses = KeyClasses
  BY DEF Abstract!KeyClasses, KeyClasses
<1> QED BY <1>2, <1>3, <1>4

(* Both accept the same states (DynamicGuildState::validate). *)
LEMMA SameValid ==
    ASSUME NEW s
    PROVE  Abstract!Valid(s) <=> Valid(s)
<1>1. Abstract!Satisfiable(s.quorum, Abstract!Cardinality(Abstract!Active(s)))
      <=> Satisfiable(s.quorum, Cardinality(Active(s)))
  BY SameViews, SameOperators, SameCardinality
<1> QED BY <1>1, SameViews, SameOperators, ZenonT(30) DEF Abstract!Valid, Valid

(* Both admit the same kinds of event in a state. *)
LEMMA SameAdmissible ==
    ASSUME NEW s, NEW k
    PROVE  Abstract!Admissible(s, k) <=> Admissible(s, k)
<1>1. \A n : Abstract!MemberAddable(s, n) <=> MemberAddable(s, n)
  BY SameViews DEF Abstract!MemberAddable, MemberAddable
<1>2. \A g : Abstract!PlacementCurrent(s, g) <=> PlacementCurrent(s, g)
  BY SameViews DEF Abstract!PlacementCurrent, PlacementCurrent
<1>3. \A g : Abstract!Forgettable(s, g) <=> Forgettable(s, g)
  BY SameViews DEF Abstract!Forgettable, Forgettable
<1>4. Abstract!Satisfiable(k.policy, Abstract!Cardinality(Abstract!Active(s)))
      <=> Satisfiable(k.policy, Cardinality(Active(s)))
  BY SameViews, SameOperators, SameCardinality
<1> QED BY <1>1, <1>2, <1>3, <1>4, SameViews, Zenon DEF Abstract!Admissible, Admissible

(* apply_verified_event has the same outcome in both. *)
LEMMA SameApply ==
    ASSUME NEW s, NEW k
    PROVE  Abstract!ApplyVerified(s, k) = ApplyVerified(s, k)
<1>1. Abstract!MembersAfter(s, k) = MembersAfter(s, k)
  BY SameViews, Zenon DEF Abstract!MembersAfter, MembersAfter
<1>2. Abstract!KeysAfter(s, k) = KeysAfter(s, k)
  BY SameViews, ZenonT(30) DEF Abstract!KeysAfter, KeysAfter
<1>3. Abstract!GroupsAfter(s, k) = GroupsAfter(s, k)
  BY SameViews DEF Abstract!GroupsAfter, GroupsAfter, Abstract!Absent, Absent
<1>4. Abstract!EpochAfter(s, k) = EpochAfter(s, k)
  BY DEF Abstract!EpochAfter, EpochAfter, Abstract!MembershipTypes, MembershipTypes
<1> QED BY <1>1, <1>2, <1>3, <1>4, Zenon DEF Abstract!ApplyVerified, ApplyVerified

(* Both accept the same proposals. *)
LEMMA SameProposal ==
    ASSUME NEW s, NEW k
    PROVE  Abstract!ValidProposal(s, k) <=> ValidProposal(s, k)
BY SameValid, SameAdmissible, SameApply, Zenon DEF Abstract!ValidProposal, ValidProposal

(* Both start from the same genesis. *)
LEMMA SameNewGuild == Abstract!NewGuild = NewGuild
BY DEF Abstract!NewGuild, NewGuild, Abstract!Unanimous, Unanimous, Abstract!Absent, Absent,
       Abstract!KeyClasses, KeyClasses

-----------------------------------------------------------------------------
(* Commits of the abstract history.                                        *)

(* A proposal within the bounds of the history. *)
Bounded(e) ==
    /\ EventSequence(e) <= MaxSequence
    /\ e.kind.type = "RetireCodingGroup" => e.kind.through <= MaxSequence

(* apply_event for any kind of event that is valid in the longest history  *)
(* is a step of GuildHistory.                                              *)
LEMMA CommitIsNext ==
    ASSUME state[Longest] \in States, NEW k \in Kinds,
           ValidProposal(state[Longest], k),
           Sequence(state[Longest]) < MaxSequence,
           k.type = "RetireCodingGroup" => k.through <= MaxSequence,
           state[Longest]' = ApplyVerified(state[Longest], k)
    PROVE  Abstract!Next
<1>1. Abstract!Commit(k)
  BY SameProposal, SameApply, SameViews, Zenon DEF Abstract!Commit
<1>2. Admissible(state[Longest], k)
  BY DEF ValidProposal
<1>3. CASE k \in [type : {"AddMember"}, node : Nodes, domain : Domains]
  <2>1. k = Abstract!AddMember(k.node, k.domain)
    BY <1>3 DEF Abstract!AddMember
  <2>2. Abstract!CommitAddMember
    BY <1>1, <1>3, <2>1, Zenon DEF Abstract!CommitAddMember
  <2> QED BY <2>2 DEF Abstract!Next
<1>4. CASE k \in [type : {"RelabelMember"}, node : Nodes, domain : Domains]
  <2>1. k = Abstract!RelabelMember(k.node, k.domain)
    BY <1>4 DEF Abstract!RelabelMember
  <2>2. Abstract!CommitRelabelMember
    BY <1>1, <1>4, <2>1, Zenon DEF Abstract!CommitRelabelMember
  <2> QED BY <2>2 DEF Abstract!Next
<1>5. CASE k \in [type : {"RemoveMember"}, node : Nodes]
  <2>1. k = Abstract!RemoveMember(k.node)
    BY <1>5 DEF Abstract!RemoveMember
  <2>2. Abstract!CommitRemoveMember
    BY <1>1, <1>5, <2>1, Zenon DEF Abstract!CommitRemoveMember
  <2> QED BY <2>2 DEF Abstract!Next
<1>6. CASE k \in [type : {"SetQuorum"}, policy : Policies]
  <2>1. k = Abstract!SetQuorum(k.policy)
    BY <1>6 DEF Abstract!SetQuorum
  <2>2. Abstract!CommitSetQuorum
    BY <1>1, <1>6, <2>1, Zenon DEF Abstract!CommitSetQuorum
  <2> QED BY <2>2 DEF Abstract!Next
<1>7. CASE k \in [type : {"RotateKey"}, class : KeyClasses, node : Nodes, epoch : Nat, bytes : KeyBytes]
  <2>1. k.epoch = Len(state[Longest].keys[k.class][k.node]) + 1
    BY <1>2, <1>7, Zenon DEF Admissible
  <2>2. k = Abstract!RotateKey(k.class, k.node, Len(state[Longest].keys[k.class][k.node]) + 1, k.bytes)
    BY <1>7, <2>1, ZenonT(30) DEF Abstract!RotateKey
  <2>3. k.class \in Abstract!KeyClasses /\ k.node \in Nodes /\ k.bytes \in KeyBytes
    BY <1>7, SameOperators
  <2>4. Abstract!CommitRotateKey
    BY <1>1, <2>2, <2>3, Zenon DEF Abstract!CommitRotateKey
  <2> QED BY <2>4, Zenon DEF Abstract!Next
<1>8. CASE k \in [type : {"RevokeKey"}, class : KeyClasses, node : Nodes, epoch : Nat]
  <2>1. k.epoch \in DOMAIN state[Longest].keys[k.class][k.node]
    BY <1>2, <1>8, Zenon DEF Admissible
  <2>2. k = Abstract!RevokeKey(k.class, k.node, k.epoch)
    BY <1>8 DEF Abstract!RevokeKey
  <2>3. k.class \in Abstract!KeyClasses /\ k.node \in Nodes
    BY <1>8, SameOperators, Zenon
  <2>4. Abstract!CommitRevokeKey
    BY <1>1, <2>1, <2>2, <2>3, Zenon DEF Abstract!CommitRevokeKey
  <2> QED BY <2>4, ZenonT(30) DEF Abstract!Next
<1>9. CASE k \in [type : {"AddCodingGroup"}, group : Groups]
  <2>1. k = Abstract!AddCodingGroup(k.group)
    BY <1>9 DEF Abstract!AddCodingGroup
  <2>2. Abstract!CommitAddCodingGroup
    BY <1>1, <1>9, <2>1 DEF Abstract!CommitAddCodingGroup
  <2> QED BY <2>2 DEF Abstract!Next
<1>10. CASE k \in [type : {"ForgetCodingGroup"}, group : Groups]
  <2>1. k = Abstract!ForgetCodingGroup(k.group)
    BY <1>10 DEF Abstract!ForgetCodingGroup
  <2>2. Abstract!CommitForgetCodingGroup
    BY <1>1, <1>10, <2>1 DEF Abstract!CommitForgetCodingGroup
  <2> QED BY <2>2 DEF Abstract!Next
<1>11. CASE k \in [type : {"RetireCodingGroup"}, group : Groups, through : Nat]
  <2>1. k = Abstract!RetireCodingGroup(k.group, k.through)
    BY <1>11, ZenonT(30) DEF Abstract!RetireCodingGroup
  <2>2. k.through >= Sequence(state[Longest]) + 1 /\ Sequence(state[Longest]) \in Nat
    <3>1. k.type = "RetireCodingGroup"
      BY <1>11
    <3>2. k.through >= Sequence(state[Longest]) + 1
      BY <1>2, <3>1, Zenon DEF Admissible
    <3>3. state[Longest].history \in Seq(Kinds)
      BY Zenon DEF States
    <3> QED BY <3>2, <3>3 DEF Sequence
  <2>3. k.through \in 1 .. MaxSequence
    BY <1>11, <2>2, LogAssumption, SMTT(30)
  <2>4. Abstract!CommitRetireCodingGroup
    BY <1>1, <1>11, <2>1, <2>3, Zenon DEF Abstract!CommitRetireCodingGroup
  <2> QED BY <2>4 DEF Abstract!Next
<1> QED BY <1>3, <1>4, <1>5, <1>6, <1>7, <1>8, <1>9, <1>10, <1>11, ZenonT(30) DEF Kinds

-----------------------------------------------------------------------------
(* Votes stay within the bounds of the history.                            *)

(* Every vote, and every vote asked for, is for a bounded proposal. *)
VotesBounded ==
    /\ \A n \in Nodes : \A e \in lock[n] : Bounded(e)
    /\ \A e \in asked : Bounded(e)

(* Whoever proposes, the proposal is bounded: the only proposer of a       *)
(* retirement, reconcile_group_lifecycle, retires through the sequence     *)
(* number of the retirement itself.                                        *)
LEMMA ProposalsBounded ==
    ASSUME TypeOK, NEW n \in Nodes,
           \/ RegisterRecoveryKey(n) \/ RegisterWriterKey(n) \/ ActivateCodingGroup(n)
           \/ ReconcileGroupLifecycle(n) \/ Administer(n)
    PROVE  \E e : /\ Bounded(e)
                  /\ lock' = [lock EXCEPT ![n] = @ \cup {e}]
                  /\ UNCHANGED <<state, asked>>
<1>1. ASSUME NEW caller, NEW k, Drive(n, caller, k),
             k.type = "RetireCodingGroup" => k.through = Sequence(state[n]) + 1
      PROVE  LET e == Event(state[n], k)
             IN  /\ Bounded(e)
                 /\ lock' = [lock EXCEPT ![n] = @ \cup {e}]
                 /\ UNCHANGED <<state, asked>>
  <2>1. /\ EventSequence(Event(state[n], k)) <= MaxSequence
        /\ Sign(n, Event(state[n], k))
        /\ UNCHANGED <<state, asked>>
    BY <1>1 DEF Drive
  <2>2. Bounded(Event(state[n], k))
    BY <1>1, <2>1 DEF Bounded, Event, EventSequence
  <2> QED BY <2>1, <2>2, Zenon DEF Sign
<1>2. CASE RegisterRecoveryKey(n)
  <2>1. PICK b \in KeyBytes : Drive(n, "reconcile", RotateKey("recovery", n, Len(state[n].keys["recovery"][n]) + 1, b))
    BY <1>2 DEF RegisterRecoveryKey
  <2>2. RotateKey("recovery", n, Len(state[n].keys["recovery"][n]) + 1, b).type # "RetireCodingGroup"
    BY DEF RotateKey
  <2> QED BY <1>1, <2>1, <2>2, Zenon
<1>3. CASE RegisterWriterKey(n)
  <2>1. PICK job \in claimed[n] : Drive(n, "backup", WriterKeyOf(job))
    BY <1>3 DEF RegisterWriterKey
  <2>2. WriterKeyOf(job).type # "RetireCodingGroup"
    BY DEF WriterKeyOf, RotateKey
  <2> QED BY <1>1, <2>1, <2>2, Zenon
<1>4. CASE ActivateCodingGroup(n)
  <2>1. PICK g \in jobs[n] : Drive(n, "coding", AddCodingGroup(g))
    BY <1>4 DEF ActivateCodingGroup
  <2>2. AddCodingGroup(g).type # "RetireCodingGroup"
    BY DEF AddCodingGroup
  <2> QED BY <1>1, <2>1, <2>2, ZenonT(30)
<1>5. CASE ReconcileGroupLifecycle(n)
  <2>1. PICK g \in Retained(state[n]) :
          \E k \in {ForgetCodingGroup(g), RetireCodingGroup(g, Sequence(state[n]) + 1)} : Drive(n, "reconcile", k)
    BY <1>5 DEF ReconcileGroupLifecycle
  <2>2. /\ ForgetCodingGroup(g).type # "RetireCodingGroup"
        /\ RetireCodingGroup(g, Sequence(state[n]) + 1).through = Sequence(state[n]) + 1
    BY DEF ForgetCodingGroup, RetireCodingGroup
  <2> QED BY <1>1, <2>1, <2>2, Zenon
<1>6. CASE Administer(n)
  <2>1. PICK k \in OperatorKind(state[n], n) : Drive(n, "operator", k)
    BY <1>6, ZenonT(30) DEF Administer
  <2>2. k.type # "RetireCodingGroup"
    BY SMTT(30) DEF OperatorKind, RemoveMember, RelabelMember, SetQuorum, RevokeKey, RotateKey
  <2> QED BY <1>1, <2>1, <2>2, Zenon
<1> QED BY <1>2, <1>3, <1>4, <1>5, <1>6, Zenon

(* What a step does to the histories and to the votes: a new vote, an      *)
(* installation certified by votes, or neither.                            *)
Votes(n, e) == lock' = [lock EXCEPT ![n] = @ \cup {e}] /\ UNCHANGED <<state, asked>>

Installs(n, c) ==
    Install(n, c) /\ c.signers \subseteq Voted(c.event) /\ UNCHANGED <<lock, asked>>

Rests ==
    /\ UNCHANGED <<state, lock>>
    /\ \A e \in asked' : e \in asked \/ \E n \in Nodes : e \in lock[n]

(* Every step is one of these, as long as no member loses its disk. *)
LEMMA StepEffects ==
    ASSUME TypeOK, Core, MaxLosses = 0, Next
    PROVE  \/ \E n \in Nodes : \E e : Votes(n, e) /\ (Bounded(e) \/ e \in asked)
           \/ \E n \in Nodes, c \in Certificates : Installs(n, c)
           \/ Rests
<1>1. PICK n \in Nodes :
        \/ ReconcileLoop(n) \/ BackupLoop(n) \/ CodingLoop(n)
        \/ Administer(n) \/ Progress(n, "operator")
        \/ SubmitBackup(n) \/ QueueActivation(n) \/ Serve(n)
        \/ \E c \in certificates : InstallPushed(n, c)
        \/ Crash(n) \/ (\E t \in tasks[n] : Abandon(n, t))
        \/ \E p \in Nodes : RecoverFromSeed(n, p)
  BY DEF Next, Background
<1>2. CASE \/ RegisterRecoveryKey(n) \/ RegisterWriterKey(n) \/ ActivateCodingGroup(n)
           \/ ReconcileGroupLifecycle(n) \/ Administer(n)
  BY <1>2, ProposalsBounded DEF Votes
<1>3. CASE \E p \in Nodes : PullTail(n, p)
  <2>1. PICK p \in Nodes : PullTail(n, p)
    BY <1>3, Zenon
  <2> DEFINE i == Sequence(state[n]) + 1
             c == log[p][i]
  <2>2. i \in DOMAIN log[p] /\ Install(n, c) /\ UNCHANGED <<lock, asked>>
    BY <2>1 DEF PullTail
  <2>3. c \in Certificates
    BY <2>2, SMTT(30) DEF TypeOK
  <2>4. c.signers \subseteq Voted(c.event)
    BY <2>2 DEF Core, Replayed
  <2> HIDE DEF c, i
  <2> QED BY <2>2, <2>3, <2>4, Zenon DEF Installs
<1>4. CASE \E c \in certificates : InstallPushed(n, c)
  <2>1. PICK c \in certificates : InstallPushed(n, c)
    BY <1>4, ZenonT(30)
  <2>2. c \in Certificates /\ c.signers \subseteq Voted(c.event)
    BY DEF TypeOK, Core, SignaturesAreVotes
  <2> QED BY <2>1, <2>2, Zenon DEF InstallPushed, Installs
<1>5. CASE \E t \in tasks[n] : Finish(n, t)
  <2>1. PICK t \in tasks[n] : Finish(n, t)
    BY <1>5
  <2> DEFINE c == [event |-> t.event, signers |-> t.signatures]
  <2>2. t.event \in Events /\ t.signatures \in SUBSET Nodes
    BY DEF TypeOK
  <2>3. c \in Certificates /\ c.event = t.event /\ c.signers = t.signatures
    BY <2>2 DEF Certificates
  <2>4. c.signers \subseteq Voted(c.event)
    BY <2>3, Zenon DEF Core, SignaturesAreVotes
  <2>5. (Install(n, c) \/ UNCHANGED state) /\ UNCHANGED <<lock, asked>>
    BY <2>1 DEF Finish
  <2> HIDE DEF c
  <2> QED BY <2>3, <2>4, <2>5, ZenonT(30) DEF Installs, Rests
<1>6. CASE \E t \in tasks[n], m \in Nodes : Collect(n, m, t)
  <2>1. PICK t \in tasks[n], m \in Nodes : Collect(n, m, t)
    BY <1>6, Zenon
  <2>2. t.event \in lock[n] /\ asked' = asked \cup {t.event} /\ UNCHANGED <<state, lock>>
    BY <2>1 DEF Collect
  <2> QED BY <2>2 DEF Rests
<1>7. CASE Serve(n)
  <2>1. PICK e \in asked : AnswerSignRequest(n, e)
    BY <1>7 DEF Serve
  <2> QED BY <2>1, Zenon DEF AnswerSignRequest, Sign, Votes
<1>8. CASE SubmitBackup(n) \/ ClaimBackup(n) \/ EndBackup(n) \/ QueueActivation(n) \/ EndActivation(n)
  <2>1. UNCHANGED <<state, lock, asked>>
    BY <1>8, ZenonT(30) DEF SubmitBackup, ClaimBackup, Claim, EndBackup, QueueActivation, EndActivation
  <2> QED BY <2>1 DEF Rests
<1>9. CASE Crash(n) \/ (\E t \in tasks[n] : Abandon(n, t))
  <2>1. UNCHANGED <<state, lock, asked>>
    BY <1>9, Zenon DEF Crash, Abandon
  <2> QED BY <2>1 DEF Rests
<1>10. ~ \E p \in Nodes : RecoverFromSeed(n, p)
  <2>1. ~(losses < MaxLosses)
    BY DEF TypeOK
  <2> QED BY <2>1, Zenon DEF RecoverFromSeed
<1> QED
  BY <1>1, <1>2, <1>3, <1>4, <1>5, <1>6, <1>7, <1>8, <1>9, <1>10, ZenonT(30)
     DEF ReconcileLoop, BackupLoop, CodingLoop, Progress

-----------------------------------------------------------------------------
(* The longest history.                                                    *)

(* Any set of natural numbers that is not empty has a least element. *)
LEMMA LeastElement ==
    ASSUME NEW T \in SUBSET Nat, T # {}
    PROVE  \E x \in T : \A y \in T : x <= y
<1>1. PICK x \in T : \A y \in T : ~(<<y, x>> \in OpToRel(<, Nat))
  BY WFMin, NatLessThanWellFounded, Zenon
<1>2. \A y \in T : ~(y < x)
  BY <1>1, Zenon DEF OpToRel
<1> QED BY <1>2

(* Every member's history is within the bound: it was voted for. *)
LEMMA HistoriesBounded ==
    ASSUME TypeOK, Core, VotesBounded, NEW n \in Nodes
    PROVE  Sequence(state[n]) \in Nat /\ Sequence(state[n]) <= MaxSequence
<1>1. PICK L \in Nat : L = Len(log[n])
  BY SMTT(30) DEF TypeOK
<1>2. Sequence(state[n]) = L
  BY <1>1 DEF Core, Replayed
<1>3. CASE L = 0
  BY <1>2, <1>3, LogAssumption, SMTT(30)
<1>4. CASE L # 0
  <2> DEFINE c == log[n][L]
  <2>1. L \in DOMAIN log[n] /\ c \in Certificates
    BY <1>1, <1>4, SMTT(30) DEF TypeOK
  <2>2. c.event.parent \in States /\ Valid(c.event.parent)
    BY <2>1, Zenon DEF Certificates, Events, Core, StatesValid
  <2>3. /\ Sequence(c.event.parent) = L - 1
        /\ Authorized(c.event.parent, c.event.kind, c.signers)
        /\ c.signers \subseteq Voted(c.event)
    BY <2>1, Zenon DEF Core, Replayed, Certified
  <2>4. \E m \in Nodes : m \in c.signers
    BY <2>2, <2>3, CertificatesIntersect, ZenonT(30)
  <2>5. Bounded(c.event)
    BY <2>3, <2>4, ZenonT(30) DEF VotesBounded, Voted
  <2> QED BY <1>1, <1>2, <2>3, <2>5, SMTT(30) DEF Bounded, EventSequence
<1> QED BY <1>3, <1>4, Zenon

(* Longest is a member whose history is as long as any. *)
LEMMA LongestIsLongest ==
    TypeOK /\ Core /\ VotesBounded =>
        /\ Longest \in Nodes
        /\ \A m \in Nodes : Sequence(state[m]) <= Sequence(state[Longest])
<1> SUFFICES ASSUME TypeOK, Core, VotesBounded
             PROVE  /\ Longest \in Nodes
                    /\ \A m \in Nodes : Sequence(state[m]) <= Sequence(state[Longest])
  OBVIOUS
<1> DEFINE T == {MaxSequence - Sequence(state[m]) : m \in Nodes}
<1>1. \A m \in Nodes : Sequence(state[m]) \in Nat /\ Sequence(state[m]) <= MaxSequence
  BY HistoriesBounded
<1>2. T \in SUBSET Nat
  BY <1>1, LogAssumption, SMTT(30)
<1>3. T # {}
  BY ConstantsAssumption, ZenonT(30)
<1>4. PICK x \in T : \A y \in T : x <= y
  <2> HIDE DEF T
  <2> QED BY <1>2, <1>3, LeastElement, Zenon
<1>5. PICK n \in Nodes : x = MaxSequence - Sequence(state[n])
  OBVIOUS
<1>6. ASSUME NEW m \in Nodes PROVE Sequence(state[m]) <= Sequence(state[n])
  <2>1. x <= MaxSequence - Sequence(state[m])
    BY <1>4
  <2> HIDE DEF T
  <2> QED BY <1>1, <1>5, <2>1, LogAssumption, SMTT(30)
<1> QED BY <1>6 DEF Longest

(* Histories of the same length are the same. *)
LengthDecides ==
    \A n, m \in Nodes : Sequence(state[n]) = Sequence(state[m]) => state[n] = state[m]

(* Members that agree on every event and replay from the same NewGuild    *)
(* are in the same state after as many events.                             *)
LEMMA SameLengthSameState == TypeOK /\ Core => LengthDecides
<1> SUFFICES ASSUME TypeOK, Core, NEW n \in Nodes, NEW m \in Nodes, Sequence(state[n]) = Sequence(state[m])
             PROVE  state[n] = state[m]
  BY DEF LengthDecides
<1>1. PICK L \in Nat : L = Len(log[n])
  BY SMTT(30) DEF TypeOK
<1>2. Len(log[n]) = L /\ Len(log[m]) = L
  BY <1>1 DEF Core, Replayed
<1>3. After(n, L) = state[n] /\ After(m, L) = state[m]
  BY <1>2, Zenon DEF After
<1>4. CASE L = 0
  BY <1>3, <1>4, Zenon DEF Core, Replayed
<1>5. CASE L # 0
  <2>1. L \in DOMAIN log[n] /\ L \in DOMAIN log[m]
    BY <1>2, <1>5, SMTT(30) DEF TypeOK
  <2>2. log[n][L].event = log[m][L].event
    BY <2>1, Zenon DEF Core, Agreement
  <2>3. After(n, L) = ApplyVerified(log[n][L].event.parent, log[n][L].event.kind)
    BY <2>1, ZenonT(30) DEF Core, Replayed
  <2>4. After(m, L) = ApplyVerified(log[m][L].event.parent, log[m][L].event.kind)
    BY <2>1 DEF Core, Replayed
  <2> QED BY <1>3, <2>2, <2>3, <2>4, ZenonT(30)
<1> QED BY <1>4, <1>5

-----------------------------------------------------------------------------
(* The refinement.                                                         *)

(* Votes stay bounded. *)
LEMMA VotesStayBounded ==
    ASSUME TypeOK, Core, MaxLosses = 0, VotesBounded, Next
    PROVE  VotesBounded'
<1>1. CASE \E n \in Nodes : \E e : Votes(n, e) /\ (Bounded(e) \/ e \in asked)
  <2>1. PICK n \in Nodes : \E e : Votes(n, e) /\ (Bounded(e) \/ e \in asked)
    BY <1>1
  <2>2. PICK e : Votes(n, e) /\ (Bounded(e) \/ e \in asked)
    BY <2>1
  <2>3. Bounded(e)
    BY <2>2 DEF VotesBounded
  <2>4. \A m \in Nodes : \A f \in lock'[m] : f \in lock[m] \/ f = e
    BY <2>2 DEF Votes, TypeOK
  <2>5. asked' = asked
    BY <2>2, Zenon DEF Votes
  <2> QED BY <2>3, <2>4, <2>5, Zenon DEF VotesBounded, Bounded, EventSequence, Sequence
<1>2. CASE \E n \in Nodes, c \in Certificates : Installs(n, c)
  BY <1>2, Zenon DEF Installs, VotesBounded, Bounded, EventSequence, Sequence
<1>3. CASE Rests
  BY <1>3 DEF Rests, VotesBounded, Bounded, EventSequence, Sequence
<1> QED BY <1>1, <1>2, <1>3, StepEffects, Zenon

(* An installation extends the longest history by one commit or brings a   *)
(* shorter one closer to it.                                               *)
LEMMA InstallRefines ==
    ASSUME TypeOK, Core, VotesBounded, TypeOK', Core', VotesBounded',
           NEW n \in Nodes, NEW c \in Certificates, Installs(n, c)
    PROVE  Abstract!Next \/ UNCHANGED state[Longest]
<1> DEFINE k == c.event.kind
           l == Longest
<1>1. /\ c.event.parent = state[n]
      /\ Authorized(state[n], k, c.signers)
      /\ ValidProposal(state[n], k)
      /\ state' = [state EXCEPT ![n] = ApplyVerified(@, k)]
      /\ c.signers \subseteq Voted(c.event)
  BY DEF Installs, Install, Installable
<1>2. state \in [Nodes -> States] /\ state[n] \in States /\ k \in Kinds
  BY Zenon DEF TypeOK, Certificates, Events
<1>3. state'[n] = ApplyVerified(state[n], k) /\ \A m \in Nodes : m # n => state'[m] = state[m]
  BY <1>1, <1>2, Zenon
<1>4. Bounded(c.event)
  <2>1. Valid(state[n])
    BY Zenon DEF Core, StatesValid
  <2>2. \E m \in Nodes : m \in c.signers
    BY <1>1, <1>2, <2>1, CertificatesIntersect, Zenon
  <2> QED BY <1>1, <2>2, Zenon DEF VotesBounded, Voted
<1>5. /\ l \in Nodes
      /\ \A m \in Nodes : Sequence(state[m]) <= Sequence(state[l])
  BY LongestIsLongest
<1>6. /\ Longest' \in Nodes
      /\ \A m \in Nodes : Sequence(state'[m]) <= Sequence(state'[Longest'])
  <2>1. (TypeOK /\ Core /\ VotesBounded =>
            /\ Longest \in Nodes
            /\ \A m \in Nodes : Sequence(state[m]) <= Sequence(state[Longest]))'
    BY LongestIsLongest, PTL
  <2> QED BY <2>1 DEF Sequence
<1>7. \A m, q \in Nodes : Sequence(state'[m]) = Sequence(state'[q]) => state'[m] = state'[q]
  <2>1. (TypeOK /\ Core => LengthDecides)'
    BY SameLengthSameState, PTL
  <2> QED BY <2>1 DEF LengthDecides, Sequence
<1>8. \A m \in Nodes : Sequence(state[m]) \in Nat /\ Sequence(state[m]) <= MaxSequence
  BY HistoriesBounded, Zenon
<1>9. Sequence(state'[n]) = Sequence(state[n]) + 1
  BY <1>1, <1>2, <1>3, ApplyTyped, Zenon DEF ValidProposal
<1>10. CASE Sequence(state[n]) = Sequence(state[l])
  <2>1. state[n] = state[l]
    BY <1>5, <1>10, SameLengthSameState, ZenonT(30) DEF LengthDecides
  <2>2. Longest' = n
    <3> SUFFICES ASSUME Longest' # n PROVE FALSE
      OBVIOUS
    <3>1. state'[Longest'] = state[Longest']
      BY <1>3, <1>6, Zenon
    <3>2. Sequence(state[Longest']) <= Sequence(state[l])
      BY <1>5, <1>6, Zenon
    <3>3. Sequence(state'[n]) <= Sequence(state'[Longest'])
      BY <1>6
    <3> QED BY <1>5, <1>6, <1>8, <1>9, <1>10, <3>1, <3>2, <3>3, SMTT(30)
  <2>3. state[Longest]' = ApplyVerified(state[Longest], k)
    BY <1>3, <2>1, <2>2, ZenonT(30)
  <2>4. Sequence(state[Longest]) < MaxSequence
    BY <1>1, <1>4, <1>5, <1>8, <2>1, LogAssumption, SMTT(30) DEF Bounded, EventSequence
  <2>5. k.type = "RetireCodingGroup" => k.through <= MaxSequence
    BY <1>4, Zenon DEF Bounded
  <2>6. state[Longest] \in States /\ ValidProposal(state[Longest], k)
    BY <1>1, <1>2, <2>1, Zenon
  <2> HIDE DEF k
  <2> QED BY <1>2, <2>3, <2>4, <2>5, <2>6, CommitIsNext, Zenon
<1>11. CASE Sequence(state[n]) # Sequence(state[l])
  <2>1. l # n /\ state'[l] = state[l]
    BY <1>3, <1>5, <1>11, ZenonT(30)
  <2>2. Sequence(state'[n]) <= Sequence(state[l])
    BY <1>5, <1>8, <1>9, <1>11, SMTT(30)
  <2>3. Sequence(state'[Longest']) <= Sequence(state[l])
    BY <1>3, <1>5, <1>6, <2>2, Zenon
  <2>4. Sequence(state[l]) <= Sequence(state'[Longest'])
    BY <1>5, <1>6, <2>1, Zenon
  <2>5. Sequence(state'[Longest']) \in Nat
    <3>1. Sequence(state'[n]) \in Nat
      BY <1>8, <1>9, SMTT(30)
    <3> QED BY <1>3, <1>6, <1>8, <3>1, ZenonT(30)
  <2>6. Sequence(state'[Longest']) = Sequence(state'[l])
    BY <1>5, <1>8, <2>1, <2>3, <2>4, <2>5, SMTT(30)
  <2>7. state'[Longest'] = state[l]
    BY <1>5, <1>6, <1>7, <2>1, <2>6, Zenon
  <2> QED BY <2>7
<1> QED BY <1>10, <1>11, ZenonT(30)

(* As long as no member loses its disk, the members together behave like   *)
(* one guild with one history: every installation that extends the longest *)
(* log is a commit of GuildHistory, and nothing else changes it.           *)
THEOREM LogImplementsHistory == MaxLosses = 0 => (Spec => ImplementsGuildHistory)
<1> SUFFICES ASSUME MaxLosses = 0 PROVE Spec => ImplementsGuildHistory
  OBVIOUS
<1> DEFINE Inv == TypeOK /\ Core /\ VotesBounded
<1>1. Init => VotesBounded
  BY DEF Init, VotesBounded
<1>2. Init => Abstract!Init
  <2> SUFFICES ASSUME Init PROVE state[Longest] = NewGuild
    BY SameNewGuild, ZenonT(30) DEF Abstract!Init
  <2>1. \A m \in Nodes : state[m] = NewGuild /\ Sequence(state[m]) = 0
    BY DEF Init, Sequence, NewGuild
  <2>2. PICK n \in Nodes : \A m \in Nodes : Sequence(state[m]) <= Sequence(state[n])
    <3>1. PICK n \in Nodes : TRUE
      BY ConstantsAssumption, Zenon
    <3>2. \A m \in Nodes : Sequence(state[m]) <= Sequence(state[n])
      BY <2>1
    <3> QED BY <3>2
  <2>3. Longest \in Nodes
    BY <2>2 DEF Longest
  <2> QED BY <2>1, <2>3
<1>3. LogInvariant <=> TypeOK /\ Core
  BY DEF LogInvariant, Core
<1>4. TypeOK /\ Core /\ VotesBounded /\ [Next]_vars => VotesBounded'
  <2> SUFFICES ASSUME TypeOK, Core, VotesBounded, [Next]_vars PROVE VotesBounded'
    OBVIOUS
  <2>1. CASE Next
    BY <2>1, VotesStayBounded, ZenonT(30)
  <2>2. CASE UNCHANGED vars
    BY <2>2 DEF vars, VotesBounded, Bounded, EventSequence, Sequence
  <2> QED BY <2>1, <2>2, Zenon
<1>5. Inv /\ Inv' /\ [Next]_vars => [Abstract!Next]_(state[Longest])
  <2> SUFFICES ASSUME TypeOK, Core, VotesBounded, TypeOK', Core', VotesBounded', [Next]_vars
               PROVE  Abstract!Next \/ UNCHANGED state[Longest]
    OBVIOUS
  <2>1. ASSUME UNCHANGED state PROVE UNCHANGED state[Longest]
    BY <2>1 DEF Longest, Sequence
  <2>2. CASE UNCHANGED vars
    BY <2>1, <2>2, Zenon DEF vars
  <2>3. CASE Next
    <3>1. CASE \E n \in Nodes : \E e : Votes(n, e)
      BY <2>1, <3>1, Zenon DEF Votes
    <3>2. CASE \E n \in Nodes, c \in Certificates : Installs(n, c)
      BY <3>2, InstallRefines, Zenon
    <3>3. CASE Rests
      BY <2>1, <3>3 DEF Rests
    <3> QED BY <2>3, <3>1, <3>2, <3>3, StepEffects, ZenonT(30)
  <2> QED BY <2>2, <2>3, Zenon
<1>6. Spec => []LogInvariant
  BY LogInvariantHolds
<1> QED BY <1>1, <1>2, <1>3, <1>4, <1>5, <1>6, PTL DEF Spec, ImplementsGuildHistory, Abstract!Spec

=============================================================================
