-------------------------- MODULE AgentReplica_proofs --------------------------
(***************************************************************************)
(* What holds of a client's replica for any subagents, any number of       *)
(* events, failures and restarts, and any capacity of the journal.  The    *)
(* layers, each on those before:                                           *)
(*   - the natural numbers have no infinite descent, so bounded sets have a *)
(*     greatest element and the fold in Rebased is what its equation says; *)
(*   - Base: types, the feed's invariant, and that recent events were seen;*)
(*   - TrailInv: what the journal and the snapshot say of an agent is not  *)
(*     older than the version it is labelled with;                         *)
(*   - AllInv: what the client has and what is still to come make up what  *)
(*     the agent is.                                                       *)
(* TrailInv and AllInv need that no provider's retry is announced: with    *)
(* one, an agent that settles announces two updates of one version, the    *)
(* first without its status (README, section 6, number 8).                 *)
(***************************************************************************)
EXTENDS AgentReplica, EventFeed_proofs, WellFoundedInduction
-----------------------------------------------------------------------------
(* Numbers                                                                  *)

(* A set of natural numbers has a least element.                            *)
LEMMA Least ==
    ASSUME NEW S \in SUBSET Nat, S # {}
    PROVE \E n \in S : \A m \in S : n <= m
<1> DEFINE R == OpToRel(<, Nat)
<1>1. IsWellFoundedOn(R, Nat)
  BY NatLessThanWellFounded
<1>2. PICK n \in S : \A m \in S : ~(<<m, n>> \in R)
  <2> HIDE DEF R
  <2> QED
    BY <1>1, WFMin
<1>3. \A m \in Nat, k \in Nat : m < k => <<m, k>> \in R
  BY DEF OpToRel
<1> HIDE DEF R
<1>4. \A m \in S : m \in Nat /\ n \in Nat /\ ~(m < n)
  BY <1>2, <1>3
<1> QED
  BY <1>4

(* What holds of 0, and of n + 1 with n, holds of every number.             *)
LEMMA Induct ==
    ASSUME NEW S, 0 \in S, \A n \in Nat : n \in S => n + 1 \in S
    PROVE Nat \subseteq S
<1> SUFFICES ASSUME Nat \ S # {} PROVE FALSE
  OBVIOUS
<1>1. PICK n \in Nat \ S : \A m \in Nat \ S : n <= m
  BY Least
<1>2. n # 0 /\ n - 1 \in Nat
  BY <1>1
<1>3. n - 1 \in S
  BY <1>1, <1>2
<1> QED
  BY <1>1, <1>2, <1>3

(* The greatest of a bounded set is its own, or 0 if it has none.           *)
LEMMA GreatestIs ==
    ASSUME NEW N \in Nat, NEW S \in SUBSET (0..N)
    PROVE /\ Greatest(S) \in S \cup {0}
          /\ \A m \in S : m <= Greatest(S)
<1>1. \E n \in S \cup {0} : \A m \in S : m <= n
  <2>1. CASE S = {}
    BY <2>1
  <2>2. CASE S # {}
    <3> DEFINE T == {N - m : m \in S}
    <3>1. T \in SUBSET Nat /\ T # {}
      <4>1. \A m \in S : m \in 0..N
        OBVIOUS
      <4>2. \A m \in S : N - m \in Nat
        BY <4>1
      <4>3. T \in SUBSET Nat
        BY <4>2
      <4> QED
        BY <2>2, <4>3
    <3>2. PICK k \in T : \A j \in T : k <= j
      BY <3>1, Least
    <3>3. PICK n \in S : k = N - n
      BY <3>2
    <3>4. ASSUME NEW m \in S PROVE m <= n
      <4>1. k <= N - m
        BY <3>2
      <4> QED
        BY <3>3, <4>1
    <3> QED
      BY <3>3, <3>4
  <2> QED
    BY <2>1, <2>2
<1> QED
  BY <1>1 DEF Greatest
-----------------------------------------------------------------------------
(* Types                                                                    *)

(* What is known of the constants.                                          *)
LEMMA Shown ==
    /\ MaxEvents \in Nat /\ 0 \in Versions /\ Root \in Agents /\ Children \subseteq Agents
    /\ Root \notin Children
    /\ \A a \in Agents, d \in Versions : DraftEntry(a, d) \in Visible
    /\ \A a \in Agents, p \in Versions, v \in Versions, c \in Changes :
           UpdateEntry(a, p, v, c) \in Visible
    /\ Visible \subseteq Entry /\ HiddenEntry \in Entry
  BY AgentReplicaAssumption DEF ShownEntries, Agents, Versions

(* The two shapes of what is shown.                                         *)
LEMMA ShownIs ==
    ASSUME NEW e \in Visible
    PROVE \/ /\ e.type = "draft" /\ e.agent \in Agents /\ e.draft \in Versions
          \/ /\ e.type = "update" /\ e.agent \in Agents /\ e.changes \in Changes
             /\ e.previous \in Versions /\ e.version \in Versions
  BY AgentReplicaAssumption DEF ShownEntries, DraftEntry, UpdateEntry

(* The versions that the tables and memory name.                            *)
LEMMA ReadsAreVersions ==
    ASSUME TypeOK, NEW a \in Agents
    PROVE /\ LatestVersion(a) \in Versions /\ Draft(a) \in Versions
          /\ \A v : TitleAt(a, v) \in Versions /\ StatusAt(a, v) \in {"working", "idle"}
          /\ \A e \in Events : PreviousVersion(e) \in Versions
<1>1. durable \cup streamed \subseteq Events /\ MaxEvents \in Nat
  BY Shown DEF TypeOK
<1>2. \A S \in SUBSET (0..MaxEvents) : Greatest(S) \in Versions
  <2> TAKE S \in SUBSET (0..MaxEvents)
  <2>1. Greatest(S) \in S \cup {0}
    BY <1>1, GreatestIs
  <2>2. 0 \in Versions /\ \A n \in S : n \in Versions
    BY Shown DEF Versions
  <2> QED
    BY <2>1, <2>2
<1>3. \A S \in SUBSET (durable \cup streamed) : Ids(S) \in SUBSET (0..MaxEvents)
  BY <1>1 DEF Ids, Events
<1>4. LatestVersion(a) \in Versions
  BY <1>2, <1>3 DEF LatestVersion, Of
<1>5. Draft(a) \in Versions
  BY <1>2, <1>3 DEF Draft, WithKind, Of
<1>6. \A v : TitleAt(a, v) \in Versions
  <2>1. ASSUME NEW v PROVE {n \in Ids(WithKind({"titled"}, Of(a, durable))) : n <= v} \in SUBSET (0..MaxEvents)
    <3>1. WithKind({"titled"}, Of(a, durable)) \in SUBSET (durable \cup streamed)
      BY DEF WithKind, Of
    <3> QED
      BY <1>3, <3>1
  <2> QED
    BY <1>2, <2>1 DEF TitleAt
<1>7. ASSUME NEW e \in Events PROVE PreviousVersion(e) \in Versions
  <2>1. Of(e.agent, durable \cup streamed) \in SUBSET (durable \cup streamed)
    BY DEF Of
  <2>2. {v \in Ids(Of(e.agent, durable \cup streamed)) : v < e.id} \in SUBSET (0..MaxEvents)
    BY <1>3, <2>1
  <2> QED
    BY <1>2, <2>2 DEF PreviousVersion
<1> QED
  BY <1>4, <1>5, <1>6, <1>7 DEF StatusAt
-----------------------------------------------------------------------------
(* The reducer                                                              *)

(* What an update changes is told apart by its form.                        *)
LEMMA ChangesDiffer ==
    /\ <<"status", "working">> # <<"title">> /\ <<"status", "idle">> # <<"title">>
    /\ <<"status", "working">> # <<>> /\ <<"status", "idle">> # <<>> /\ <<"title">> # <<>>
    /\ <<"status", "working">>[2] = "working" /\ <<"status", "idle">>[2] = "idle"
    /\ ~IsSettled(<<"title">>) /\ ~IsSettled(<<>>)
    /\ <<"status", "working">> # <<"status", "idle">>
<1>1. /\ Len(<<"status", "working">>) = 2 /\ Len(<<"status", "idle">>) = 2
      /\ Len(<<"title">>) = 1 /\ Len(<<>>) = 0
  OBVIOUS
<1>2. <<"status", "working">>[2] = "working" /\ <<"status", "idle">>[2] = "idle"
  OBVIOUS
<1>3. "working" # "idle"
  OBVIOUS
<1> QED
  BY <1>1, <1>2, <1>3 DEF IsSettled

(* A changed resource has the update's version, and its status if it names  *)
(* one.                                                                     *)
LEMMA ChangedIs ==
    ASSUME NEW r \in Resource, NEW e \in Visible, IsUpdate(e)
    PROVE /\ Changed(r, e) \in Resource /\ Changed(r, e).version = e.version
          /\ Changed(r, e).status = IF IsSettled(e.changes) THEN e.changes[2] ELSE r.status
<1>1. e.changes \in Changes /\ e.version \in Versions
  BY ShownIs DEF IsUpdate
<1>2. CASE e.changes = <<"title">>
  BY <1>1, <1>2, ChangesDiffer DEF Changed, Resource
<1>3. CASE e.changes = <<>>
  BY <1>1, <1>3, ChangesDiffer DEF Changed, Resource
<1>4. CASE IsSettled(e.changes)
  <2>1. e.changes[2] \in {"working", "idle"} /\ e.changes # <<"title">> /\ e.changes # <<>>
    BY <1>4, ChangesDiffer DEF IsSettled
  <2>2. Changed(r, e) = [r EXCEPT !.version = e.version, !.status = e.changes[2]]
    BY <2>1 DEF Changed
  <2> QED
    BY <1>1, <1>4, <2>1, <2>2 DEF Resource
<1> QED
  BY <1>1, <1>2, <1>3, <1>4 DEF Changes, IsSettled

(* An update that is neither known nor a gap takes the resource to its      *)
(* version, and no update takes it back.                                    *)
LEMMA AppliedIs ==
    ASSUME NEW r \in Resource, NEW e \in Visible, IsUpdate(e)
    PROVE /\ Applied(r, e) \in Resource /\ Applied(r, e).version >= r.version
          /\ Gap(r, e) \in BOOLEAN
          /\ \/ Gap(r, e) /\ Applied(r, e) = r
             \/ ~Gap(r, e) /\ r.version >= e.version /\ Applied(r, e) = r
             \/ /\ ~Gap(r, e) /\ r.version < e.version /\ r.version = e.previous
                /\ Applied(r, e) = Changed(r, e)
<1>1. e.version \in Versions /\ e.previous \in Versions /\ r.version \in Versions
  BY ShownIs DEF IsUpdate, Resource
<1>2. \A v, w \in Versions : v >= w \/ v < w
  BY Shown DEF Versions
<1>3. \A v \in Versions : v >= v
  BY Shown DEF Versions
<1>4. r.version >= e.version \/ r.version < e.version
  BY <1>1, <1>2
<1>5. r.version < e.version => ~(r.version >= e.version) /\ e.version >= r.version
  BY <1>1, Shown DEF Versions
<1> QED
  BY <1>1, <1>3, <1>4, <1>5, ChangedIs DEF Applied, Gap, Knows, Chains

(* How the reducer takes an entry to its replica: an update of the agent is *)
(* known afterwards, or leaves it dirty; no version and no cursor goes back;*)
(* and each resource is as it was, or changed by an update of its own.      *)
Reduces(old, e, c, result) ==
    LET new == result.replica
    IN  /\ new \in ReplicaType /\ result.dirty \in BOOLEAN /\ new.known = old.known
        /\ new.agent.version >= old.agent.version
        /\ new.draftCursor >= old.draftCursor
        /\ old.known /\ IsUpdate(e) /\ e.agent = Root =>
               result.dirty \/ new.agent.version >= e.version
        /\ \/ new.draftCursor = old.draftCursor /\ new.draft = old.draft
              /\ (old.known /\ IsDraft(e) => c <= old.draftCursor)
           \/ new.draftCursor = c /\ IsDraft(e) /\ new.draft = e.draft /\ c > old.draftCursor
        /\ ~old.known => new = old
        /\ \/ new.agent = old.agent
           \/ /\ IsUpdate(e) /\ e.agent = Root /\ old.agent.version = e.previous
              /\ new.agent = Changed(old.agent, e)
        /\ \A a \in Children :
            \/ new.subagents[a] = old.subagents[a]
            \/ /\ IsUpdate(e) /\ e.agent = a /\ old.subagents[a].version = e.previous
               /\ new.subagents[a] = Changed(old.subagents[a], e)

(* The reducer does.                                                        *)
LEMMA ReduceIs ==
    ASSUME NEW old \in ReplicaType, NEW e \in Visible, NEW c \in Nat
    PROVE Reduces(old, e, c, Reduce(old, e, c))
<1>r. PICK result : result = Reduce(old, e, c)
  OBVIOUS
<1> SUFFICES Reduces(old, e, c, result)
  BY <1>r
<1>0. /\ old.agent \in Resource /\ \A a \in Children : old.subagents[a] \in Resource
      /\ old.draftCursor \in Nat /\ old.agent.version \in Versions
      /\ \A v \in Versions : v >= v
  BY Shown DEF ReplicaType, Resource, Versions
<1>1. CASE ~old.known
  <2>1. result = [replica |-> old, dirty |-> FALSE]
    BY <1>1, <1>r DEF Reduce
  <2> QED
    BY <1>0, <1>1, <2>1 DEF Reduces
<1>2. CASE old.known /\ e.type # "update"
  <2>1. e.type = "draft" /\ e.agent \in Agents /\ e.draft \in Versions
    BY <1>2, ShownIs
  <2> DEFINE newer == e.agent = Root /\ c > old.draftCursor
             drafted == [old EXCEPT !.draft = e.draft, !.draftCursor = c]
  <2>2. result = [replica |-> IF newer THEN drafted ELSE old, dirty |-> FALSE]
    BY <1>2, <1>r DEF Reduce
  <2>3. /\ drafted \in ReplicaType /\ drafted.known = old.known /\ drafted.agent = old.agent
        /\ drafted.draftCursor = c /\ drafted.draft = e.draft
        /\ drafted.subagents = old.subagents
    BY <2>1 DEF ReplicaType
  <2>4. IsDraft(e) <=> e.agent = Root
    BY <2>1 DEF IsDraft
  <2> HIDE DEF drafted
  <2>5. ~IsUpdate(e)
    BY <1>2 DEF IsUpdate
  <2>6. CASE newer
    <3>1. c >= old.draftCursor
      BY <1>0, <2>6
    <3> QED
      BY <1>0, <1>2, <2>2, <2>3, <2>4, <2>5, <2>6, <3>1 DEF Reduces
  <2>7. CASE ~newer
    <3>1. (e.agent = Root => c <= old.draftCursor) /\ old.draftCursor >= old.draftCursor
      BY <1>0, <2>7
    <3> QED
      BY <1>0, <1>2, <2>2, <2>4, <2>5, <2>7, <3>1 DEF Reduces
  <2> QED
    BY <2>6, <2>7
<1>3. CASE old.known /\ e.type = "update"
  <2>1. IsUpdate(e) /\ ~IsDraft(e) /\ e.agent \in Agents /\ e.version \in Versions
    BY <1>3, ShownIs DEF IsUpdate, IsDraft
  <2>2. result = ReduceUpdate(old, e, c)
    BY <1>3, <1>r DEF Reduce
  <2> DEFINE listed == e.agent \in Children /\ c > old.subagentsCursor
  <2>3. CASE e.agent = Root
    <3> DEFINE gap == Gap(old.agent, e)
               new == [old EXCEPT !.agent = Applied(old.agent, e)]
    <3>1. ~listed
      BY <2>3, Shown
    <3>2. result.replica = new /\ result.dirty = ((listed \/ e.agent = Root) /\ gap)
      BY <2>2, <2>3, <3>1 DEF ReduceUpdate
    <3>6. result.dirty \in BOOLEAN /\ (result.dirty <=> gap)
      BY <2>3, <3>2
    <3>3. /\ new \in ReplicaType /\ new.known = old.known /\ new.agent = Applied(old.agent, e)
          /\ new.draftCursor = old.draftCursor /\ new.draft = old.draft
          /\ new.subagents = old.subagents
      BY <1>0, <2>1, AppliedIs DEF ReplicaType
    <3>4. /\ new.agent.version >= old.agent.version /\ gap \in BOOLEAN
          /\ gap \/ new.agent.version >= e.version
          /\ \/ new.agent = old.agent
             \/ old.agent.version = e.previous /\ new.agent = Changed(old.agent, e)
      <4>1. Changed(old.agent, e).version = e.version
        BY <1>0, <2>1, ChangedIs
      <4> QED
        BY <1>0, <2>1, <3>3, <4>1, AppliedIs
    <3>5. \A n \in Nat : n >= n
      OBVIOUS
    <3> HIDE DEF gap, new
    <3> QED
      BY <1>0, <1>3, <2>1, <2>3, <3>2, <3>3, <3>4, <3>5, <3>6 DEF Reduces
  <2>4. CASE e.agent # Root /\ listed /\ ~Gap(old.subagents[e.agent], e)
    <3> DEFINE a == e.agent
               new == [old EXCEPT !.subagents[a] = Applied(old.subagents[a], e), !.subagentsCursor = c]
    <3>1. result = [replica |-> new, dirty |-> FALSE]
      BY <2>2, <2>4 DEF ReduceUpdate
    <3>2. /\ new \in ReplicaType /\ new.known = old.known /\ new.agent = old.agent
          /\ new.draftCursor = old.draftCursor /\ new.draft = old.draft
          /\ \A b \in Children : new.subagents[b] = IF b = a THEN Applied(old.subagents[a], e)
                                                    ELSE old.subagents[b]
      BY <1>0, <2>1, <2>4, AppliedIs DEF ReplicaType
    <3>3. \/ Applied(old.subagents[a], e) = old.subagents[a]
          \/ /\ old.subagents[a].version = e.previous
             /\ Applied(old.subagents[a], e) = Changed(old.subagents[a], e)
      BY <1>0, <2>1, <2>4, AppliedIs
    <3>4. \A n \in Nat : n >= n
      OBVIOUS
    <3> HIDE DEF new
    <3> QED
      BY <1>0, <1>3, <2>1, <2>4, <3>1, <3>2, <3>3, <3>4 DEF Reduces
  <2>5. CASE e.agent # Root /\ ~(listed /\ ~Gap(old.subagents[e.agent], e))
    <3>1. result.replica = old
      BY <2>2, <2>5 DEF ReduceUpdate
    <3>2. result.dirty = (listed /\ Gap(old.subagents[e.agent], e))
      BY <2>2, <2>5 DEF ReduceUpdate
    <3>3. result.dirty \in BOOLEAN
      BY <3>2
    <3>4. \A n \in Nat : n >= n
      OBVIOUS
    <3> QED
      BY <1>0, <1>3, <2>1, <2>5, <3>1, <3>3, <3>4 DEF Reduces
  <2> QED
    BY <2>3, <2>4, <2>5
<1> QED
  BY <1>1, <1>2, <1>3


(* What a snapshot makes of the replica: what is older gives way, each field*)
(* by its own measure.                                                      *)
Adopts(old, new) ==
    /\ new \in ReplicaType /\ new.known
    /\ old.known => new.agent.version >= old.agent.version
    /\ new.agent.version >= snapshot.agents[Root].version
    /\ new.draftCursor >= old.draftCursor
    /\ IF old.draftCursor > snapshot.cursor
       THEN new.draft = old.draft /\ new.draftCursor = old.draftCursor
       ELSE new.draft = snapshot.draft /\ new.draftCursor = snapshot.cursor
    /\ new.agent = snapshot.agents[Root] \/ (old.known /\ new.agent = old.agent)
    /\ \A a \in Children : \/ new.subagents[a] = snapshot.agents[a]
                           \/ /\ old.known \/ old.subagentsCursor > snapshot.cursor
                              /\ new.subagents[a] = old.subagents[a]

(* Adopt does this.                                                         *)
LEMMA AdoptIs ==
    ASSUME NEW old \in ReplicaType, snapshot \in SnapshotType
    PROVE Adopts(old, Adopt(old))
<1> DEFINE keepDraft == old.draftCursor > snapshot.cursor
           keepSubagents == old.subagentsCursor > snapshot.cursor
           agent == IF old.known THEN Newest(old.agent, snapshot.agents[Root])
                    ELSE snapshot.agents[Root]
           draft == IF keepDraft THEN old.draft ELSE snapshot.draft
           draftCursor == IF keepDraft THEN old.draftCursor ELSE snapshot.cursor
           subagents == [a \in Children |->
               IF keepSubagents THEN old.subagents[a]
               ELSE IF old.known THEN Newest(old.subagents[a], snapshot.agents[a])
               ELSE snapshot.agents[a]]
           subagentsCursor == IF keepSubagents THEN old.subagentsCursor ELSE snapshot.cursor
<1>1. PICK new : new = Adopt(old)
  OBVIOUS
<1>2. new = [known |-> TRUE, agent |-> agent, draft |-> draft, draftCursor |-> draftCursor,
             subagents |-> subagents, subagentsCursor |-> subagentsCursor]
  BY <1>1, Zenon DEF Adopt
<1>3. /\ old.agent \in Resource /\ \A a \in Children : old.subagents[a] \in Resource
      /\ \A a \in Agents : snapshot.agents[a] \in Resource
      /\ old.draftCursor \in Nat /\ old.subagentsCursor \in Nat /\ snapshot.cursor \in Nat
      /\ old.draft \in Versions /\ snapshot.draft \in Versions
      /\ Root \in Agents /\ Children \subseteq Agents
  BY Shown DEF ReplicaType, SnapshotType
<1>4. \A r, s \in Resource :
          /\ Newest(r, s) \in {r, s} /\ Newest(r, s) \in Resource
          /\ Newest(r, s).version >= r.version /\ Newest(r, s).version >= s.version
  BY Shown DEF Newest, Resource, Versions
<1>5. \A r \in Resource : r.version >= r.version
  BY Shown DEF Resource, Versions
<1>6. /\ agent \in Resource /\ agent.version >= snapshot.agents[Root].version
      /\ old.known => agent.version >= old.agent.version
      /\ agent = snapshot.agents[Root] \/ (old.known /\ agent = old.agent)
  BY <1>3, <1>4, <1>5
<1>7. draft \in Versions /\ draftCursor \in Nat /\ draftCursor >= old.draftCursor
  BY <1>3
<1>8. subagents \in [Children -> Resource] /\ subagentsCursor \in Nat
  BY <1>3, <1>4
<1>9. \A a \in Children : \/ subagents[a] = snapshot.agents[a]
                         \/ ((old.known \/ keepSubagents) /\ subagents[a] = old.subagents[a])
  BY <1>3, <1>4
<1>10. IF keepDraft THEN draft = old.draft /\ draftCursor = old.draftCursor
       ELSE draft = snapshot.draft /\ draftCursor = snapshot.cursor
  OBVIOUS
<1> HIDE DEF agent, draft, draftCursor, subagents, subagentsCursor
<1>11. new \in ReplicaType
  BY <1>2, <1>6, <1>7, <1>8 DEF ReplicaType
<1> SUFFICES Adopts(old, new)
  BY <1>1
<1> QED
  BY <1>2, <1>6, <1>7, <1>9, <1>10, <1>11 DEF Adopts

(* The fold over the recent events, as its equation.                        *)
Rebases(after, N) ==
    after = [c \in 0..N |->
        IF c = 0 THEN [replica |-> Adopt(client.replica), dirty |-> FALSE]
        ELSE IF c \notin client.recent THEN after[c - 1]
        ELSE LET result == Reduce(after[c - 1].replica, log[c], c)
             IN  [result EXCEPT !.dirty = @ \/ after[c - 1].dirty]]

(* There is such a function, and Rebased is its last value.                 *)
LEMMA RebasedIs ==
    ASSUME Len(log) \in Nat
    PROVE \E after : Rebases(after, Len(log)) /\ Rebased = after[Len(log)]
<1> DEFINE Has(N) == \E after : Rebases(after, N)
           Start == [replica |-> Adopt(client.replica), dirty |-> FALSE]
           Next1(x, c) == IF c \notin client.recent THEN x
                          ELSE LET result == Reduce(x.replica, log[c], c)
                               IN  [result EXCEPT !.dirty = @ \/ x.dirty]
           S == {N \in Nat : Has(N)}
<1>r. \A f, N : Rebases(f, N) <=> f = [c \in 0..N |-> IF c = 0 THEN Start ELSE Next1(f[c - 1], c)]
  BY Zenon DEF Rebases
<1> HIDE DEF Start, Next1
<1>1. 0 \in S
  <2> DEFINE f == [c \in 0..0 |-> Start]
  <2>1. f = [c \in 0..0 |-> IF c = 0 THEN Start ELSE Next1(f[c - 1], c)]
    OBVIOUS
  <2> HIDE DEF f
  <2> QED
    BY <1>r, <2>1
<1>2. ASSUME NEW N \in Nat, N \in S PROVE N + 1 \in S
  <2>1. PICK f : f = [c \in 0..N |-> IF c = 0 THEN Start ELSE Next1(f[c - 1], c)]
    BY <1>r, <1>2
  <2> DEFINE h == [c \in 0..(N + 1) |-> IF c = N + 1 THEN Next1(f[N], c) ELSE f[c]]
  <2>2. h = [c \in 0..(N + 1) |-> IF c = 0 THEN Start ELSE Next1(h[c - 1], c)]
    BY <2>1
  <2> HIDE DEF h
  <2>3. Rebases(h, N + 1)
    BY <1>r, <2>2, Zenon
  <2>4. N + 1 \in Nat
    OBVIOUS
  <2> QED
    BY <2>3, <2>4, Zenon
<1>3. Has(Len(log))
  <2> HIDE DEF S
  <2>1. Len(log) \in S
    BY <1>1, <1>2, Induct
  <2> QED
    BY <2>1 DEF S
<1> DEFINE after[c \in 0..Len(log)] == IF c = 0 THEN Start ELSE Next1(after[c - 1], c)
<1>4. after = [c \in 0..Len(log) |-> IF c = 0 THEN Start ELSE Next1(after[c - 1], c)]
  <2>1. \E f : f = [c \in 0..Len(log) |-> IF c = 0 THEN Start ELSE Next1(f[c - 1], c)]
    BY <1>3, <1>r
  <2> QED
    BY <2>1, Zenon DEF after
<1>5. Rebased = after[Len(log)]
  BY Zenon DEF Rebased, after, Start, Next1
<1> HIDE DEF after
<1> QED
  BY <1>r, <1>4, <1>5


(* What a reduction gives is a replica and whether it is dirty.             *)
LEMMA ReduceGives ==
    ASSUME NEW old, NEW e, NEW c
    PROVE LET result == Reduce(old, e, c)
          IN  result = [replica |-> result.replica, dirty |-> result.dirty]
<1>1. PICK result : result = Reduce(old, e, c)
  OBVIOUS
<1>2. \E replica, dirty : result = [replica |-> replica, dirty |-> dirty]
  <2>1. CASE ~old.known
    BY <1>1, <2>1, Zenon DEF Reduce
  <2>2. CASE old.known /\ e.type = "update"
    <3>1. result = ReduceUpdate(old, e, c)
      BY <1>1, <2>2 DEF Reduce
    <3> QED
      BY <3>1, Zenon DEF ReduceUpdate
  <2>3. CASE old.known /\ e.type # "update"
    BY <1>1, <2>3, Zenon DEF Reduce
  <2> QED
    BY <2>1, <2>2, <2>3
<1>3. result = [replica |-> result.replica, dirty |-> result.dirty]
  <2>1. PICK replica, dirty : result = [replica |-> replica, dirty |-> dirty]
    BY <1>2
  <2> QED
    BY <2>1
<1> QED
  BY <1>1, <1>3
-----------------------------------------------------------------------------
(* What a status trails                                                     *)

(* Between two versions with no turn between, the status is one.            *)
LEMMA StatusSame ==
    ASSUME NEW a, NEW v, NEW w,
           \A turn \in Turns(a) : turn.id <= v <=> turn.id <= w
    PROVE StatusAt(a, v) = StatusAt(a, w)
<1>1. {e \in Turns(a) : e.id <= v} = {e \in Turns(a) : e.id <= w}
  OBVIOUS
<1> QED
  BY <1>1, Zenon DEF StatusAt, Turns

(* An update that follows on what trails its agent's state trails it.       *)
LEMMA ChangedTrails ==
    ASSUME TypeOK, NEW r \in Resource, NEW e \in Visible, IsUpdate(e), UpdateOK(e),
           Trails(e.agent, r), r.version = e.previous
    PROVE Trails(e.agent, Changed(r, e))
<1>1. PICK s : s = Changed(r, e)
  OBVIOUS
<1>2. /\ s.version = e.version
      /\ s.status = IF IsSettled(e.changes) THEN e.changes[2] ELSE r.status
  BY <1>1, ChangedIs
<1>3. e.version \in Nat /\ e.previous \in Nat /\ minted \in Nat /\ e.version <= minted
  BY ShownIs, Shown DEF IsUpdate, TypeOK, Versions, UpdateOK, Precedes
<1>4. Precedes(e.agent, s.version)
  BY <1>2, Zenon DEF UpdateOK
<1>5. CASE IsSettled(e.changes)
  <2>1. Since(e.agent, s.version, s.status)
    BY <1>2, <1>5, Zenon DEF UpdateOK
  <2> QED
    BY <1>1, <1>4, <2>1, Zenon DEF Trails
<1>6. CASE ~IsSettled(e.changes)
  <2>1. PICK v \in e.previous..minted : r.status = StatusAt(e.agent, v)
    BY DEF Trails, Since
  <2>2. \A turn \in Turns(e.agent) : turn.id <= e.previous \/ turn.id > e.version
    BY <1>6 DEF UpdateOK
  <2>3. \A turn \in Turns(e.agent) : turn.id \in Nat
    BY Shown DEF Turns, WithKind, Of, TypeOK, Events
  <2>4. \E w \in e.version..minted : r.status = StatusAt(e.agent, w)
    <3>1. CASE v >= e.version
      BY <1>3, <2>1, <3>1
    <3>2. CASE v < e.version
      <4>1. \A turn \in Turns(e.agent) : turn.id <= v <=> turn.id <= e.version
        BY <1>3, <2>1, <2>2, <2>3, <3>2
      <4>2. StatusAt(e.agent, v) = StatusAt(e.agent, e.version)
        BY <4>1, StatusSame
      <4> QED
        BY <1>3, <2>1, <4>2
    <3> QED
      BY <1>3, <2>1, <3>1, <3>2
  <2>5. Since(e.agent, s.version, s.status)
    BY <1>2, <1>6, <2>4 DEF Since
  <2> QED
    BY <1>1, <1>4, <2>5, Zenon DEF Trails
<1> QED
  BY <1>5, <1>6

(* All that a replica shows trails its state.                               *)
Shows(replica, a) == IF a = Root THEN replica.agent ELSE replica.subagents[a]
TrailsAll(replica) == \A a \in Agents : Trails(a, Shows(replica, a))

LEMMA ReducedTrails ==
    ASSUME TypeOK, NEW old \in ReplicaType, NEW e \in Visible, NEW c, NEW result,
           Reduces(old, e, c, result), IsUpdate(e) => UpdateOK(e), TrailsAll(old)
    PROVE TrailsAll(result.replica)
<1>1. Trails(Root, Shows(result.replica, Root))
  <2>1. old.agent \in Resource /\ Trails(Root, old.agent)
    BY Shown DEF TrailsAll, Shows, ReplicaType
  <2>2. CASE result.replica.agent = old.agent
    BY <2>1, <2>2 DEF Shows
  <2>3. CASE IsUpdate(e) /\ e.agent = Root /\ old.agent.version = e.previous
             /\ result.replica.agent = Changed(old.agent, e)
    BY <2>1, <2>3, ChangedTrails DEF Shows
  <2> QED
    BY <2>2, <2>3, Zenon DEF Reduces
<1>2. ASSUME NEW a \in Children PROVE Trails(a, Shows(result.replica, a))
  <2>1. old.subagents[a] \in Resource /\ Trails(a, old.subagents[a]) /\ a # Root
    BY Shown DEF TrailsAll, Shows, ReplicaType
  <2>2. CASE result.replica.subagents[a] = old.subagents[a]
    BY <2>1, <2>2 DEF Shows
  <2>3. CASE IsUpdate(e) /\ e.agent = a /\ old.subagents[a].version = e.previous
             /\ result.replica.subagents[a] = Changed(old.subagents[a], e)
    BY <2>1, <2>3, ChangedTrails DEF Shows
  <2> QED
    BY <2>2, <2>3, Zenon DEF Reduces
<1> QED
  BY <1>1, <1>2 DEF TrailsAll, Agents
-----------------------------------------------------------------------------
(* The fold over the recent events                                          *)

(* What the recent events up to c have made of the replica they started at. *)
Folded(start, c, x) ==
    /\ x.replica \in ReplicaType /\ x.dirty \in BOOLEAN /\ x.replica.known
    /\ x.replica.agent.version >= start.agent.version
    /\ x.replica.draftCursor >= start.draftCursor
    /\ \A p \in client.recent : p <= c /\ IsUpdate(log[p]) /\ log[p].agent = Root =>
           x.dirty \/ x.replica.agent.version >= log[p].version
    /\ \A p \in client.recent : p <= c /\ IsDraft(log[p]) => p <= x.replica.draftCursor
    /\ \/ x.replica.draftCursor = start.draftCursor /\ x.replica.draft = start.draft
       \/ /\ x.replica.draftCursor \in client.recent
          /\ IsDraft(log[x.replica.draftCursor])
          /\ x.replica.draft = log[x.replica.draftCursor].draft
    /\ TrailsAll(start) /\ (\A p \in client.recent : IsUpdate(log[p]) => UpdateOK(log[p])) =>
           TrailsAll(x.replica)

(* One more of them.                                                        *)
LEMMA FoldedMore ==
    ASSUME TypeOK, NEW start \in ReplicaType, NEW x, NEW c \in Nat, Folded(start, c, x),
           c + 1 \in client.recent, log[c + 1] \in Visible,
           NEW result, Reduces(x.replica, log[c + 1], c + 1, result),
           NEW y, y.replica = result.replica, y.dirty = (result.dirty \/ x.dirty)
    PROVE Folded(start, c + 1, y)
<1>1. /\ y.replica \in ReplicaType /\ y.dirty \in BOOLEAN /\ y.replica.known
      /\ x.replica \in ReplicaType
      /\ y.replica.agent.version >= x.replica.agent.version
      /\ y.replica.draftCursor >= x.replica.draftCursor
  BY DEF Folded, Reduces
<1>2. /\ start.agent.version \in Nat /\ start.draftCursor \in Nat
      /\ x.replica.agent.version \in Nat /\ x.replica.draftCursor \in Nat
      /\ y.replica.agent.version \in Nat /\ y.replica.draftCursor \in Nat
  BY <1>1, Shown DEF ReplicaType, Resource, Versions
<1>3. /\ y.replica.agent.version >= start.agent.version
      /\ y.replica.draftCursor >= start.draftCursor
  BY <1>1, <1>2 DEF Folded
<1>4. client.recent \subseteq Nat
  BY DEF TypeOK, ClientType
<1>5. ASSUME NEW p \in client.recent, p <= c + 1, IsUpdate(log[p]), log[p].agent = Root
      PROVE y.dirty \/ y.replica.agent.version >= log[p].version
  <2>1. log[p].version \in Nat
    BY <1>5, ShownIs, Shown DEF IsUpdate, Versions
  <2>2. CASE p = c + 1
    BY <1>5, <2>2 DEF Folded, Reduces
  <2>3. CASE p <= c
    <3>1. x.dirty \/ x.replica.agent.version >= log[p].version
      BY <1>5, <2>3 DEF Folded
    <3>2. CASE x.dirty
      BY <3>2
    <3>3. CASE x.replica.agent.version >= log[p].version
      BY <1>1, <1>2, <2>1, <3>3
    <3> QED
      BY <3>1, <3>2, <3>3
  <2> QED
    BY <1>4, <1>5, <2>2, <2>3
<1>6. ASSUME NEW p \in client.recent, p <= c + 1, IsDraft(log[p])
      PROVE p <= y.replica.draftCursor
  <2>1. CASE p = c + 1
    BY <1>2, <1>6, <2>1 DEF Folded, Reduces
  <2>2. CASE p <= c
    <3>1. p <= x.replica.draftCursor
      BY <1>6, <2>2 DEF Folded
    <3> QED
      BY <1>1, <1>2, <1>4, <3>1
  <2> QED
    BY <1>4, <1>6, <2>1, <2>2
<1>7. \/ y.replica.draftCursor = start.draftCursor /\ y.replica.draft = start.draft
      \/ /\ y.replica.draftCursor \in client.recent
         /\ IsDraft(log[y.replica.draftCursor])
         /\ y.replica.draft = log[y.replica.draftCursor].draft
  <2>1. CASE y.replica.draftCursor = x.replica.draftCursor /\ y.replica.draft = x.replica.draft
    BY <2>1, Zenon DEF Folded
  <2>2. CASE y.replica.draftCursor = c + 1 /\ IsDraft(log[c + 1]) /\ y.replica.draft = log[c + 1].draft
    BY <2>2, Zenon
  <2> QED
    BY <2>1, <2>2 DEF Reduces
<1>8. ASSUME TrailsAll(start), \A p \in client.recent : IsUpdate(log[p]) => UpdateOK(log[p])
      PROVE TrailsAll(y.replica)
  <2>1. TrailsAll(x.replica)
    BY <1>8, Zenon DEF Folded
  <2> QED
    BY <1>1, <1>8, <2>1, ReducedTrails
<1> QED
  BY <1>1, <1>3, <1>5, <1>6, <1>7, <1>8 DEF Folded

(* Rebased is what all of them make of what a snapshot makes of the replica.*)
LEMMA RebasedFolds ==
    ASSUME TypeOK, FeedInv, \A p \in client.recent : log[p] \in Visible
    PROVE Folded(Adopt(client.replica), Len(log), Rebased)
<1> DEFINE N == Len(log)
<1>0. N \in Nat
  BY DEF FeedInv, JournalInv
<1>1. PICK start : start = Adopt(client.replica)
  OBVIOUS
<1>2. PICK after : Rebases(after, N) /\ Rebased = after[N]
  BY <1>0, RebasedIs
<1>3. start \in ReplicaType /\ start.known
  BY <1>1, AdoptIs DEF Adopts, TypeOK, ClientType
<1>4. after = [c \in 0..N |->
        IF c = 0 THEN [replica |-> start, dirty |-> FALSE]
        ELSE IF c \notin client.recent THEN after[c - 1]
        ELSE LET result == Reduce(after[c - 1].replica, log[c], c)
             IN  [result EXCEPT !.dirty = @ \/ after[c - 1].dirty]]
  BY <1>1, <1>2, Zenon DEF Rebases
<1> DEFINE S == {c \in Nat : c <= N => Folded(start, c, after[c])}
<1>5. 0 \in S
  <2>1. after[0] = [replica |-> start, dirty |-> FALSE]
    BY <1>0, <1>4
  <2>2. \A p \in client.recent : ~(p <= 0)
    BY DEF TypeOK, FeedInv, ConnectionInv
  <2>3. \A n \in Nat : n >= n
    OBVIOUS
  <2>4. start.agent.version \in Nat /\ start.draftCursor \in Nat
    BY <1>3, Shown DEF ReplicaType, Resource, Versions
  <2>5. Folded(start, 0, after[0])
    BY <1>3, <2>1, <2>2, <2>3, <2>4 DEF Folded
  <2> QED
    BY <2>5
<1>6. ASSUME NEW c \in Nat, c \in S PROVE c + 1 \in S
  <2> SUFFICES ASSUME c + 1 <= N PROVE Folded(start, c + 1, after[c + 1])
    OBVIOUS
  <2>1. Folded(start, c, after[c])
    <3>1. c <= N
      BY <1>0
    <3>2. c <= N => Folded(start, c, after[c])
      BY <1>6
    <3> QED
      BY <3>1, <3>2
  <2>2. c + 1 \in 0..N /\ c + 1 # 0 /\ (c + 1) - 1 = c
    BY <1>0
  <2>3. CASE c + 1 \notin client.recent
    <3>0. after[c + 1] = after[(c + 1) - 1]
      BY <1>4, <2>2, <2>3, Zenon
    <3>1. after[c + 1] = after[c]
      BY <2>2, <3>0
    <3>2. \A p \in client.recent : p <= c + 1 => p <= c
      BY <2>3 DEF TypeOK, ClientType
    <3> HIDE DEF S
    <3> QED
      BY <2>1, <3>1, <3>2 DEF Folded
  <2>4. CASE c + 1 \in client.recent
    <3>1. PICK result : result = Reduce(after[c].replica, log[c + 1], c + 1)
      OBVIOUS
    <3>2. after[c + 1] = [result EXCEPT !.dirty = @ \/ after[c].dirty]
      BY <1>4, <2>2, <2>4, <3>1
    <3>3. result = [replica |-> result.replica, dirty |-> result.dirty]
      BY <3>1, ReduceGives
    <3>4. /\ after[c + 1].replica = result.replica
          /\ after[c + 1].dirty = (result.dirty \/ after[c].dirty)
      BY <3>2, <3>3
    <3>5. after[c].replica \in ReplicaType /\ log[c + 1] \in Visible /\ c + 1 \in Nat
      BY <2>1, <2>4 DEF Folded
    <3>6. Reduces(after[c].replica, log[c + 1], c + 1, result)
      BY <3>1, <3>5, ReduceIs
    <3> HIDE DEF S, N
    <3> QED
      BY <1>3, <2>1, <2>4, <3>4, <3>5, <3>6, FoldedMore
  <2> QED
    BY <2>3, <2>4
<1>7. N \in S
  <2> HIDE DEF S
  <2> QED
    BY <1>0, <1>5, <1>6, Induct
<1>8. N <= N
  BY <1>0
<1> QED
  BY <1>1, <1>2, <1>7, <1>8
-----------------------------------------------------------------------------
(* The reducer's schedule                                                   *)

(* What TypeOK says of the reducer, with its cursor at n.                   *)
ClientOK(c, n) ==
    /\ c \in ClientType /\ c.recent \subseteq 1..n
    /\ ~c.syncing => c.recent = {}
    /\ c.retrying => c.dirty /\ ~c.syncing

(* Deciding what to read next changes no replica.  Unless all stays as it   *)
(* is, a new request starts, or the one that runs no longer counts, or the  *)
(* replica stays dirty until a timer fires.                                 *)
Follows(c, d) ==
    /\ d.replica = c.replica
    /\ \/ d = c
       \/ d.recent = {} /\ d.syncing /\ ~c.syncing
       \/ d.recent = {} /\ d.syncing /\ c.syncing /\ d.dirty /\ ~d.complete
       \/ d.recent = {} /\ ~d.syncing /\ ~c.syncing /\ d.dirty

LEMMA FollowsOn ==
    ASSUME NEW c, NEW d, NEW e, Follows(c, d), Follows(d, e) PROVE Follows(c, e)
  BY DEF Follows

LEMMA DrainedIs ==
    ASSUME NEW n, NEW c, ClientOK(c, n)
    PROVE /\ ClientOK(Drained(c), n) /\ Follows(c, Drained(c))
          /\ c.dirty => Drained(c).dirty \/ Drained(c).syncing
<1>0. c \in ClientType
  BY DEF ClientOK
<1>1. CASE Starts(c)
  <2>1. PICK d : d = [c EXCEPT !.dirty = FALSE, !.syncing = TRUE, !.recent = {}, !.complete = TRUE]
    OBVIOUS
  <2>2. d = Drained(c)
    BY <1>1, <2>1 DEF Drained
  <2>3. /\ d \in ClientType /\ d.replica = c.replica /\ d.retrying = c.retrying
        /\ ~d.dirty /\ d.syncing /\ d.recent = {} /\ d.complete
    BY <1>0, <2>1 DEF ClientType
  <2>4. ~c.syncing /\ ~c.retrying
    BY <1>1 DEF Starts
  <2> QED
    BY <2>2, <2>3, <2>4 DEF ClientOK, Follows
<1>2. CASE ~Starts(c)
  <2>1. Drained(c) = c
    BY <1>2 DEF Drained
  <2> QED
    BY <1>2, <2>1 DEF ClientOK, Follows, Starts
<1> QED
  BY <1>1, <1>2

(* After a suspicion what was read does not count, and something is to be   *)
(* read.                                                                    *)
LEMMA SuspectIs ==
    ASSUME NEW n, NEW c, ClientOK(c, n), NEW suspicion \in BOOLEAN
    PROVE /\ ClientOK(Suspect(c, suspicion), n) /\ Follows(c, Suspect(c, suspicion))
          /\ suspicion => /\ Suspect(c, suspicion).dirty \/ Suspect(c, suspicion).syncing
                          /\ c.syncing => ~Suspect(c, suspicion).complete
<1>1. CASE ~suspicion
  BY <1>1 DEF Suspect, Follows
<1>2. CASE suspicion
  <2>1. PICK i : i = Invalidated(c)
    OBVIOUS
  <2>2. /\ i \in ClientType /\ i.replica = c.replica /\ i.retrying = c.retrying
        /\ i.dirty /\ i.syncing = c.syncing /\ i.recent = {} /\ ~i.complete
    BY <2>1 DEF Invalidated, ClientOK, ClientType
  <2>3. ClientOK(i, n)
    BY <2>2 DEF ClientOK
  <2>4. PICK d : d = Drained(i)
    OBVIOUS
  <2>5. ClientOK(d, n) /\ Follows(i, d)
    BY <2>3, <2>4, DrainedIs
  <2>6. d = Suspect(c, suspicion)
    BY <1>2, <2>1, <2>4 DEF Suspect
  <2>7. Follows(c, i)
    BY <2>2 DEF Follows
  <2>8. Follows(c, d)
    BY <2>5, <2>7, FollowsOn
  <2>9. c.syncing => d = i
    BY <2>2, <2>4 DEF Drained, Starts
  <2>10. d.dirty \/ d.syncing
    BY <2>2, <2>5 DEF Follows
  <2> QED
    BY <2>2, <2>5, <2>6, <2>8, <2>9, <2>10
<1> QED
  BY <1>1, <1>2

(* What a hello frame does to the reducer.                                  *)
LEMMA HelloIs ==
    ASSUME FeedInv, ClientOK(client, cursor), Hello
    PROVE /\ ClientOK(client', cursor) /\ Follows(client, client')
          /\ StateLost => /\ client'.dirty \/ client'.syncing
                          /\ client.syncing => ~client'.complete
<1>1. PICK c1 : c1 = Drained(client)
  OBVIOUS
<1>2. PICK c2 : c2 = Suspect(c1, Replaced)
  OBVIOUS
<1>3. client' = Suspect(c2, StateLost)
  BY <1>1, <1>2 DEF Hello, Becomes
<1>4. hello.gap \in BOOLEAN /\ hello.resumed \in BOOLEAN
  BY DEF FeedInv, ConnectionInv, HelloFrame
<1>5. Replaced \in BOOLEAN /\ StateLost \in BOOLEAN
  BY <1>4 DEF Replaced, StateLost
<1>6. ClientOK(c1, cursor) /\ Follows(client, c1)
  BY <1>1, DrainedIs
<1>7. ClientOK(c2, cursor) /\ Follows(c1, c2)
  BY <1>2, <1>5, <1>6, SuspectIs
<1>8. /\ ClientOK(client', cursor) /\ Follows(c2, client')
      /\ StateLost => /\ client'.dirty \/ client'.syncing
                      /\ c2.syncing => ~client'.complete
  BY <1>3, <1>5, <1>7, SuspectIs
<1>9. Follows(client, c2)
  BY <1>6, <1>7, FollowsOn
<1>10. Follows(client, client')
  BY <1>8, <1>9, FollowsOn
<1>11. client.syncing => c2.syncing
  BY <1>9 DEF Follows
<1> QED
  BY <1>8, <1>10, <1>11


LEMMA DrainIs ==
    ASSUME NEW n, NEW c, ClientOK(c, n)
    PROVE ClientOK(Drain(c), n) /\ Follows(c, Drain(c))
  BY DrainedIs DEF Drain, Follows

(* What is forgotten with a request.                                        *)
Forgets(c) ==
    snapshot' = IF c.syncing /\ client.syncing THEN snapshot ELSE NoSnapshot

LEMMA BecomesIs ==
    ASSUME NEW c, ClientOK(c, cursor), client.syncing \in BOOLEAN, Becomes(c)
    PROVE client' = c /\ Forgets(c)
  BY DEF Becomes, Forgets, ClientOK, ClientType

(* What an event's frame does: it is the next one visible after the cursor; *)
(* a replica c has it, and is remembered with it; and then it is decided    *)
(* what to read.                                                            *)
Frames(p, c) ==
    /\ open /\ hello = NoHello /\ wire = VisibleAfter(cursor)
    /\ p \in (cursor + 1)..Len(log) /\ log[p] \in Visible /\ cursor' = p
    /\ \A q \in (cursor + 1)..(p - 1) : log[q] \notin Visible
    /\ \E result :
        /\ Reduces(client.replica, log[p], p, result)
        /\ c.replica = result.replica /\ c.dirty = (client.dirty \/ result.dirty)
    /\ c.syncing = client.syncing /\ c.complete = client.complete /\ c.retrying = client.retrying
    /\ c.recent = IF client.syncing THEN client.recent \cup {p} ELSE client.recent
    /\ ClientOK(c, p) /\ client' = Drained(c) /\ Forgets(Drained(c))
    /\ UNCHANGED <<log, daemonVars, open, hello, daemonId, serverVars, faults>>

LEMMA FrameIs ==
    ASSUME ClientOK(client, cursor), FeedInv, NEW p \in wire, Frame(p)
    PROVE \E c : Frames(p, c)
<1>1. /\ hello = NoHello /\ NextFrame(p) /\ wire' = wire \ {p}
      /\ cursor' = (IF p > cursor THEN p ELSE cursor)
      /\ UNCHANGED <<log, daemonVars, open, hello, daemonId, serverVars, faults>>
  BY DEF Frame, ReadEvent
<1>2. open /\ wire = VisibleAfter(cursor) /\ cursor \in Nat /\ Len(log) \in Nat
  BY <1>1 DEF FeedInv, ConnectionInv, JournalInv
<1>3. p \in (cursor + 1)..Len(log) /\ log[p] \in Visible
  BY <1>2 DEF VisibleAfter
<1>4. p \in Nat /\ p > cursor /\ cursor' = p
  BY <1>1, <1>2, <1>3
<1>5. ASSUME NEW q \in (cursor + 1)..(p - 1) PROVE log[q] \notin Visible
  <2>1. q \in (cursor + 1)..Len(log) /\ ~(p <= q)
    BY <1>2, <1>3
  <2>2. log[q] \in Visible => q \in wire
    BY <1>2, <2>1 DEF VisibleAfter
  <2> QED
    BY <1>1, <2>1, <2>2 DEF NextFrame
<1>6. PICK result : result = Reduce(client.replica, log[p], p)
  OBVIOUS
<1>7. client \in ClientType /\ client.replica \in ReplicaType
  BY DEF ClientOK, ClientType
<1>8. Reduces(client.replica, log[p], p, result) /\ result.dirty \in BOOLEAN
  <2>1. Reduces(client.replica, log[p], p, result)
    BY <1>3, <1>4, <1>6, <1>7, ReduceIs
  <2> QED
    BY <2>1 DEF Reduces
<1>9. PICK m : m = Remembered(client, p)
  OBVIOUS
<1>10. /\ m \in ClientType /\ m.syncing = client.syncing /\ m.dirty = client.dirty
       /\ m.complete = client.complete /\ m.retrying = client.retrying
       /\ m.recent = IF client.syncing THEN client.recent \cup {p} ELSE client.recent
  BY <1>4, <1>7, <1>9 DEF Remembered, ClientType
<1>11. PICK c : c = [m EXCEPT !.replica = result.replica, !.dirty = @ \/ result.dirty]
  OBVIOUS
<1>12. /\ c \in ClientType /\ c.replica = result.replica /\ c.dirty = (m.dirty \/ result.dirty)
       /\ c.syncing = m.syncing /\ c.complete = m.complete /\ c.retrying = m.retrying
       /\ c.recent = m.recent
  <2>1. result.replica \in ReplicaType /\ (m.dirty \/ result.dirty) \in BOOLEAN
    BY <1>8 DEF Reduces
  <2> QED
    BY <1>10, <1>11, <2>1 DEF ClientType
<1>13. ClientOK(c, p)
  <2>1. client.recent \subseteq 1..cursor
    BY DEF ClientOK
  <2>2. c.recent \subseteq 1..p
    BY <1>2, <1>4, <1>10, <1>12, <2>1
  <2> QED
    BY <1>10, <1>12, <2>2 DEF ClientOK
<1>14. Becomes(Drained(c))
  <2>1. IF p > cursor THEN Becomes(Drained([Remembered(client, p) EXCEPT
              !.replica = result.replica, !.dirty = @ \/ result.dirty]))
        ELSE UNCHANGED <<client, snapshot>>
    BY <1>6, Zenon DEF Frame
  <2> QED
    BY <1>4, <1>9, <1>11, <2>1
<1>15. ClientOK(Drained(c), p)
  BY <1>13, DrainedIs
<1>16. client' = Drained(c) /\ Forgets(Drained(c))
  BY <1>7, <1>14, <1>15 DEF Becomes, Forgets, ClientOK, ClientType
<1>17. Frames(p, c)
  BY <1>1, <1>2, <1>3, <1>4, <1>5, <1>8, <1>10, <1>12, <1>13, <1>16 DEF Frames
<1> QED
  BY <1>17

(* What the answer of a request does.                                       *)
Finishes(c) ==
    /\ Answered /\ client.syncing
    /\ c.replica = Rebased.replica /\ ~c.syncing /\ c.recent = {} /\ ~c.retrying
    /\ c.dirty = (client.dirty \/ Rebased.dirty \/ ~client.complete)
    /\ ClientOK(c, cursor) /\ client' = Drain(c) /\ snapshot' = NoSnapshot
    /\ UNCHANGED <<feedVars, serverVars, faults>>

LEMMA FinishIs ==
    ASSUME TypeOK, FeedInv, \A p \in client.recent : log[p] \in Visible, FinishSync
    PROVE \E c : Finishes(c)
<1>1. PICK r : r = Rebased
  OBVIOUS
<1>2. r.replica \in ReplicaType /\ r.dirty \in BOOLEAN
  BY <1>1, RebasedFolds DEF Folded
<1>3. PICK c : c = [client EXCEPT !.replica = r.replica, !.syncing = FALSE, !.recent = {},
                                  !.dirty = @ \/ r.dirty \/ ~client.complete]
  OBVIOUS
<1>4. client' = Drain(c)
  BY <1>1, <1>3, Zenon DEF FinishSync
<1>5. /\ c \in ClientType /\ c.replica = r.replica /\ ~c.syncing /\ c.recent = {}
      /\ c.dirty = (client.dirty \/ r.dirty \/ ~client.complete)
      /\ c.retrying = client.retrying
  <2>1. client \in ClientType /\ (client.dirty \/ r.dirty \/ ~client.complete) \in BOOLEAN
    BY DEF TypeOK
  <2> QED
    BY <1>2, <1>3, <2>1 DEF ClientType
<1>6. client.syncing /\ ~client.retrying /\ client.retrying \in BOOLEAN
  BY DEF FinishSync, TypeOK, ClientType
<1>7. ClientOK(c, cursor)
  BY <1>5, <1>6 DEF ClientOK
<1>8. Finishes(c)
  BY <1>1, <1>4, <1>5, <1>6, <1>7 DEF Finishes, FinishSync
<1> QED
  BY <1>8
-----------------------------------------------------------------------------
(* Types, and the feed                                                      *)

(* What an agent's chain does next: a draft, an update, or the update that  *)
(* clears a retry if there is one.                                          *)
Converts(a, part, e) ==
    /\ part \in Parts /\ e \in Events /\ Free
    /\ chain[a] # <<>> /\ Head(chain[a]) = [event |-> e, part |-> part]
    /\ chain' = [chain EXCEPT ![a] = Tail(@)]
    /\ \/ part = "draft" /\ Journal(DraftEntry(a, Draft(a)))
       \/ part = "update" /\ Journal(Update(e, ChangesOf(e)))
       \/ part = "clear" /\ a \in liveRetries /\ Journal(Update(e, <<>>))
       \/ part = "clear" /\ a \notin liveRetries /\ UNCHANGED <<log, daemonVars, connectionVars>>
    /\ liveRetries' = IF e.kind = "retrying" THEN liveRetries \cup {e.agent}
                      ELSE IF e.kind \in {"started", "settled"} THEN liveRetries \ {e.agent}
                      ELSE liveRetries
    /\ UNCHANGED <<followerVars, minted, tx, durable, streamed, reducerVars>>

LEMMA ConvertIs ==
    ASSUME TypeOK, NEW a \in Agents, Convert(a)
    PROVE \E part, e : Converts(a, part, e)
<1>1. Head(chain[a]) \in Part
  BY DEF Convert, TypeOK
<1>2. PICK part \in Parts, e \in Events : Head(chain[a]) = [event |-> e, part |-> part]
  BY <1>1 DEF Part
<1>3. Head(chain[a]).part = part /\ Head(chain[a]).event = e
  BY <1>2
<1>4. /\ Free /\ chain[a] # <<>> /\ chain' = [chain EXCEPT ![a] = Tail(@)]
      /\ liveRetries' = RetriesAfter(Head(chain[a]))
      /\ UNCHANGED <<followerVars, minted, tx, durable, streamed, reducerVars>>
  BY Zenon DEF Convert
<1>5. IF part = "draft" THEN Journal(DraftEntry(a, Draft(a)))
      ELSE IF part = "update" THEN Journal(Update(e, ChangesOf(e)))
      ELSE IF a \in liveRetries THEN Journal(Update(e, <<>>))
      ELSE UNCHANGED <<log, daemonVars, connectionVars>>
  BY <1>3, Zenon DEF Convert
<1>6. \/ part = "draft" /\ Journal(DraftEntry(a, Draft(a)))
      \/ part = "update" /\ Journal(Update(e, ChangesOf(e)))
      \/ part = "clear" /\ a \in liveRetries /\ Journal(Update(e, <<>>))
      \/ part = "clear" /\ a \notin liveRetries /\ UNCHANGED <<log, daemonVars, connectionVars>>
  <2>1. part \in {"draft", "clear", "update"}
    BY DEF Parts
  <2> QED
    BY <1>5, <2>1
<1>7. liveRetries' = IF e.kind = "retrying" THEN liveRetries \cup {e.agent}
                     ELSE IF e.kind \in {"started", "settled"} THEN liveRetries \ {e.agent}
                     ELSE liveRetries
  BY <1>3, <1>4, Zenon DEF RetriesAfter
<1>8. Converts(a, part, e)
  BY <1>2, <1>4, <1>6, <1>7, Zenon DEF Converts
<1> QED
  BY <1>8

(* What an update says is shown.                                            *)
LEMMA UpdateShown ==
    ASSUME TypeOK, NEW e \in Events, NEW changes \in Changes
    PROVE Update(e, changes) \in Visible
<1>1. PreviousVersion(e) \in Versions /\ e.agent \in Agents /\ e.id \in Versions
  BY Shown, ReadsAreVersions DEF Events, Versions
<1> QED
  BY <1>1, Shown DEF Update

LEMMA ChangesOfShown ==
    ASSUME NEW e \in Events PROVE ChangesOf(e) \in Changes /\ <<>> \in Changes
  BY DEF ChangesOf, Changes

(* A chain's next entry is one of the feed's, and shown.                    *)
LEMMA ConvertShows ==
    ASSUME TypeOK, NEW a \in Agents, Convert(a)
    PROVE \/ \E entry \in Visible : Journal(entry)
          \/ UNCHANGED <<log, daemonVars, connectionVars>>
<1>1. PICK part, e : Converts(a, part, e)
  BY ConvertIs
<1>2. DraftEntry(a, Draft(a)) \in Visible
  BY Shown, ReadsAreVersions
<1>3. e \in Events
  BY <1>1 DEF Converts
<1>4. Update(e, ChangesOf(e)) \in Visible /\ Update(e, <<>>) \in Visible
  BY <1>3, UpdateShown, ChangesOfShown
<1> QED
  BY <1>1, <1>2, <1>4, Zenon DEF Converts

(* Each step of the daemon and of the client is one of the feed's, or       *)
(* leaves the feed alone.                                                   *)
LEMMA FeedStep ==
    ASSUME TypeOK, [Next]_vars PROVE [FeedNext]_feedVars
<1>1. ASSUME NEW entry \in Entry, Journal(entry), UNCHANGED followerVars PROVE FeedNext
  BY <1>1, Zenon DEF FeedNext
<1>2. ASSUME NEW a \in Agents, Convert(a) PROVE [FeedNext]_feedVars
  <2>1. UNCHANGED followerVars
    BY <1>2, Zenon DEF Convert
  <2>2. CASE UNCHANGED <<log, daemonVars, connectionVars>>
    BY <2>1, <2>2 DEF feedVars
  <2>3. ASSUME NEW entry \in Visible, Journal(entry) PROVE FeedNext
    BY <1>1, <2>1, <2>3, Shown
  <2> QED
    BY <1>2, <2>2, <2>3, ConvertShows
<1>3. CASE Elsewhere
  BY <1>1, <1>3, Shown, Zenon DEF Elsewhere
<1>4. CASE \/ \E a \in Agents, kind \in Kinds : Record(a, kind)
           \/ \E a \in Agents : "streamed" \in Kinds /\ Stream(a)
           \/ Transact \/ Request \/ FinishSync \/ FailSync \/ RetryTimer \/ Prune \/ Rest
  BY <1>4, Zenon DEF Record, Stream, Transact, Publish, Rollback, Request, Capture, ReadDraft,
     ReadConfig, ReadVersion, ReadStatus, Serve, FinishSync, FailSync, RetryTimer, Prune, Rest, vars
<1>5. CASE Hello
  BY <1>5, Zenon DEF Hello, FeedNext
<1>6. ASSUME NEW p \in wire, Frame(p) PROVE FeedNext
  BY <1>6, Zenon DEF Frame, FeedNext
<1>7. CASE Reconnect \/ LoseConnection \/ StopAndStart \/ RestartDaemon
  BY <1>7, Zenon DEF Reconnect, LoseConnection, StopAndStart, RestartDaemon, FeedNext
<1>8. CASE UNCHANGED vars
  BY <1>8 DEF vars
<1> QED
  BY <1>2, <1>3, <1>4, <1>5, <1>6, <1>7, <1>8, Zenon DEF Next, Work, Receive


(* The log only grows.                                                      *)
LEMMA LogGrows ==
    ASSUME FeedInv, [FeedNext]_feedVars
    PROVE /\ Len(log) \in Nat /\ Len(log') \in Nat /\ Len(log') >= Len(log)
          /\ \A p \in 1..Len(log) : log'[p] = log[p]
          /\ \/ log' = log
             \/ Len(log') = Len(log) + 1 /\ log'[Len(log) + 1] \in Entry \cup {Origin}
<1>1. log \in Seq(Entry \cup {Origin})
  BY DEF FeedInv, JournalInv
<1>2. log' = log \/ \E entry \in Entry \cup {Origin} : log' = Append(log, entry)
  BY Zenon DEF FeedNext, Journal, NewDaemon, Connect, Break, StartAgain, ReadHello, ReadEvent, feedVars
<1>3. CASE log' = log
  BY <1>1, <1>3
<1>4. ASSUME NEW entry \in Entry \cup {Origin}, log' = Append(log, entry)
      PROVE /\ Len(log') = Len(log) + 1 /\ log'[Len(log) + 1] = entry
            /\ \A p \in 1..Len(log) : log'[p] = log[p]
  BY <1>1, <1>4
<1>5. Len(log) \in Nat
  BY <1>1
<1> QED
  BY <1>2, <1>3, <1>4, <1>5

(* The variables of the daemon within their types, and those of the client. *)
ServerTypes ==
    /\ minted \in Versions /\ tx \in Events \cup {NoEvent}
    /\ durable \subseteq Events /\ streamed \subseteq Events
    /\ chain \in [Agents -> Seq(Part)]
    /\ liveRetries \subseteq Agents
ReducerTypes ==
    /\ snapshot \in SnapshotType /\ snapshot.cursor <= Len(log)
    /\ ClientOK(client, cursor)
    /\ ~client.syncing => snapshot = NoSnapshot
    /\ faults \in 0..MaxFaults

LEMMA TypesAre == TypeOK <=> ServerTypes /\ ReducerTypes
  BY DEF TypeOK, ServerTypes, ReducerTypes, ClientOK

(* What the client remembers of the events was shown.                       *)
RecentSeen == \A p \in client.recent : log[p] \in Visible
Base == TypeOK /\ FeedInv /\ RecentSeen

LEMMA NoSnapshotIs ==
    NoSnapshot \in SnapshotType /\ [NoSnapshot EXCEPT !.dead = TRUE] \in SnapshotType
<1>1. Unread \in Resource
  BY Shown DEF Unread, Resource
<1> QED
  BY <1>1, Shown DEF NoSnapshot, SnapshotType

(* What an event adds to its agent's chain.                                 *)
LEMMA PartsAre ==
    ASSUME NEW e \in Events
    PROVE /\ PartsOf(e) \in Seq(Part)
          /\ Len(PartsOf(e)) = IF e.kind \in {"drafted", "settled"} THEN 2 ELSE 1
          /\ \A i \in 1..Len(PartsOf(e)) : PartsOf(e)[i].event = e
          /\ PartsOf(e)[Len(PartsOf(e))].part = "update"
          /\ e.kind = "drafted" => PartsOf(e)[1].part = "draft"
<1>p. PICK parts : parts = CASE e.kind = "drafted" -> <<"draft", "update">>
                           [] e.kind = "settled" -> <<"clear", "update">>
                           [] OTHER -> <<"update">>
  OBVIOUS
<1>1. parts = IF e.kind = "drafted" THEN <<"draft", "update">>
              ELSE IF e.kind = "settled" THEN <<"clear", "update">> ELSE <<"update">>
  BY <1>p
<1>2. /\ Len(<<"draft", "update">>) = 2 /\ Len(<<"clear", "update">>) = 2 /\ Len(<<"update">>) = 1
      /\ <<"draft", "update">> \in Seq(Parts) /\ <<"clear", "update">> \in Seq(Parts)
      /\ <<"update">> \in Seq(Parts)
  BY DEF Parts
<1>3. /\ parts \in Seq(Parts)
      /\ Len(parts) = IF e.kind \in {"drafted", "settled"} THEN 2 ELSE 1
      /\ parts[Len(parts)] = "update"
      /\ e.kind = "drafted" => parts[1] = "draft"
  BY <1>1, <1>2
<1>4. PICK s : s = [i \in DOMAIN parts |-> [event |-> e, part |-> parts[i]]]
  OBVIOUS
<1>5. PartsOf(e) = s
  BY <1>p, <1>4, Zenon DEF PartsOf
<1>6. DOMAIN parts = 1..Len(parts) /\ \A i \in 1..Len(parts) : parts[i] \in Parts
  <2>1. parts \in Seq(Parts)
    BY <1>3
  <2>2. Len(parts) \in Nat /\ DOMAIN parts = 1..Len(parts)
    BY <2>1
  <2> QED
    BY <2>1, <2>2
<1>7. \A i \in 1..Len(parts) : s[i] = [event |-> e, part |-> parts[i]]
  BY <1>4, <1>6
<1>8. ASSUME NEW i \in 1..Len(parts)
      PROVE s[i] \in Part /\ s[i].event = e /\ s[i].part = parts[i]
  <2>1. parts[i] \in Parts /\ s[i] = [event |-> e, part |-> parts[i]]
    BY <1>6, <1>7
  <2> QED
    BY <2>1 DEF Part
<1>9. s \in Seq(Part) /\ Len(s) = Len(parts)
  <2>1. Len(parts) \in Nat
    BY <1>3
  <2>2. s = [i \in 1..Len(parts) |-> s[i]]
    BY <1>4, <1>6
  <2> QED
    BY <1>8, <2>1, <2>2
<1> QED
  BY <1>3, <1>5, <1>8, <1>9

(* The entry that a chain ends with is the last event's.                    *)
LEMMA Enqueued ==
    ASSUME ServerTypes, NEW e \in Events, Enqueue(e)
    PROVE  /\ chain' \in [Agents -> Seq(Part)]
           /\ \A a \in Agents : a # e.agent => chain'[a] = chain[a]
           /\ chain'[e.agent] = chain[e.agent] \o PartsOf(e)
<1>1. chain' = [chain EXCEPT ![e.agent] = chain[e.agent] \o PartsOf(e)]
  BY DEF Enqueue
<1>2. PartsOf(e) \in Seq(Part) /\ e.agent \in Agents /\ chain \in [Agents -> Seq(Part)]
  BY PartsAre DEF Events, ServerTypes
<1>3. chain[e.agent] \o PartsOf(e) \in Seq(Part)
  BY <1>2
<1> QED
  BY <1>1, <1>2, <1>3

(* A new event is of its type.                                              *)
LEMMA NewEventIs ==
    ASSUME ServerTypes, NEW a \in Agents, NEW kind \in EventKinds, minted < MaxEvents
    PROVE  /\ NewEvent(a, kind) \in Events /\ minted + 1 \in Versions
           /\ NewEvent(a, kind).id = minted + 1 /\ NewEvent(a, kind).agent = a
           /\ NewEvent(a, kind).kind = kind
  BY Shown DEF ServerTypes, NewEvent, Events, Versions

(* The daemon keeps its types.                                              *)
LEMMA ServerTypesKept ==
    ASSUME TypeOK, [Next]_vars PROVE ServerTypes'
<1>0. ServerTypes
  BY TypesAre
<1>1. ASSUME NEW a \in Agents, NEW kind \in Kinds, Record(a, kind) PROVE ServerTypes'
  <2>1. kind \in EventKinds
    BY AgentReplicaAssumption
  <2>2. NewEvent(a, kind) \in Events /\ minted + 1 \in Versions
    BY <1>0, <1>1, <2>1, NewEventIs DEF Record
  <2> QED
    BY <1>0, <1>1, <2>2 DEF Record, ServerTypes
<1>2. CASE Publish
  <2>1. tx \in Events
    BY <1>0, <1>2 DEF Publish, Free, ServerTypes
  <2>2. chain' \in [Agents -> Seq(Part)]
    BY <1>0, <1>2, <2>1, Enqueued DEF Publish
  <2> QED
    BY <1>0, <1>2, <2>1, <2>2 DEF Publish, ServerTypes
<1>3. CASE Rollback
  BY <1>0, <1>3 DEF Rollback, ServerTypes
<1>4. ASSUME NEW a \in Agents, Stream(a) PROVE ServerTypes'
  <2>1. PICK e : e = NewEvent(a, "streamed")
    OBVIOUS
  <2>2. e \in Events /\ minted + 1 \in Versions
    BY <1>0, <1>4, <2>1, NewEventIs DEF Stream, EventKinds
  <2>3. /\ streamed' = streamed \cup {e} /\ Enqueue(e) /\ minted' = minted + 1
        /\ UNCHANGED <<tx, durable, liveRetries>>
    BY <1>4, <2>1 DEF Stream
  <2>4. chain' \in [Agents -> Seq(Part)]
    BY <1>0, <2>2, <2>3, Enqueued
  <2> QED
    BY <1>0, <2>2, <2>3, <2>4 DEF ServerTypes
<1>5. ASSUME NEW a \in Agents, Convert(a) PROVE ServerTypes'
  <2>1. PICK part, e : Converts(a, part, e)
    BY <1>5, ConvertIs
  <2>2. /\ e \in Events /\ chain' = [chain EXCEPT ![a] = Tail(chain[a])] /\ chain[a] # <<>>
        /\ UNCHANGED <<minted, tx, durable, streamed>>
    BY <2>1 DEF Converts
  <2>3. chain[a] \in Seq(Part)
    BY <1>0 DEF ServerTypes
  <2>4. chain' \in [Agents -> Seq(Part)]
    BY <1>0, <2>2, <2>3 DEF ServerTypes
  <2>5. e.agent \in Agents
    BY <2>2 DEF Events
  <2>6. liveRetries' \subseteq Agents
    BY <1>0, <2>1, <2>5 DEF Converts, ServerTypes
  <2> QED
    BY <1>0, <2>2, <2>4, <2>6 DEF ServerTypes
<1>6. CASE RestartDaemon
  <2>1. durable' \subseteq Events
    BY <1>0, <1>6 DEF RestartDaemon, ServerTypes, Free
  <2>2. chain' \in [Agents -> Seq(Part)]
    BY <1>6 DEF RestartDaemon
  <2> QED
    BY <1>0, <1>6, <2>1, <2>2 DEF RestartDaemon, ServerTypes
<1>7. CASE UNCHANGED serverVars
  BY <1>0, <1>7 DEF serverVars, ServerTypes
<1>8. CASE Elsewhere \/ Hello \/ Request \/ FinishSync \/ FailSync \/ RetryTimer \/ Prune
           \/ Reconnect \/ LoseConnection \/ StopAndStart \/ Rest
  BY <1>7, <1>8, Zenon DEF Elsewhere, Hello, Request, Capture, ReadDraft, ReadConfig, ReadVersion,
     ReadStatus, Serve, FinishSync, FailSync, RetryTimer, Prune, Reconnect, LoseConnection,
     StopAndStart, Rest, vars
<1>9. CASE \E p \in wire : Frame(p)
  BY <1>7, <1>9, Zenon DEF Frame
<1>10. CASE UNCHANGED vars
  BY <1>7, <1>10 DEF vars
<1> QED
  BY <1>1, <1>2, <1>3, <1>4, <1>5, <1>6, <1>8, <1>9, <1>10, Zenon
     DEF Next, Work, Transact, Receive
-----------------------------------------------------------------------------
(* The request for a snapshot                                               *)

(* What one of its statements reads changes just that.                      *)
ReadOf(a, stage, next) ==
    /\ client.syncing /\ snapshot.cursor # 0 /\ Free /\ snapshot.at[a] = stage
    /\ a # Root => snapshot.at[Root] = "done"
    /\ snapshot' \in SnapshotType /\ snapshot'.cursor = snapshot.cursor
    /\ snapshot'.draft = snapshot.draft /\ snapshot'.drafted = snapshot.drafted
    /\ snapshot'.at[a] = next
    /\ \A b \in Agents \ {a} :
           snapshot'.at[b] = snapshot.at[b] /\ snapshot'.agents[b] = snapshot.agents[b]
    /\ UNCHANGED <<feedVars, serverVars, client, faults>>

LEMMA ReadConfigIs ==
    ASSUME TypeOK, NEW a \in Agents, ReadConfig(a)
    PROVE ReadOf(a, "config", "version")
<1>1. snapshot' = [snapshot EXCEPT !.at[a] = "version", !.agents[a].title = Title(a)]
  BY Zenon DEF ReadConfig, Serve
<1>2. snapshot \in SnapshotType /\ Title(a) \in Versions
  BY ReadsAreVersions DEF TypeOK, Title
<1>3. snapshot.agents[a] \in Resource
  BY <1>2 DEF SnapshotType
<1>4. [snapshot.agents[a] EXCEPT !.title = Title(a)] \in Resource
  BY <1>2, <1>3 DEF Resource
<1>5. /\ client.syncing /\ snapshot.cursor # 0 /\ Free /\ snapshot.at[a] = "config"
      /\ a # Root => snapshot.at[Root] = "done"
      /\ UNCHANGED <<feedVars, serverVars, client, faults>>
  BY DEF ReadConfig, Reads, Serving, Serve
<1> HIDE DEF Title
<1> QED
  BY <1>1, <1>2, <1>4, <1>5 DEF ReadOf, SnapshotType

LEMMA ReadVersionIs ==
    ASSUME TypeOK, NEW a \in Agents, ReadVersion(a)
    PROVE /\ ReadOf(a, "version", "status")
          /\ snapshot'.agents[a].version = LatestVersion(a)
<1>1. snapshot' = [snapshot EXCEPT !.at[a] = "status", !.agents[a].version = LatestVersion(a)]
  BY Zenon DEF ReadVersion, Serve
<1>2. snapshot \in SnapshotType /\ LatestVersion(a) \in Versions
  BY ReadsAreVersions DEF TypeOK
<1>3. snapshot.agents[a] \in Resource
  BY <1>2 DEF SnapshotType
<1>4. /\ [snapshot.agents[a] EXCEPT !.version = LatestVersion(a)] \in Resource
      /\ [snapshot.agents[a] EXCEPT !.version = LatestVersion(a)].version = LatestVersion(a)
  BY <1>2, <1>3 DEF Resource
<1>5. /\ client.syncing /\ snapshot.cursor # 0 /\ Free /\ snapshot.at[a] = "version"
      /\ a # Root => snapshot.at[Root] = "done"
      /\ UNCHANGED <<feedVars, serverVars, client, faults>>
  BY DEF ReadVersion, Reads, Serving, Serve
<1> HIDE DEF LatestVersion
<1> QED
  BY <1>1, <1>2, <1>4, <1>5 DEF ReadOf, SnapshotType

LEMMA ReadStatusIs ==
    ASSUME TypeOK, NEW a \in Agents, ReadStatus(a)
    PROVE /\ ReadOf(a, "status", "done")
          /\ snapshot'.agents[a].version = snapshot.agents[a].version
          /\ snapshot'.agents[a].status = Status(a)
<1>1. snapshot' = [snapshot EXCEPT !.at[a] = "done", !.agents[a].status = Status(a)]
  BY Zenon DEF ReadStatus, Serve
<1>2. snapshot \in SnapshotType /\ Status(a) \in {"working", "idle"}
  BY ReadsAreVersions DEF TypeOK, Status
<1>3. snapshot.agents[a] \in Resource
  BY <1>2 DEF SnapshotType
<1>4. /\ [snapshot.agents[a] EXCEPT !.status = Status(a)] \in Resource
      /\ [snapshot.agents[a] EXCEPT !.status = Status(a)].status = Status(a)
      /\ [snapshot.agents[a] EXCEPT !.status = Status(a)].version = snapshot.agents[a].version
  BY <1>2, <1>3 DEF Resource
<1>5. /\ client.syncing /\ snapshot.cursor # 0 /\ Free /\ snapshot.at[a] = "status"
      /\ a # Root => snapshot.at[Root] = "done"
      /\ UNCHANGED <<feedVars, serverVars, client, faults>>
  BY DEF ReadStatus, Reads, Serving, Serve
<1> HIDE DEF Status
<1> QED
  BY <1>1, <1>2, <1>4, <1>5 DEF ReadOf, SnapshotType

(* The first step of a request, and its last statement.                     *)
LEMMA CaptureIs ==
    ASSUME Base, Capture
    PROVE /\ client.syncing /\ snapshot.cursor = 0
          /\ snapshot' \in SnapshotType /\ snapshot'.cursor = Len(log)
          /\ snapshot'.at = snapshot.at /\ snapshot'.agents = snapshot.agents
          /\ snapshot'.draft = snapshot.draft /\ snapshot'.drafted = snapshot.drafted
          /\ UNCHANGED <<feedVars, serverVars, client, faults>>
<1>1. snapshot' = [snapshot EXCEPT !.cursor = Len(log)]
  BY Zenon DEF Capture, Serve
<1>2. snapshot \in SnapshotType /\ Len(log) \in Nat
  BY DEF Base, TypeOK, FeedInv, JournalInv
<1> QED
  BY <1>1, <1>2 DEF SnapshotType, Capture, Serving, Serve

LEMMA ReadDraftIs ==
    ASSUME TypeOK, ReadDraft
    PROVE /\ client.syncing /\ snapshot.cursor # 0 /\ Free /\ snapshot.at[Root] = "done"
          /\ snapshot' \in SnapshotType /\ snapshot'.cursor = snapshot.cursor
          /\ snapshot'.at = snapshot.at /\ snapshot'.agents = snapshot.agents
          /\ snapshot'.draft = Draft(Root) /\ snapshot'.drafted
          /\ UNCHANGED <<feedVars, serverVars, client, faults>>
<1>1. snapshot' = [snapshot EXCEPT !.draft = Draft(Root), !.drafted = TRUE]
  BY Zenon DEF ReadDraft, Serve
<1>2. snapshot \in SnapshotType /\ Draft(Root) \in Versions
  BY ReadsAreVersions, Shown DEF TypeOK
<1> QED
  BY <1>1, <1>2 DEF SnapshotType, ReadDraft, Reads, Serving, Serve

(* How the request goes on when it fails, or the client stops.              *)
LEMMA FailIs ==
    ASSUME TypeOK, FailSync
    PROVE /\ client.syncing /\ ClientOK(client', cursor) /\ client'.replica = client.replica
          /\ ~client'.syncing /\ client'.dirty /\ client'.recent = {} /\ client'.retrying
          /\ snapshot' = NoSnapshot /\ faults' \in 0..MaxFaults
          /\ UNCHANGED <<feedVars, serverVars>>
<1>1. client' = [client EXCEPT !.syncing = FALSE, !.recent = {}, !.dirty = TRUE, !.retrying = TRUE]
  BY Zenon DEF FailSync
<1>2. client \in ClientType /\ faults \in 0..MaxFaults /\ MaxFaults \in Nat
  BY AgentReplicaAssumption DEF TypeOK
<1>3. faults' \in 0..MaxFaults
  BY <1>2 DEF FailSync, Fails, Fault
<1>4. /\ client' \in ClientType /\ client'.replica = client.replica
      /\ ~client'.syncing /\ client'.dirty /\ client'.recent = {} /\ client'.retrying
  BY <1>1, <1>2 DEF ClientType
<1> QED
  BY <1>3, <1>4 DEF FailSync, Fails, ClientOK

LEMMA StopIs ==
    ASSUME TypeOK, StopAndStart
    PROVE /\ ClientOK(client', cursor) /\ client'.replica = client.replica
          /\ ~client'.syncing /\ client'.dirty /\ client'.recent = {}
          /\ snapshot' = NoSnapshot /\ faults' \in 0..MaxFaults
<1>1. client' = [client EXCEPT !.syncing = FALSE, !.recent = {}, !.retrying = FALSE, !.dirty = TRUE]
  BY Zenon DEF StopAndStart
<1>2. client \in ClientType /\ faults \in 0..MaxFaults /\ MaxFaults \in Nat
  BY AgentReplicaAssumption DEF TypeOK
<1>3. faults' \in 0..MaxFaults
  BY <1>2 DEF StopAndStart, Fault
<1>4. /\ client' \in ClientType /\ client'.replica = client.replica
      /\ ~client'.syncing /\ client'.dirty /\ client'.recent = {} /\ ~client'.retrying
  BY <1>1, <1>2 DEF ClientType
<1> QED
  BY <1>3, <1>4 DEF StopAndStart, ClientOK

LEMMA TimerIs ==
    ASSUME TypeOK, RetryTimer
    PROVE \E c : /\ client.retrying /\ client.dirty /\ ~client.syncing
                 /\ ClientOK(c, cursor) /\ c.replica = client.replica /\ c.recent = {}
                 /\ c.dirty /\ ~c.syncing
                 /\ client' = Drain(c) /\ snapshot' = NoSnapshot
                 /\ UNCHANGED <<feedVars, serverVars, faults>>
<1>1. PICK c : c = [client EXCEPT !.retrying = FALSE]
  OBVIOUS
<1>2. client \in ClientType /\ client.retrying /\ client.dirty /\ ~client.syncing /\ client.recent = {}
  BY DEF TypeOK, RetryTimer
<1>3. /\ c \in ClientType /\ c.replica = client.replica /\ c.dirty = client.dirty
      /\ c.syncing = client.syncing /\ c.recent = client.recent /\ ~c.retrying
  BY <1>1, <1>2 DEF ClientType
<1>4. ClientOK(c, cursor)
  BY <1>2, <1>3 DEF ClientOK
<1>5. Becomes(Drain(c)) /\ UNCHANGED <<feedVars, serverVars, faults>>
  BY <1>1, Zenon DEF RetryTimer
<1>6. client' = Drain(c) /\ snapshot' = NoSnapshot
  BY <1>2, <1>5 DEF Becomes
<1> QED
  BY <1>2, <1>3, <1>4, <1>5, <1>6

LEMMA PruneIs ==
    ASSUME TypeOK, Prune
    PROVE /\ client.syncing /\ ClientOK(client', cursor) /\ client'.replica = client.replica
          /\ client'.syncing /\ client'.dirty = client.dirty /\ client'.recent \subseteq client.recent
          /\ ~client'.complete /\ faults' \in 0..MaxFaults
          /\ UNCHANGED <<feedVars, serverVars, snapshot>>
<1>1. PICK k : client' = [client EXCEPT !.recent = {p \in client.recent : p > k}, !.complete = FALSE]
  BY Zenon DEF Prune
<1>2. client \in ClientType /\ faults \in 0..MaxFaults /\ MaxFaults \in Nat
  BY AgentReplicaAssumption DEF TypeOK
<1>3. faults' \in 0..MaxFaults
  BY <1>2 DEF Prune, Fault
<1>4. /\ client' \in ClientType /\ client'.replica = client.replica
      /\ client'.syncing = client.syncing /\ client'.dirty = client.dirty
      /\ client'.recent \subseteq client.recent /\ ~client'.complete
      /\ client'.retrying = client.retrying
  BY <1>1, <1>2 DEF ClientType
<1>5. client.syncing /\ client.recent \subseteq 1..cursor /\ ~client.retrying
  BY DEF TypeOK, Prune, ClientType
<1> QED
  BY <1>3, <1>4, <1>5 DEF Prune, ClientOK


(* A reducer within its types stays so when the cursor moves on.            *)
LEMMA ClientOKLater ==
    ASSUME NEW c, NEW m \in Nat, NEW n \in Nat, m <= n, ClientOK(c, m) PROVE ClientOK(c, n)
<1>1. 1..m \subseteq 1..n
  OBVIOUS
<1> QED
  BY <1>1 DEF ClientOK

(* The client keeps its types, and what is shown of the agent does not go   *)
(* back (NeverGoesBack).                                                    *)
Forward(old, new) ==
    old.known => /\ new.known /\ new.agent.version >= old.agent.version
                 /\ new.draftCursor >= old.draftCursor

LEMMA ForwardStays ==
    ASSUME NEW r \in ReplicaType PROVE Forward(r, r)
  BY Shown DEF Forward, ReplicaType, Resource, Versions

LEMMA ReducerKept ==
    ASSUME Base, [Next]_vars
    PROVE ReducerTypes' /\ Forward(client.replica, client'.replica)
<1>0. /\ TypeOK /\ FeedInv /\ ReducerTypes /\ [FeedNext]_feedVars
      /\ client.replica \in ReplicaType
      /\ cursor \in Nat /\ snapshot.cursor \in Nat /\ MaxFaults \in Nat
  BY TypesAre, FeedStep, AgentReplicaAssumption
     DEF Base, TypeOK, ClientType, SnapshotType, FeedInv, ConnectionInv, JournalInv
<1>1. /\ Len(log) \in Nat /\ Len(log') \in Nat /\ Len(log') >= Len(log)
  BY <1>0, LogGrows
<1>2. /\ snapshot.cursor <= Len(log') /\ NoSnapshot.cursor <= Len(log')
      /\ snapshot.cursor <= Len(log)
  BY <1>0, <1>1 DEF ReducerTypes, NoSnapshot
<1>3. Forward(client.replica, client.replica)
  BY <1>0, ForwardStays
<1>4. /\ snapshot \in SnapshotType /\ ClientOK(client, cursor) /\ faults \in 0..MaxFaults
      /\ client.syncing \in BOOLEAN
      /\ ~client.syncing => snapshot = NoSnapshot
  BY <1>0 DEF ReducerTypes, ClientOK, ClientType
<1>5. ASSUME UNCHANGED <<client, snapshot>>, faults' \in 0..MaxFaults, cursor' = cursor
      PROVE ReducerTypes' /\ Forward(client.replica, client'.replica)
  BY <1>2, <1>3, <1>4, <1>5 DEF ReducerTypes
<1>6. ASSUME Forgets(client'), ClientOK(client', cursor'), faults' \in 0..MaxFaults
      PROVE ReducerTypes'
  BY <1>2, <1>4, <1>6, NoSnapshotIs DEF ReducerTypes, Forgets
<1>7. CASE Work \/ Elsewhere \/ Rest \/ (\E a \in Agents, kind \in Kinds : Record(a, kind))
           \/ (\E a \in Agents : "streamed" \in Kinds /\ Stream(a))
  <2>1. UNCHANGED <<client, snapshot, faults, cursor>>
    <3>1. UNCHANGED <<followerVars, reducerVars>>
      BY <1>7, Zenon DEF Work, Transact, Publish, Rollback, Convert, Elsewhere, Rest, vars, Record,
         Stream, feedVars
    <3> QED
      BY <3>1 DEF followerVars, reducerVars
  <2> QED
    BY <1>4, <1>5, <2>1
<1>8. CASE Reconnect \/ LoseConnection
  <2>1. UNCHANGED <<client, snapshot, cursor>> /\ (UNCHANGED faults \/ Fault)
    BY <1>8 DEF Reconnect, LoseConnection, followerVars, reducerVars
  <2>2. faults' \in 0..MaxFaults
    BY <1>0, <1>4, <2>1 DEF Fault
  <2> QED
    BY <1>5, <2>1, <2>2
<1>9. CASE RestartDaemon
  <2>1. UNCHANGED <<client, cursor>> /\ Fault
    BY <1>9 DEF RestartDaemon, followerVars
  <2>2. faults' \in 0..MaxFaults
    BY <1>0, <1>4, <2>1 DEF Fault
  <2>3. PICK dead : dead = [NoSnapshot EXCEPT !.dead = TRUE]
    OBVIOUS
  <2>4. dead \in SnapshotType /\ dead.cursor = 0
    BY <2>3, NoSnapshotIs DEF NoSnapshot
  <2>6. snapshot' = snapshot \/ (client.syncing /\ snapshot' = dead)
    BY <1>9, <2>3 DEF RestartDaemon
  <2>5. /\ snapshot' \in SnapshotType /\ snapshot'.cursor <= Len(log')
        /\ ~client'.syncing => snapshot' = NoSnapshot
    BY <1>1, <1>2, <1>4, <2>1, <2>4, <2>6
  <2> QED
    BY <1>3, <1>4, <2>1, <2>2, <2>5 DEF ReducerTypes
<1>10. CASE Request
  <2>1. /\ snapshot' \in SnapshotType /\ snapshot'.cursor \in {snapshot.cursor, Len(log)}
        /\ client.syncing /\ UNCHANGED <<feedVars, serverVars, client, faults>>
    <3>1. CASE Capture
      BY <3>1, CaptureIs
    <3>2. CASE ReadDraft
      BY <1>0, <3>2, ReadDraftIs
    <3>3. ASSUME NEW a \in Agents, ReadConfig(a) \/ ReadVersion(a) \/ ReadStatus(a)
          PROVE \E stage, next : ReadOf(a, stage, next)
      BY <1>0, <3>3, ReadConfigIs, ReadVersionIs, ReadStatusIs
    <3>4. CASE \E a \in Agents : ReadConfig(a) \/ ReadVersion(a) \/ ReadStatus(a)
      BY <3>3, <3>4 DEF ReadOf
    <3> QED
      BY <1>10, <3>1, <3>2, <3>4 DEF Request
  <2>2. UNCHANGED <<log, cursor>>
    BY <2>1 DEF feedVars, followerVars
  <2>3. snapshot'.cursor <= Len(log')
    BY <1>1, <1>2, <2>1, <2>2
  <2> QED
    BY <1>3, <1>4, <2>1, <2>2, <2>3 DEF ReducerTypes
<1>11. CASE Hello
  <2>1. ClientOK(client', cursor) /\ Follows(client, client')
    BY <1>0, <1>4, <1>11, HelloIs
  <2>2. client' = Suspect(Suspect(Drained(client), Replaced), StateLost)
        /\ Becomes(Suspect(Suspect(Drained(client), Replaced), StateLost)) /\ ReadHello
        /\ UNCHANGED faults
    BY <1>11, Zenon DEF Hello, Becomes
  <2>3. Forgets(client')
    BY <1>4, <2>1, <2>2 DEF Becomes, Forgets, ClientOK, ClientType
  <2>4. cursor' \in Nat /\ cursor <= cursor'
    <3>1. hello.cursor \in Nat /\ cursor <= hello.cursor
      BY <1>0, <2>2 DEF FeedInv, ConnectionInv, HelloFrame, ReadHello
    <3> QED
      BY <1>0, <2>2, <3>1 DEF ReadHello
  <2>5. ClientOK(client', cursor')
    BY <1>0, <2>1, <2>4, ClientOKLater
  <2>6. Forward(client.replica, client'.replica)
    BY <1>3, <2>1 DEF Follows
  <2> QED
    BY <1>4, <1>6, <2>2, <2>3, <2>5, <2>6
<1>12. ASSUME NEW p \in wire, Frame(p)
       PROVE ReducerTypes' /\ Forward(client.replica, client'.replica)
  <2>1. PICK c : Frames(p, c)
    BY <1>0, <1>4, <1>12, FrameIs
  <2>2. /\ ClientOK(c, p) /\ client' = Drained(c) /\ Forgets(client') /\ cursor' = p
        /\ UNCHANGED faults
    BY <2>1 DEF Frames
  <2>3. ClientOK(client', cursor') /\ client'.replica = c.replica
    BY <2>2, DrainedIs DEF Follows
  <2>4. Forward(client.replica, c.replica)
    BY <2>1 DEF Frames, Reduces, Forward
  <2> QED
    BY <1>4, <1>6, <2>2, <2>3, <2>4
<1>13. CASE FinishSync
  <2>1. PICK c : Finishes(c)
    BY <1>0, <1>13, FinishIs DEF Base, RecentSeen
  <2>2. /\ ClientOK(c, cursor) /\ client' = Drain(c) /\ snapshot' = NoSnapshot
        /\ UNCHANGED <<log, cursor, faults>>
    BY <2>1 DEF Finishes, feedVars, followerVars
  <2>3. ClientOK(client', cursor') /\ client'.replica = Rebased.replica
    BY <2>1, <2>2, DrainIs DEF Follows, Finishes
  <2>4. PICK start : start = Adopt(client.replica)
    OBVIOUS
  <2>5. Adopts(client.replica, start)
    BY <1>0, <1>4, <2>4, AdoptIs
  <2>6. Folded(start, Len(log), Rebased)
    BY <1>0, <2>4, RebasedFolds DEF Base, RecentSeen
  <2>7. PICK r : r = Rebased.replica
    OBVIOUS
  <2>8. /\ r \in ReplicaType /\ r.known /\ r.agent.version >= start.agent.version
        /\ r.draftCursor >= start.draftCursor /\ start \in ReplicaType
        /\ start.draftCursor >= client.replica.draftCursor
        /\ client.replica.known => start.agent.version >= client.replica.agent.version
    BY <2>5, <2>6, <2>7 DEF Adopts, Folded
  <2>9. \A s \in ReplicaType : s.agent.version \in Nat /\ s.draftCursor \in Nat
    BY Shown DEF ReplicaType, Resource, Versions
  <2>10. Forward(client.replica, r)
    BY <1>0, <2>8, <2>9 DEF Forward
  <2> QED
    BY <1>2, <1>4, <2>2, <2>3, <2>7, <2>10, NoSnapshotIs DEF ReducerTypes
<1>14. CASE FailSync
  BY <1>0, <1>2, <1>3, <1>14, FailIs, NoSnapshotIs DEF ReducerTypes, feedVars, followerVars
<1>15. CASE StopAndStart
  <2>1. UNCHANGED cursor
    BY <1>15 DEF StopAndStart
  <2> QED
    BY <1>0, <1>2, <1>3, <1>15, <2>1, StopIs, NoSnapshotIs DEF ReducerTypes
<1>16. CASE RetryTimer
  <2>1. PICK c : /\ ClientOK(c, cursor) /\ c.replica = client.replica
                 /\ client' = Drain(c) /\ snapshot' = NoSnapshot
                 /\ UNCHANGED <<feedVars, serverVars, faults>>
    BY <1>0, <1>16, TimerIs
  <2>2. ClientOK(client', cursor) /\ client'.replica = client.replica
    BY <2>1, DrainIs DEF Follows
  <2>3. UNCHANGED <<log, cursor, faults>>
    BY <2>1 DEF feedVars, followerVars
  <2> QED
    BY <1>2, <1>3, <1>4, <2>1, <2>2, <2>3, NoSnapshotIs DEF ReducerTypes
<1>17. CASE Prune
  <2>1. UNCHANGED <<log, cursor>>
    BY <1>0, <1>17, PruneIs DEF feedVars, followerVars
  <2> QED
    BY <1>0, <1>2, <1>3, <1>4, <1>17, <2>1, PruneIs DEF ReducerTypes
<1>18. CASE UNCHANGED vars
  BY <1>4, <1>5, <1>18 DEF vars, feedVars, followerVars, reducerVars
<1> QED
  BY <1>7, <1>8, <1>9, <1>10, <1>11, <1>12, <1>13, <1>14, <1>15, <1>16, <1>17, <1>18, Zenon
     DEF Next, Receive


(* What the client remembers stays what it was shown.                       *)
LEMMA RecentSeenKept ==
    ASSUME Base, [Next]_vars PROVE RecentSeen'
<1>0. /\ TypeOK /\ FeedInv /\ [FeedNext]_feedVars /\ ClientOK(client, cursor)
      /\ cursor \in 0..Len(log) /\ Len(log) \in Nat
  BY TypesAre, FeedStep DEF Base, ReducerTypes, FeedInv, ConnectionInv, JournalInv
<1>1. \A p \in 1..Len(log) : log'[p] = log[p]
  BY <1>0, LogGrows
<1>2. \A p \in client.recent : p \in 1..Len(log) /\ log[p] \in Visible /\ log'[p] \in Visible
  BY <1>0, <1>1 DEF ClientOK, Base, RecentSeen
<1>3. ASSUME client'.recent \subseteq client.recent PROVE RecentSeen'
  BY <1>2, <1>3 DEF RecentSeen
<1>4. CASE UNCHANGED client
  BY <1>3, <1>4
<1>5. CASE Hello
  BY <1>0, <1>3, <1>5, HelloIs DEF Follows
<1>6. ASSUME NEW p \in wire, Frame(p) PROVE RecentSeen'
  <2>1. PICK c : Frames(p, c)
    BY <1>0, <1>6, FrameIs
  <2>2. client'.recent \subseteq c.recent
    BY <2>1, DrainedIs DEF Frames, Follows
  <2>3. c.recent \subseteq client.recent \cup {p} /\ log[p] \in Visible /\ log' = log
    BY <2>1 DEF Frames
  <2> QED
    BY <1>2, <2>2, <2>3 DEF RecentSeen
<1>7. CASE FinishSync
  <2>1. PICK c : Finishes(c)
    BY <1>0, <1>7, FinishIs DEF Base, RecentSeen
  <2>2. client'.recent = {}
    BY <2>1, DrainIs DEF Finishes, Follows
  <2> QED
    BY <2>2 DEF RecentSeen
<1>8. CASE FailSync \/ StopAndStart \/ Prune
  BY <1>0, <1>3, <1>8, FailIs, StopIs, PruneIs
<1>9. CASE RetryTimer
  <2>1. PICK c : ClientOK(c, cursor) /\ c.recent = {} /\ client' = Drain(c)
    BY <1>0, <1>9, TimerIs
  <2> QED
    BY <2>1, DrainIs DEF Follows, RecentSeen
<1>10. CASE Work \/ Elsewhere \/ Rest \/ Request \/ Reconnect \/ LoseConnection \/ RestartDaemon
            \/ (\E a \in Agents, kind \in Kinds : Record(a, kind))
            \/ (\E a \in Agents : "streamed" \in Kinds /\ Stream(a))
  <2>1. UNCHANGED client \/ UNCHANGED reducerVars \/ UNCHANGED vars
    BY <1>10, Zenon DEF Work, Transact, Publish, Rollback, Convert, Elsewhere, Rest, Record,
       Stream, Request, Capture, ReadDraft, ReadConfig, ReadVersion, ReadStatus, Serve,
       Reconnect, LoseConnection, RestartDaemon
  <2> QED
    BY <1>4, <2>1 DEF reducerVars, vars
<1>11. CASE UNCHANGED vars
  BY <1>4, <1>11 DEF vars, reducerVars
<1> QED
  BY <1>5, <1>6, <1>7, <1>8, <1>9, <1>10, <1>11, Zenon DEF Next, Receive

LEMMA BaseInitially == Init => Base
<1> SUFFICES ASSUME Init PROVE Base
  OBVIOUS
<1>1. FeedInit /\ FeedInv
  BY FeedInitially DEF Init
<1>2. log = <<Origin>> /\ cursor = 0
  BY <1>1 DEF FeedInit
<1>3. client = [replica |-> NoReplica, dirty |-> TRUE, syncing |-> FALSE,
                recent |-> {}, complete |-> TRUE, retrying |-> FALSE]
  BY DEF Init
<1>4. NoReplica \in ReplicaType
  BY Shown DEF NoReplica, ReplicaType, Unread, Resource
<1>5. ClientOK(client, cursor) /\ RecentSeen
  BY <1>3, <1>4 DEF ClientOK, ClientType, RecentSeen
<1>6. chain \in [Agents -> Seq(Part)]
  BY DEF Init
<1>7. ServerTypes
  BY <1>6, Shown DEF Init, ServerTypes
<1>8. NoSnapshot.cursor <= Len(log)
  BY <1>2 DEF NoSnapshot
<1>9. faults \in 0..MaxFaults
  BY AgentReplicaAssumption DEF Init
<1>10. ReducerTypes
  BY <1>3, <1>5, <1>8, <1>9, NoSnapshotIs DEF ReducerTypes, Init
<1> QED
  BY <1>1, <1>5, <1>7, <1>10, TypesAre DEF Base

LEMMA BaseKept == Base /\ [Next]_vars => Base'
<1> SUFFICES ASSUME Base, [Next]_vars PROVE Base'
  OBVIOUS
<1>1. [FeedNext]_feedVars /\ FeedInv /\ TypeOK
  BY FeedStep DEF Base
<1>2. FeedInv'
  BY <1>1, JournalKept, ConnectionKept DEF FeedInv
<1>3. ServerTypes' /\ ReducerTypes'
  BY <1>1, ServerTypesKept, ReducerKept
<1>4. TypeOK'
  BY <1>3 DEF TypeOK, ServerTypes, ReducerTypes, ClientOK
<1> QED
  BY <1>2, <1>4, RecentSeenKept DEF Base

(* Every variable stays within the values the code can give it, and the     *)
(* feed's own invariant holds under the traffic of the agents.              *)
THEOREM ReplicaTypes == Spec => [](TypeOK /\ FeedInv)
<1>1. Base => TypeOK /\ FeedInv
  BY DEF Base
<1> QED
  BY <1>1, BaseInitially, BaseKept, PTL DEF Spec

(* No event of the journal is skipped or shown twice unless the client is   *)
(* told that state was lost: the feed keeps FaithfulFeed's promise in the   *)
(* daemon that converts its agents' events for it.                          *)
THEOREM ReplicaFeed == Spec => FeedIsFaithful
<1>1. Init => FeedInit
  BY DEF Init
<1>2. Base /\ [Next]_vars => [FeedNext]_feedVars
  BY FeedStep DEF Base
<1>3. Spec => FeedSpec
  BY <1>1, <1>2, BaseInitially, BaseKept, PTL DEF Spec, FeedSpec
<1> QED
  BY <1>3, FeedKeepsItsPromise

(* What is shown of the agent is never replaced by an older version, nor    *)
(* its draft by one of an older cursor: not by a late snapshot, and not by  *)
(* an event that was on its way (createHappyReducerAgentReplica,            *)
(* applyResourceUpdate in HappyReducerAgentReplica.ts).                     *)
THEOREM NeverBack == Spec => NeverGoesBack
<1>1. Base /\ [Next]_vars =>
        [client.replica.known =>
            /\ client'.replica.known
            /\ client'.replica.agent.version >= client.replica.agent.version
            /\ client'.replica.draftCursor >= client.replica.draftCursor]_vars
  BY ReducerKept DEF Forward
<1> QED
  BY <1>1, BaseInitially, BaseKept, PTL DEF Spec, NeverGoesBack
-----------------------------------------------------------------------------
(* The daemon's events                                                      *)

(* How a step changes what was minted: a transaction opens with an event,   *)
(* or ends, perhaps with its event committed; or text is streamed.          *)
Opens(e) ==
    /\ Free /\ e \in Events /\ e.id = minted + 1 /\ e.kind \in Kinds /\ e.kind # "streamed"
    /\ Happens(e.agent, e.kind)
    /\ tx' = e /\ minted' = minted + 1 /\ UNCHANGED <<durable, streamed, chain>>
Ends ==
    /\ tx' = NoEvent /\ minted' = minted
    /\ durable' = durable \/ (~Free /\ durable' = durable \cup {tx})
    /\ streamed' \in {streamed, {}}
Streams(e) ==
    /\ e \in Events /\ e.id = minted + 1 /\ e.kind = "streamed" /\ Happens(e.agent, "streamed")
    /\ Enqueue(e) /\ streamed' = streamed \cup {e} /\ minted' = minted + 1
    /\ UNCHANGED <<tx, durable>>
SameEvents == UNCHANGED <<minted, tx, durable, streamed>>

LEMMA EventsStep ==
    ASSUME TypeOK, [Next]_vars
    PROVE SameEvents \/ Ends \/ (\E e : Opens(e)) \/ (\E e : Streams(e))
<1>0. ServerTypes
  BY TypesAre
<1>1. ASSUME NEW a \in Agents, NEW kind \in Kinds, Record(a, kind) PROVE \E e : Opens(e)
  <2>1. kind \in EventKinds /\ minted < MaxEvents
    BY <1>1, AgentReplicaAssumption DEF Record
  <2>2. PICK e : e = NewEvent(a, kind)
    OBVIOUS
  <2>3. e \in Events /\ e.id = minted + 1 /\ e.agent = a /\ e.kind = kind
    BY <1>0, <2>1, <2>2, NewEventIs
  <2>4. Opens(e)
    BY <1>1, <2>2, <2>3, Zenon DEF Record, Opens
  <2> QED
    BY <2>4
<1>2. ASSUME NEW a \in Agents, "streamed" \in Kinds, Stream(a) PROVE \E e : Streams(e)
  <2>1. minted < MaxEvents /\ "streamed" \in EventKinds
    BY <1>2 DEF Stream, EventKinds
  <2>2. PICK e : e = NewEvent(a, "streamed")
    OBVIOUS
  <2>3. e \in Events /\ e.id = minted + 1 /\ e.agent = a /\ e.kind = "streamed"
    BY <1>0, <2>1, <2>2, NewEventIs
  <2>4. Streams(e)
    BY <1>2, <2>2, <2>3, Zenon DEF Stream, Streams
  <2> QED
    BY <2>4
<1>3. CASE Transact \/ RestartDaemon
  <2>1. Ends
    BY <1>3 DEF Transact, Publish, Rollback, RestartDaemon, Ends
  <2> QED
    BY <2>1
<1>4. CASE (\E a \in Agents : Convert(a)) \/ Elsewhere \/ Receive \/ Request
           \/ FinishSync \/ FailSync \/ RetryTimer \/ Prune \/ Reconnect \/ LoseConnection
           \/ StopAndStart \/ Rest \/ UNCHANGED vars
  <2>1. SameEvents \/ UNCHANGED serverVars
    BY <1>4, Zenon DEF Convert, Elsewhere, Receive, Hello, Frame, Request, Capture, ReadDraft,
       ReadConfig, ReadVersion, ReadStatus, Serve, FinishSync, FailSync, RetryTimer, Prune,
       Reconnect, LoseConnection, StopAndStart, Rest, vars, SameEvents
  <2> QED
    BY <2>1 DEF serverVars, SameEvents
<1> QED
  BY <1>1, <1>2, <1>3, <1>4, Zenon DEF Next, Work

(* The status that a set of events makes.                                   *)
TurnsIn(D, a) == WithKind({"started", "settled"}, Of(a, D))
StatusIn(D, a, v) ==
    LET turns == {e \in TurnsIn(D, a) : e.id <= v}
    IN  IF \E e \in turns : e.kind = "settled" /\ e.id = Greatest(Ids(turns))
        THEN "idle" ELSE "working"

LEMMA StatusIsIn ==
    ASSUME NEW a, NEW v
    PROVE /\ StatusAt(a, v) = StatusIn(durable, a, v)
          /\ StatusAt(a, v)' = StatusIn(durable', a, v)
          /\ Turns(a) = TurnsIn(durable, a) /\ Turns(a)' = TurnsIn(durable', a)
  BY Zenon DEF StatusAt, StatusIn, TurnsIn, Turns, WithKind, Of, Ids, Greatest

LEMMA StatusInSame ==
    ASSUME NEW D, NEW E, NEW a, NEW v, NEW w,
           {e \in TurnsIn(D, a) : e.id <= v} = {e \in TurnsIn(E, a) : e.id <= w}
    PROVE StatusIn(D, a, v) = StatusIn(E, a, w)
<1>1. PICK turns : turns = {e \in TurnsIn(D, a) : e.id <= v}
  OBVIOUS
<1> QED
  BY <1>1, Zenon DEF StatusIn

(* What comes later, of another agent, or is no turn, changes no status.    *)
LEMMA StatusInLater ==
    ASSUME NEW D, NEW f, NEW a, NEW v \in Int,
           ~(f.id <= v) \/ f.agent # a \/ f.kind \notin {"started", "settled"}
    PROVE StatusIn(D \cup {f}, a, v) = StatusIn(D, a, v)
<1>1. PICK E : E = D \cup {f}
  OBVIOUS
<1>2. {e \in TurnsIn(E, a) : e.id <= v} = {e \in TurnsIn(D, a) : e.id <= v}
  BY <1>1 DEF TurnsIn, WithKind, Of
<1>3. StatusIn(E, a, v) = StatusIn(D, a, v)
  BY <1>2, StatusInSame
<1> QED
  BY <1>1, <1>3

(* After the last turn nothing changes.                                     *)
LEMMA StatusInLast ==
    ASSUME NEW D, NEW a, NEW v, NEW w, \A e \in D : e.id <= v /\ e.id <= w
    PROVE StatusIn(D, a, v) = StatusIn(D, a, w)
<1>1. {e \in TurnsIn(D, a) : e.id <= v} = {e \in TurnsIn(D, a) : e.id <= w}
  BY DEF TurnsIn, WithKind, Of
<1> QED
  BY <1>1, StatusInSame

(* At a turn the status is the one it brings.                               *)
LEMMA StatusInTurn ==
    ASSUME NEW D \in SUBSET Events, NEW f \in D, f.kind \in {"started", "settled"},
           \A e \in D : e.id = f.id => e = f
    PROVE StatusIn(D, f.agent, f.id) = IF f.kind = "settled" THEN "idle" ELSE "working"
<1>1. PICK turns : turns = {e \in TurnsIn(D, f.agent) : e.id <= f.id}
  OBVIOUS
<1>2. f.id \in Nat /\ f.id <= f.id
  BY DEF Events
<1>3. turns \subseteq D /\ f \in turns /\ \A e \in turns : e.id <= f.id
  BY <1>1, <1>2 DEF TurnsIn, WithKind, Of
<1>4. MaxEvents \in Nat /\ Ids(turns) \in SUBSET (0..MaxEvents)
  BY <1>3, Shown DEF Ids, Events
<1>5. PICK g : g = Greatest(Ids(turns))
  OBVIOUS
<1>6. g \in Ids(turns) \cup {0} /\ \A m \in Ids(turns) : m <= g
  BY <1>4, <1>5, GreatestIs
<1>7. f.id \in Ids(turns) /\ f.id > 0
  BY <1>3 DEF Ids, Events
<1>8. g = f.id
  <2>1. f.id <= g /\ g # 0
    BY <1>2, <1>6, <1>7
  <2>2. PICK e \in turns : e.id = g
    BY <1>6, <2>1 DEF Ids
  <2>3. g <= f.id /\ g \in Nat
    BY <1>3, <2>2 DEF Events
  <2> QED
    BY <1>2, <2>1, <2>3
<1>9. (\E e \in turns : e.kind = "settled" /\ e.id = Greatest(Ids(turns))) <=> f.kind = "settled"
  BY <1>3, <1>5, <1>8
<1>10. StatusIn(D, f.agent, f.id) =
          IF \E e \in turns : e.kind = "settled" /\ e.id = Greatest(Ids(turns))
          THEN "idle" ELSE "working"
  BY <1>1, Zenon DEF StatusIn
<1> QED
  BY <1>9, <1>10


LEMMA StatusIs ==
    ASSUME NEW a
    PROVE Status(a) = StatusIn(durable, a, minted) /\ Status(a)' = StatusIn(durable', a, minted')
  BY Zenon DEF Status, StatusAt, StatusIn, TurnsIn, WithKind, Of, Ids, Greatest

(* Identities as numbers.                                                   *)
LEMMA EventNumbers ==
    ASSUME TypeOK
    PROVE /\ minted \in Nat /\ \A e \in Events : e.id \in Nat /\ e.agent \in Agents
          /\ durable \subseteq Events /\ streamed \subseteq Events
          /\ tx \in Events \/ tx = NoEvent
          /\ NoEvent.kind = "none" /\ NoEvent \notin Events
  BY Shown DEF TypeOK, Versions, Events, NoEvent

LEMMA EventsKept ==
    ASSUME Base, EventsInv, [Next]_vars PROVE EventsInv'
<1>0. TypeOK
  BY DEF Base
<1> USE EventNumbers, <1>0
<1>e. /\ \A e \in durable \cup streamed : e.id <= minted
      /\ \A e, f \in durable \cup streamed : e.id = f.id => e = f
      /\ \A e \in streamed : e.kind = "streamed"
      /\ ~Free => /\ tx.id <= minted /\ tx.kind # "streamed"
                  /\ \A e \in durable : e.id < tx.id
                  /\ \A e \in streamed : e.id # tx.id
                  /\ tx.kind = "started" => Status(tx.agent) = "idle"
  BY DEF EventsInv
<1>1. CASE SameEvents
  <2>1. \A a : Status(a)' = Status(a)
    BY <1>1, StatusIs, Zenon DEF SameEvents
  <2>2. Free' <=> Free
    BY <1>1, Zenon DEF SameEvents, Free
  <2>3. ~Free /\ tx'.kind = "started" => Status(tx.agent)' = "idle"
    <3>1. tx' = tx
      BY <1>1, Zenon DEF SameEvents
    <3>2. Status(tx.agent)' = StatusIn(durable', tx'.agent, minted')
      BY Zenon DEF Status, StatusAt, StatusIn, TurnsIn, WithKind, Of, Ids, Greatest
    <3>3. Status(tx.agent) = StatusIn(durable, tx.agent, minted)
      BY StatusIs
    <3> QED
      BY <1>e, <1>1, <3>1, <3>2, <3>3 DEF SameEvents
  <2> QED
    BY <1>1, <1>e, <2>2, <2>3 DEF EventsInv, SameEvents
<1>2. CASE Ends
  <2>1. tx' = NoEvent /\ minted' = minted
    BY <1>2 DEF Ends
  <2>2. \A e \in durable' \cup streamed' : e \in durable \cup streamed \/ (~Free /\ e = tx)
    BY <1>2 DEF Ends
  <2>3. \A e \in streamed' : e \in streamed
    BY <1>2 DEF Ends
  <2>4. ~Free => tx.id \in Nat /\ \A e \in durable \cup streamed : e.id \in Nat /\ e.id # tx.id
    BY <1>e DEF Free
  <2>5. \A e \in durable' \cup streamed' : e.id <= minted'
    BY <1>e, <2>1, <2>2
  <2>6. \A e, f \in durable' \cup streamed' : e.id = f.id => e = f
    BY <1>e, <2>2, <2>4
  <2>7. Free'
    BY <2>1 DEF Free
  <2> QED
    BY <1>e, <2>3, <2>5, <2>6, <2>7 DEF EventsInv
<1>3. ASSUME NEW e, Opens(e) PROVE EventsInv'
  <2>1. /\ e \in Events /\ e.id = minted + 1 /\ e.kind # "streamed" /\ tx' = e
        /\ minted' = minted + 1 /\ durable' = durable /\ streamed' = streamed
    BY <1>3 DEF Opens
  <2>2. \A f \in durable \cup streamed : f.id \in Nat /\ f.id <= minted
    BY <1>e
  <2>3. e.kind = "started" => Status(e.agent)' = "idle"
    <3>1. CASE e.kind = "started"
      <4>1. Status(e.agent) = "idle"
        BY <1>3, <3>1 DEF Opens, Happens
      <4>2. \A f \in durable : f.id <= minted /\ f.id <= minted + 1
        BY <2>2
      <4>3. StatusIn(durable, e.agent, minted) = StatusIn(durable, e.agent, minted + 1)
        BY <4>2, StatusInLast
      <4>4. /\ Status(e.agent) = StatusIn(durable, e.agent, minted)
            /\ Status(e.agent)' = StatusIn(durable', e.agent, minted')
        BY StatusIs
      <4> QED
        BY <2>1, <4>1, <4>3, <4>4
    <3> QED
      BY <3>1
  <2>4. /\ \A f \in durable' \cup streamed' : f.id <= minted'
        /\ \A f \in durable' : f.id < e.id
        /\ \A f \in streamed' : f.id # e.id
        /\ e.id <= minted'
    BY <2>1, <2>2
  <2>5. tx'.kind = "started" => Status(tx.agent)' = "idle"
    <3>1. Status(tx.agent)' = StatusIn(durable', tx'.agent, minted')
      BY Zenon DEF Status, StatusAt, StatusIn, TurnsIn, WithKind, Of, Ids, Greatest
    <3>2. Status(e.agent)' = StatusIn(durable', e.agent, minted')
      BY StatusIs
    <3> QED
      BY <2>1, <2>3, <3>1, <3>2
  <2> QED
    BY <1>e, <2>1, <2>4, <2>5, Zenon DEF EventsInv
<1>4. ASSUME NEW e, Streams(e) PROVE EventsInv'
  <2>1. /\ e \in Events /\ e.id = minted + 1 /\ e.kind = "streamed" /\ tx' = tx
        /\ minted' = minted + 1 /\ durable' = durable /\ streamed' = streamed \cup {e}
    BY <1>4 DEF Streams
  <2>2. \A f \in durable \cup streamed : f.id \in Nat /\ f.id <= minted
    BY <1>e
  <2>3. /\ \A f \in durable' \cup streamed' : f.id <= minted'
        /\ \A f, g \in durable' \cup streamed' : f.id = g.id => f = g
        /\ \A f \in streamed' : f.kind = "streamed"
    BY <1>e, <2>1, <2>2
  <2>4. ~Free' => ~Free /\ tx.id \in Nat
    BY <2>1 DEF Free
  <2>5. ~Free => /\ tx.id <= minted' /\ tx.kind # "streamed"
                 /\ \A f \in durable' : f.id < tx.id
                 /\ \A f \in streamed' : f.id # tx.id
    <3>1. ~Free => tx.id \in Nat
      BY DEF Free
    <3> QED
      BY <1>e, <2>1, <2>2, <3>1
  <2>6. ~Free /\ tx.kind = "started" => Status(tx.agent)' = "idle"
    <3>1. Status(tx.agent)' = StatusIn(durable', tx'.agent, minted')
      BY Zenon DEF Status, StatusAt, StatusIn, TurnsIn, WithKind, Of, Ids, Greatest
    <3>2. Status(tx.agent) = StatusIn(durable, tx.agent, minted)
      BY StatusIs
    <3>3. \A f \in durable : f.id <= minted /\ f.id <= minted + 1
      BY <2>2
    <3>4. StatusIn(durable, tx.agent, minted) = StatusIn(durable, tx.agent, minted + 1)
      BY <3>3, StatusInLast
    <3> QED
      BY <1>e, <2>1, <3>1, <3>2, <3>4
  <2> QED
    BY <2>1, <2>3, <2>4, <2>5, <2>6, Zenon DEF EventsInv
<1> QED
  BY <1>1, <1>2, <1>3, <1>4, EventsStep
-----------------------------------------------------------------------------
(* What stays true of an agent's versions                                   *)

(* A version precedes the turn that is open or comes next, and a status the *)
(* agent had since then stays one it had since then.                        *)
LEMMA TrailsKept ==
    ASSUME Base, EventsInv, [Next]_vars, NEW a, NEW version \in Nat, Precedes(a, version)
    PROVE /\ Precedes(a, version)'
          /\ \A status : Since(a, version, status) => Since(a, version, status)'
          /\ \A turn \in Turns(a)' : turn \in Turns(a) \/ (turn \in Events /\ turn.id > version)
<1>0. TypeOK
  BY DEF Base
<1> USE EventNumbers, <1>0
<1>p. version <= minted /\ (TurnIsOpen(a) => version < tx.id)
  BY DEF Precedes
<1>e. /\ \A e \in durable \cup streamed : e.id <= minted
      /\ ~Free => tx.id <= minted /\ \A e \in durable : e.id < tx.id
  BY DEF EventsInv
<1>1. minted' \in {minted, minted + 1}
  BY EventsStep DEF SameEvents, Ends, Opens, Streams
<1>2. Precedes(a, version)'
  <2>1. version <= minted'
    BY <1>p, <1>1
  <2>2. tx' = tx \/ tx' = NoEvent \/ (tx' \in Events /\ tx'.id = minted + 1)
    BY EventsStep DEF SameEvents, Ends, Opens, Streams
  <2>3. TurnIsOpen(a)' => version < tx'.id
    BY <1>p, <2>2 DEF TurnIsOpen
  <2> QED
    BY <2>1, <2>3 DEF Precedes
<1>3. durable' = durable \/ (~Free /\ durable' = durable \cup {tx})
  BY EventsStep DEF SameEvents, Ends, Opens, Streams
<1>4. ASSUME NEW status, Since(a, version, status) PROVE Since(a, version, status)'
  <2>1. PICK v \in version..minted : status = StatusAt(a, v)
    BY <1>4 DEF Since
  <2>2. v \in version..minted' /\ v \in Int
    BY <1>1, <1>p
  <2>3. StatusAt(a, v) = StatusIn(durable, a, v)
    BY StatusIsIn
  <2>4. ASSUME NEW w \in version..minted', StatusIn(durable', a, w) = status
        PROVE Since(a, version, status)'
    <3>1. StatusAt(a, w)' = StatusIn(durable', a, w)
      BY StatusIsIn
    <3> QED
      BY <2>4, <3>1 DEF Since
  <2>5. CASE durable' = durable
    BY <2>1, <2>2, <2>3, <2>4, <2>5
  <2>6. CASE ~Free /\ durable' = durable \cup {tx}
    <3>0. tx \in Events /\ tx.id \in Nat
      BY <2>6 DEF Free
    <3>1. CASE ~(tx.id <= v) \/ tx.agent # a \/ tx.kind \notin {"started", "settled"}
      <4>0. PICK f : f = tx
        OBVIOUS
      <4>f. ~(f.id <= v) \/ f.agent # a \/ f.kind \notin {"started", "settled"}
        BY <3>1, <4>0
      <4>v. v \in Int
        OBVIOUS
      <4>1. StatusIn(durable \cup {f}, a, v) = StatusIn(durable, a, v)
        BY <4>f, <4>v, StatusInLater
      <4> QED
        BY <2>1, <2>2, <2>3, <2>4, <2>6, <4>0, <4>1
    <3>2. CASE tx.id <= v /\ TurnIsOpen(a)
      <4>1. PICK w : w = tx.id - 1
        OBVIOUS
      <4>2. w \in version..minted' /\ w \in Int /\ ~(tx.id <= w)
        BY <1>p, <1>e, <1>1, <2>6, <3>0, <3>2, <4>1
      <4>3. \A e \in durable : e.id \in Nat /\ e.id < tx.id
        BY <1>e, <2>6
      <4>4. \A e \in durable : e.id <= v /\ e.id <= w
        BY <2>2, <3>0, <3>2, <4>1, <4>3
      <4>5. StatusIn(durable, a, v) = StatusIn(durable, a, w)
        BY <4>4, StatusInLast
      <4>6. StatusIn(durable \cup {tx}, a, w) = StatusIn(durable, a, w)
        BY <4>2, StatusInLater
      <4> QED
        BY <2>1, <2>3, <2>4, <2>6, <4>2, <4>5, <4>6
    <3> QED
      BY <3>1, <3>2 DEF TurnIsOpen
  <2> QED
    BY <1>3, <2>5, <2>6
<1>5. ASSUME NEW turn \in Turns(a)' PROVE turn \in Turns(a) \/ (turn \in Events /\ turn.id > version)
  <2>1. turn \in durable' /\ turn.agent = a /\ turn.kind \in {"started", "settled"}
    BY DEF Turns, WithKind, Of
  <2>2. CASE turn \in durable
    BY <2>1, <2>2 DEF Turns, WithKind, Of
  <2>3. CASE turn = tx /\ ~Free
    <3>1. TurnIsOpen(a) /\ turn \in Events
      BY <2>1, <2>3 DEF TurnIsOpen, Free
    <3> QED
      BY <1>p, <2>3, <3>1
  <2> QED
    BY <1>3, <2>1, <2>2, <2>3
<1> QED
  BY <1>2, <1>4, <1>5

LEMMA ResourceTrails ==
    ASSUME Base, EventsInv, [Next]_vars, NEW a, NEW r \in Resource, Trails(a, r)
    PROVE Trails(a, r)'
<1>1. r.version \in Nat /\ Precedes(a, r.version) /\ Since(a, r.version, r.status)
  BY Shown DEF Resource, Versions, Trails
<1> QED
  BY <1>1, TrailsKept DEF Trails

LEMMA UpdateOKKept ==
    ASSUME Base, EventsInv, [Next]_vars, NEW e \in Visible, IsUpdate(e), UpdateOK(e)
    PROVE UpdateOK(e)'
<1>1. e.version \in Nat /\ Precedes(e.agent, e.version)
  BY ShownIs, Shown DEF IsUpdate, Versions, UpdateOK
<1>2. Precedes(e.agent, e.version)'
  BY <1>1, TrailsKept
<1>3. CASE IsSettled(e.changes)
  <2>1. Since(e.agent, e.version, e.changes[2])
    BY <1>3 DEF UpdateOK
  <2>2. Since(e.agent, e.version, e.changes[2])'
    BY <1>1, <2>1, TrailsKept
  <2> QED
    BY <1>2, <1>3, <2>2 DEF UpdateOK
<1>4. CASE ~IsSettled(e.changes)
  <2>1. \A turn \in Turns(e.agent) : turn.id <= e.previous \/ turn.id > e.version
    BY <1>4 DEF UpdateOK
  <2>2. \A turn \in Turns(e.agent)' : turn.id <= e.previous \/ turn.id > e.version
    BY <1>1, <2>1, TrailsKept
  <2> QED
    BY <1>2, <1>4, <2>2 DEF UpdateOK
<1> QED
  BY <1>3, <1>4
-----------------------------------------------------------------------------
(* What the journal says of an agent                                        *)

(* How a step changes the chains.                                           *)
LEMMA ChainStep ==
    ASSUME TypeOK, [Next]_vars
    PROVE \/ /\ UNCHANGED <<chain, liveRetries>>
             /\ durable \subseteq durable' /\ streamed \subseteq streamed'
          \/ Publish
          \/ (\E e : Streams(e)) /\ UNCHANGED <<feedVars, liveRetries, reducerVars>>
          \/ \E a \in Agents : \E part, e : Converts(a, part, e)
          \/ RestartDaemon
<1>1. CASE UNCHANGED serverVars
  BY <1>1 DEF serverVars
<1>2. ASSUME NEW a \in Agents, NEW kind \in Kinds, Record(a, kind)
      PROVE UNCHANGED <<chain, liveRetries, durable, streamed>>
  BY <1>2 DEF Record
<1>3. CASE Rollback
  BY <1>3 DEF Rollback
<1>4. ASSUME NEW a \in Agents, "streamed" \in Kinds, Stream(a)
      PROVE (\E e : Streams(e)) /\ UNCHANGED <<feedVars, liveRetries, reducerVars>>
  <2>1. PICK e : e = NewEvent(a, "streamed")
    OBVIOUS
  <2>2. e \in Events /\ e.id = minted + 1 /\ e.agent = a /\ e.kind = "streamed"
    BY <1>4, <2>1, NewEventIs, TypesAre DEF Stream, EventKinds
  <2>3. Streams(e)
    BY <1>4, <2>1, <2>2, Zenon DEF Stream, Streams
  <2> QED
    BY <1>4, <2>3, Zenon DEF Stream
<1>5. ASSUME NEW a \in Agents, Convert(a) PROVE \E part, e : Converts(a, part, e)
  BY <1>5, ConvertIs
<1>6. CASE Elsewhere \/ Receive \/ Request \/ FinishSync \/ FailSync \/ RetryTimer \/ Prune
           \/ Reconnect \/ LoseConnection \/ StopAndStart \/ Rest \/ UNCHANGED vars
  <2>1. UNCHANGED serverVars
    BY <1>6, Zenon DEF Elsewhere, Receive, Hello, Frame, Request, Capture, ReadDraft,
       ReadConfig, ReadVersion, ReadStatus, Serve, FinishSync, FailSync, RetryTimer, Prune,
       Reconnect, LoseConnection, StopAndStart, Rest, vars
  <2> QED
    BY <1>1, <2>1
<1>7. ASSUME UNCHANGED <<chain, liveRetries, durable, streamed>>
      PROVE /\ UNCHANGED <<chain, liveRetries>>
            /\ durable \subseteq durable' /\ streamed \subseteq streamed'
  BY <1>7
<1>8. CASE \E a \in Agents, kind \in Kinds : Record(a, kind)
  BY <1>2, <1>7, <1>8
<1>9. CASE \E a \in Agents : "streamed" \in Kinds /\ Stream(a)
  BY <1>4, <1>9
<1>10. CASE \E a \in Agents : Convert(a)
  BY <1>5, <1>10
<1>11. CASE Publish \/ RestartDaemon
  BY <1>11
<1> QED
  BY <1>3, <1>6, <1>8, <1>9, <1>10, <1>11, Zenon DEF Next, Work, Transact

(* What a step adds to the log.                                             *)
Logs(entry) ==
    /\ Len(log') = Len(log) + 1 /\ log'[Len(log) + 1] = entry
    /\ \A p \in 1..Len(log) : log'[p] = log[p]
Announces(entry) ==
    \E a \in Agents : \E part, e :
        /\ Converts(a, part, e)
        /\ \/ part = "draft" /\ entry = DraftEntry(a, Draft(a))
           \/ part = "update" /\ entry = Update(e, ChangesOf(e))
           \/ part = "clear" /\ a \in liveRetries /\ entry = Update(e, <<>>)

LEMMA LogStep ==
    ASSUME Base, [Next]_vars
    PROVE \/ log' = log
          \/ RestartDaemon /\ Logs(Origin)
          \/ Elsewhere /\ Logs(HiddenEntry)
          \/ \E entry \in Visible : Logs(entry) /\ Announces(entry)
<1>0. TypeOK /\ log \in Seq(Entry \cup {Origin})
  BY DEF Base, FeedInv, JournalInv
<1>1. ASSUME NEW entry, entry \in Entry \cup {Origin}, log' = Append(log, entry) PROVE Logs(entry)
  BY <1>0, <1>1 DEF Logs
<1>2. CASE RestartDaemon
  BY <1>1, <1>2 DEF RestartDaemon, NewDaemon
<1>3. CASE Elsewhere
  BY <1>1, <1>3, Shown DEF Elsewhere, Journal
<1>4. ASSUME NEW a \in Agents, Convert(a)
      PROVE log' = log \/ \E entry \in Visible : Logs(entry) /\ Announces(entry)
  <2>1. PICK part, e : Converts(a, part, e)
    BY <1>0, <1>4, ConvertIs
  <2>2. e \in Events
    BY <2>1 DEF Converts
  <2>3. /\ DraftEntry(a, Draft(a)) \in Visible
        /\ Update(e, ChangesOf(e)) \in Visible /\ Update(e, <<>>) \in Visible
    BY <1>0, <2>2, Shown, ReadsAreVersions, UpdateShown, ChangesOfShown
  <2>4. ASSUME NEW entry \in Visible, Journal(entry) PROVE Logs(entry)
    BY <1>1, <2>4, Shown DEF Journal
  <2>5. CASE part = "draft" /\ Journal(DraftEntry(a, Draft(a)))
    BY <2>1, <2>3, <2>4, <2>5, Zenon DEF Announces
  <2>6. CASE part = "update" /\ Journal(Update(e, ChangesOf(e)))
    BY <2>1, <2>3, <2>4, <2>6, Zenon DEF Announces
  <2>7. CASE part = "clear" /\ a \in liveRetries /\ Journal(Update(e, <<>>))
    BY <2>1, <2>3, <2>4, <2>7, Zenon DEF Announces
  <2>8. CASE UNCHANGED <<log, daemonVars, connectionVars>>
    BY <2>8
  <2> QED
    BY <2>1, <2>5, <2>6, <2>7, <2>8, Zenon DEF Converts
<1>5. CASE (\E a \in Agents, kind \in Kinds : Record(a, kind))
           \/ (\E a \in Agents : "streamed" \in Kinds /\ Stream(a))
           \/ Transact \/ Receive \/ Request \/ FinishSync \/ FailSync \/ RetryTimer \/ Prune
           \/ Reconnect \/ LoseConnection \/ StopAndStart \/ Rest \/ UNCHANGED vars
  <2>1. UNCHANGED log \/ UNCHANGED feedVars
    BY <1>5, Zenon DEF Record, Stream, Transact, Publish, Rollback, Receive, Hello, Frame, Request,
       Capture, ReadDraft, ReadConfig, ReadVersion, ReadStatus, Serve, FinishSync, FailSync,
       RetryTimer, Prune, Reconnect, LoseConnection, StopAndStart, Rest, vars
  <2> QED
    BY <2>1 DEF feedVars
<1> QED
  BY <1>2, <1>3, <1>4, <1>5, Zenon DEF Next, Work

(* No event is of a retry, when none occurs.                                *)
NoRetries == \A e \in durable \cup streamed \cup {tx} : e.kind # "retrying"

LEMMA NoRetriesKept ==
    ASSUME "retrying" \notin Kinds, Base, NoRetries, [Next]_vars PROVE NoRetries'
<1>0. TypeOK /\ NoEvent.kind = "none"
  BY DEF Base, NoEvent
<1>1. CASE SameEvents
  BY <1>1 DEF SameEvents, NoRetries
<1>2. CASE Ends
  BY <1>0, <1>2 DEF Ends, NoRetries
<1>3. ASSUME NEW e, Opens(e) PROVE NoRetries'
  BY <1>3 DEF Opens, NoRetries
<1>4. ASSUME NEW e, Streams(e) PROVE NoRetries'
  BY <1>4 DEF Streams, NoRetries
<1> QED
  BY <1>0, <1>1, <1>2, <1>3, <1>4, EventsStep

(* What a chain still has to announce stays true of its agent.              *)
LEMMA PartOKKept ==
    ASSUME Base, EventsInv, [Next]_vars, NEW a, NEW part, PartOK(a, part),
           part.event \in durable' \cup streamed'
    PROVE PartOK(a, part)'
<1>1. PICK e : e = part.event
  OBVIOUS
<1>2. /\ e.agent = a /\ e \in durable \cup streamed /\ Precedes(a, e.id)
      /\ e.kind = "streamed" => Since(a, e.id, "working")
  BY <1>1, Zenon DEF PartOK
<1>3. e.id \in Nat
  BY <1>2, EventNumbers DEF Base
<1>4. Precedes(a, e.id)' /\ (e.kind = "streamed" => Since(a, e.id, "working")')
  BY <1>2, <1>3, TrailsKept
<1> QED
  BY <1>1, <1>2, <1>4, Zenon DEF PartOK

(* What an event's conversion announces is so.                              *)
LEMMA UpdateIsOK ==
    ASSUME Base, EventsInv, NEW a, NEW part, PartOK(a, part)
    PROVE UpdateOK(Update(part.event, ChangesOf(part.event)))
<1>1. PICK e : e = part.event
  OBVIOUS
<1>2. PICK u : u = Update(e, ChangesOf(e))
  OBVIOUS
<1>3. /\ u.agent = e.agent /\ u.previous = PreviousVersion(e) /\ u.version = e.id
      /\ u.changes = ChangesOf(e)
  BY <1>2 DEF Update, UpdateEntry
<1>4. /\ e.agent = a /\ e \in durable \cup streamed /\ Precedes(a, e.id)
      /\ e.kind = "streamed" => Since(a, e.id, "working")
  BY <1>1, Zenon DEF PartOK
<1>5. /\ e \in Events /\ e.id \in Nat /\ minted \in Nat /\ e.id <= minted
      /\ durable \subseteq Events /\ streamed \subseteq Events
      /\ \A f \in durable \cup streamed : f.id \in Nat
  BY <1>4, EventNumbers DEF Base, EventsInv
<1>6. \A f \in durable \cup streamed : f.id = e.id => f = e
  BY <1>4 DEF EventsInv
<1>7. \A f \in streamed : f.kind = "streamed"
  BY DEF EventsInv
<1>8. CASE e.kind \in {"started", "settled"}
  <2>1. e \in durable
    BY <1>4, <1>7, <1>8
  <2>2. StatusIn(durable, a, e.id) = IF e.kind = "settled" THEN "idle" ELSE "working"
    BY <1>4, <1>5, <1>6, <1>8, <2>1, StatusInTurn
  <2>3. u.changes = IF e.kind = "settled" THEN <<"status", "idle">> ELSE <<"status", "working">>
    BY <1>3, <1>8 DEF ChangesOf
  <2>4. IsSettled(u.changes) /\ u.changes[2] = StatusIn(durable, a, e.id)
    BY <2>2, <2>3 DEF IsSettled
  <2>5. StatusAt(a, e.id) = StatusIn(durable, a, e.id)
    BY StatusIsIn
  <2>6. Since(a, e.id, u.changes[2])
    BY <1>5, <2>4, <2>5 DEF Since
  <2>7. UpdateOK(u)
    BY <1>3, <1>4, <2>4, <2>6 DEF UpdateOK
  <2> QED
    BY <1>1, <1>2, <2>7
<1>9. CASE e.kind = "streamed"
  <2>1. u.changes = <<"status", "working">>
    BY <1>3, <1>9 DEF ChangesOf
  <2>2. IsSettled(u.changes) /\ u.changes[2] = "working"
    BY <2>1 DEF IsSettled
  <2>3. UpdateOK(u)
    BY <1>3, <1>4, <1>9, <2>2 DEF UpdateOK
  <2> QED
    BY <1>1, <1>2, <2>3
<1>10. CASE e.kind \notin {"started", "settled", "streamed"}
  <2>1. u.changes = <<"title">> \/ u.changes = <<>>
    BY <1>3, <1>10 DEF ChangesOf
  <2>2. ~IsSettled(u.changes)
    BY <2>1, ChangesDiffer
  <2>3. ASSUME NEW turn \in Turns(u.agent) PROVE turn.id <= u.previous \/ turn.id > u.version
    <3>1. /\ turn \in durable /\ turn.agent = a /\ turn.kind \in {"started", "settled"}
          /\ turn.id \in Nat
      BY <1>3, <1>4, <1>5 DEF Turns, WithKind, Of
    <3>2. CASE turn.id < e.id
      <4>1. PICK S : S = {v \in Ids(Of(e.agent, durable \cup streamed)) : v < e.id}
        OBVIOUS
      <4>2. turn.id \in S
        BY <1>4, <3>1, <3>2, <4>1 DEF Ids, Of
      <4>3. S \in SUBSET (0..MaxEvents) /\ MaxEvents \in Nat
        BY <1>5, <4>1, Shown DEF Ids, Of, Events
      <4>4. \A m \in S : m <= Greatest(S)
        BY <4>3, GreatestIs
      <4>5. u.previous = Greatest(S)
        BY <1>3, <4>1, Zenon DEF PreviousVersion
      <4> QED
        BY <4>2, <4>4, <4>5
    <3>3. CASE turn.id = e.id
      BY <1>6, <1>10, <3>1, <3>3
    <3>4. CASE turn.id > e.id
      BY <1>3, <3>4
    <3> QED
      BY <1>5, <3>1, <3>2, <3>3, <3>4
  <2>4. UpdateOK(u)
    BY <1>3, <1>4, <2>2, <2>3 DEF UpdateOK
  <2> QED
    BY <1>1, <1>2, <2>4
<1> QED
  BY <1>8, <1>9, <1>10


(* The entries of a chain, before and after a step.                         *)
LEMMA Joined ==
    ASSUME NEW S, NEW s \in Seq(S), NEW t \in Seq(S)
    PROVE /\ \A i \in DOMAIN (s \o t) :
                 \/ i \in DOMAIN s /\ (s \o t)[i] = s[i]
                 \/ \E j \in 1..Len(t) : (s \o t)[i] = t[j]
          /\ \A i \in DOMAIN s : i \in DOMAIN (s \o t) /\ (s \o t)[i] = s[i]
          /\ \A j \in 1..Len(t) : /\ Len(s) + j \in DOMAIN (s \o t)
                                  /\ (s \o t)[Len(s) + j] = t[j]
<1>1. /\ Len(s) \in Nat /\ Len(t) \in Nat /\ DOMAIN s = 1..Len(s) /\ DOMAIN t = 1..Len(t)
      /\ s \o t \in Seq(S) /\ Len(s \o t) = Len(s) + Len(t)
  OBVIOUS
<1>2. DOMAIN (s \o t) = 1..(Len(s) + Len(t))
  BY <1>1
<1>3. \A i \in 1..(Len(s) + Len(t)) : (s \o t)[i] = IF i <= Len(s) THEN s[i] ELSE t[i - Len(s)]
  BY <1>1
<1>4. ASSUME NEW i \in DOMAIN (s \o t)
      PROVE \/ i \in DOMAIN s /\ (s \o t)[i] = s[i]
            \/ \E j \in 1..Len(t) : (s \o t)[i] = t[j]
  <2>1. CASE i <= Len(s)
    BY <1>1, <1>2, <1>3, <2>1
  <2>2. CASE ~(i <= Len(s))
    <3>1. i - Len(s) \in 1..Len(t) /\ (s \o t)[i] = t[i - Len(s)]
      BY <1>1, <1>2, <1>3, <2>2
    <3> QED
      BY <3>1
  <2> QED
    BY <2>1, <2>2
<1>5. ASSUME NEW j \in 1..Len(t)
      PROVE Len(s) + j \in DOMAIN (s \o t) /\ (s \o t)[Len(s) + j] = t[j]
  BY <1>1, <1>2, <1>3
<1>6. \A i \in DOMAIN s : i \in DOMAIN (s \o t) /\ (s \o t)[i] = s[i]
  BY <1>1, <1>2, <1>3
<1> QED
  BY <1>4, <1>5, <1>6

LEMMA Served ==
    ASSUME NEW S, NEW s \in Seq(S), s # <<>>
    PROVE /\ \A i \in DOMAIN Tail(s) : i + 1 \in DOMAIN s /\ Tail(s)[i] = s[i + 1]
          /\ \A i \in DOMAIN s : i = 1 \/ (i - 1 \in DOMAIN Tail(s) /\ Tail(s)[i - 1] = s[i])
          /\ 1 \in DOMAIN s /\ Head(s) = s[1]
<1>1. /\ Len(s) \in Nat /\ Len(s) > 0 /\ DOMAIN s = 1..Len(s)
      /\ Tail(s) \in Seq(S) /\ Len(Tail(s)) = Len(s) - 1
      /\ \A i \in 1..(Len(s) - 1) : Tail(s)[i] = s[i + 1]
  OBVIOUS
<1>2. DOMAIN Tail(s) = 1..(Len(s) - 1)
  BY <1>1
<1>3. Head(s) = s[1]
  OBVIOUS
<1> QED
  BY <1>1, <1>2, <1>3

(* When an agent streams no turn of its own is open, and it is working.     *)
LEMMA StreamsWork ==
    ASSUME Base, EventsInv, NEW e, Streams(e)
    PROVE /\ ~TurnIsOpen(e.agent)
          /\ Precedes(e.agent, e.id)' /\ Since(e.agent, e.id, "working")'
<1>1. PICK a : a = e.agent
  OBVIOUS
<1>2. /\ Status(a) = "working" /\ ~(tx.agent = a /\ tx.kind = "settled")
      /\ e.id = minted + 1 /\ minted' = minted + 1 /\ tx' = tx /\ durable' = durable
  BY <1>1 DEF Streams, Happens
<1>3. ~TurnIsOpen(a)
  <2>1. SUFFICES ASSUME tx.agent = a, tx.kind = "started" PROVE FALSE
    BY <1>2 DEF TurnIsOpen
  <2>2. ~Free
    BY <2>1 DEF Free, NoEvent
  <2>3. Status(tx.agent) = "idle"
    BY <2>1, <2>2 DEF EventsInv
  <2> QED
    BY <1>2, <2>1, <2>3
<1>4. minted \in Nat /\ \A f \in durable : f.id \in Nat /\ f.id <= minted
  BY EventNumbers DEF Base, EventsInv
<1>5. ~TurnIsOpen(a)'
  BY <1>2, <1>3 DEF TurnIsOpen
<1>6. Precedes(a, e.id)'
  BY <1>2, <1>4, <1>5 DEF Precedes
<1>7. StatusIn(durable, a, minted) = StatusIn(durable, a, minted + 1)
  <2>1. \A f \in durable : f.id <= minted /\ f.id <= minted + 1
    BY <1>4
  <2> QED
    BY <2>1, StatusInLast
<1>8. Status(a) = StatusIn(durable, a, minted)
  BY StatusIs
<1>9. StatusAt(a, e.id)' = StatusIn(durable', a, e.id)
  BY StatusIsIn
<1>10. Since(a, e.id, "working")'
  BY <1>2, <1>4, <1>7, <1>8, <1>9 DEF Since
<1> QED
  BY <1>1, <1>3, <1>6, <1>10

(* What is in the chains stays true of their agents, and so does what an    *)
(* event adds.                                                              *)
PartsOK == \A a \in Agents : \A i \in DOMAIN chain[a] : PartOK(a, chain[a][i])

LEMMA PartsOKKept ==
    ASSUME Base, EventsInv, PartsOK, [Next]_vars PROVE PartsOK'
<1>0. TypeOK /\ ServerTypes /\ chain \in [Agents -> Seq(Part)]
  BY TypesAre DEF Base, TypeOK
<1>1. ASSUME chain' = chain, durable \subseteq durable', streamed \subseteq streamed',
             NEW a \in Agents, NEW i \in DOMAIN chain[a]
      PROVE PartOK(a, chain[a][i])'
  <2>1. PICK part : part = chain[a][i]
    OBVIOUS
  <2>2. PartOK(a, part) /\ part.event \in durable \cup streamed
    BY <2>1 DEF PartsOK, PartOK
  <2>3. PartOK(a, part)'
    BY <1>1, <2>2, PartOKKept
  <2>4. chain'[a][i] = part
    BY <1>1, <2>1
  <2> QED
    BY <2>3, <2>4, Zenon
<1>2. CASE UNCHANGED chain /\ durable \subseteq durable' /\ streamed \subseteq streamed'
  BY <1>1, <1>2 DEF PartsOK
<1>3. ASSUME NEW e \in Events, Enqueue(e), durable \subseteq durable', streamed \subseteq streamed',
             e \in durable' \cup streamed', Precedes(e.agent, e.id)',
             e.kind = "streamed" => Since(e.agent, e.id, "working")'
      PROVE PartsOK'
  <2>1. /\ \A a \in Agents : a # e.agent => chain'[a] = chain[a]
        /\ chain'[e.agent] = chain[e.agent] \o PartsOf(e)
    BY <1>0, <1>3, Enqueued
  <2>2. /\ PartsOf(e) \in Seq(Part) /\ \A j \in 1..Len(PartsOf(e)) : PartsOf(e)[j].event = e
        /\ e.agent \in Agents /\ chain[e.agent] \in Seq(Part)
    BY <1>0, PartsAre DEF Events
  <2>3. ASSUME NEW part, part.event = e PROVE PartOK(e.agent, part)'
    BY <1>3, <2>3, Zenon DEF PartOK
  <2>4. ASSUME NEW a \in Agents, NEW i \in DOMAIN chain'[a] PROVE PartOK(a, chain[a][i])'
    <3>1. CASE a # e.agent
      <4>1. chain'[a] = chain[a]
        BY <2>1, <3>1
      <4>2. i \in DOMAIN chain[a]
        BY <4>1
      <4>3. PICK part : part = chain[a][i]
        OBVIOUS
      <4>4. PartOK(a, part)'
        <5>1. PartOK(a, part) /\ part.event \in durable' \cup streamed'
          BY <1>3, <4>2, <4>3 DEF PartsOK, PartOK
        <5> QED
          BY <5>1, PartOKKept
      <4>5. chain'[a][i] = part
        BY <4>1, <4>3
      <4> QED
        BY <4>4, <4>5, Zenon
    <3>2. CASE a = e.agent
      <4>1. PICK part : part = chain'[a][i]
        OBVIOUS
      <4>2. \/ i \in DOMAIN chain[a] /\ part = chain[a][i]
            \/ \E j \in 1..Len(PartsOf(e)) : part = PartsOf(e)[j]
        <5>1. PICK t : t = PartsOf(e)
          OBVIOUS
        <5>2. PICK s : s = chain[a]
          OBVIOUS
        <5>3. s \in Seq(Part) /\ t \in Seq(Part) /\ chain'[a] = s \o t
          BY <2>1, <2>2, <3>2, <5>1, <5>2
        <5>4. i \in DOMAIN (s \o t)
          BY <5>3
        <5>5. \/ i \in DOMAIN s /\ (s \o t)[i] = s[i]
              \/ \E j \in 1..Len(t) : (s \o t)[i] = t[j]
          BY <5>3, <5>4, Joined
        <5> QED
          BY <4>1, <5>1, <5>2, <5>3, <5>5, Zenon
      <4>3. CASE i \in DOMAIN chain[a] /\ part = chain[a][i]
        <5>1. PartOK(a, part) /\ part.event \in durable' \cup streamed'
          BY <1>3, <4>3 DEF PartsOK, PartOK
        <5>2. PartOK(a, part)'
          BY <5>1, PartOKKept
        <5> QED
          BY <4>1, <5>2, Zenon
      <4>4. CASE \E j \in 1..Len(PartsOf(e)) : part = PartsOf(e)[j]
        <5>1. part.event = e
          BY <2>2, <4>4
        <5>2. PartOK(e.agent, part)'
          BY <2>3, <5>1
        <5>3. PICK b : b = e.agent
          OBVIOUS
        <5> QED
          BY <3>2, <4>1, <5>2, Zenon
      <4> QED
        BY <4>2, <4>3, <4>4
    <3> QED
      BY <3>1, <3>2
  <2> QED
    BY <2>4 DEF PartsOK
<1>4. CASE Publish
  <2>1. /\ tx \in Events /\ ~Free /\ tx' = NoEvent /\ minted' = minted /\ streamed' = streamed
        /\ durable' = durable \cup {tx} /\ Enqueue(tx)
    BY <1>0, <1>4 DEF Publish, Free, TypeOK
  <2>2. PICK e : e = tx
    OBVIOUS
  <2>3. e.id <= minted /\ e.kind # "streamed"
    BY <2>1, <2>2 DEF EventsInv
  <2>4. ~TurnIsOpen(e.agent)'
    BY <2>1 DEF TurnIsOpen, NoEvent
  <2>5. Precedes(e.agent, e.id)'
    BY <2>1, <2>3, <2>4 DEF Precedes
  <2>6. /\ e \in Events /\ Enqueue(e) /\ durable \subseteq durable' /\ streamed \subseteq streamed'
        /\ e \in durable' \cup streamed'
    BY <2>1, <2>2
  <2> QED
    BY <1>3, <2>3, <2>5, <2>6
<1>5. ASSUME NEW e, Streams(e) PROVE PartsOK'
  <2>1. /\ e \in Events /\ Enqueue(e) /\ durable \subseteq durable' /\ streamed \subseteq streamed'
        /\ e \in durable' \cup streamed'
    BY <1>5 DEF Streams
  <2> QED
    BY <1>3, <1>5, <2>1, StreamsWork
<1>6. ASSUME NEW b \in Agents, NEW next, NEW e, Converts(b, next, e) PROVE PartsOK'
  <2>1. /\ chain[b] # <<>> /\ chain' = [chain EXCEPT ![b] = Tail(chain[b])]
        /\ durable' = durable /\ streamed' = streamed
    BY <1>6 DEF Converts
  <2>2. ASSUME NEW a \in Agents, NEW i \in DOMAIN chain'[a] PROVE PartOK(a, chain[a][i])'
    <3>1. \E j \in DOMAIN chain[a] : chain'[a][i] = chain[a][j]
      <4>1. CASE a # b
        BY <1>0, <2>1, <4>1
      <4>2. CASE a = b
        <5>1. PICK s : s = chain[a]
          OBVIOUS
        <5>2. s \in Seq(Part) /\ s # <<>> /\ chain'[a] = Tail(s)
          BY <1>0, <2>1, <4>2, <5>1
        <5> QED
          BY <5>1, <5>2, Served
      <4> QED
        BY <4>1, <4>2
    <3>2. PICK j \in DOMAIN chain[a] : chain'[a][i] = chain[a][j]
      BY <3>1
    <3>3. PICK part : part = chain[a][j]
      OBVIOUS
    <3>4. PartOK(a, part) /\ part.event \in durable' \cup streamed'
      BY <2>1, <3>3 DEF PartsOK, PartOK
    <3>5. PartOK(a, part)' /\ chain'[a][i] = part
      BY <3>2, <3>3, <3>4, PartOKKept
    <3> QED
      BY <3>5, Zenon
  <2> QED
    BY <2>2 DEF PartsOK
<1>7. CASE RestartDaemon
  <2>1. \A a \in Agents : chain'[a] = <<>>
    BY <1>7 DEF RestartDaemon
  <2>2. DOMAIN <<>> = {}
    OBVIOUS
  <2>3. \A a \in Agents : DOMAIN chain'[a] = {}
    BY <2>1, <2>2
  <2> QED
    BY <2>3 DEF PartsOK
<1> QED
  BY <1>0, <1>2, <1>4, <1>5, <1>6, <1>7, ChainStep


LEMMA JournalUpdatesKept ==
    ASSUME "retrying" \notin Kinds, Base, EventsInv, NoRetries, JournalUpdates, [Next]_vars
    PROVE JournalUpdates'
<1>0. /\ TypeOK /\ PartsOK /\ liveRetries = {}
      /\ \A p \in 1..Len(log) : IsUpdate(log[p]) => UpdateOK(log[p])
      /\ Len(log) \in Nat
  BY DEF JournalUpdates, PartsOK, Base, FeedInv, JournalInv
<1>1. PartsOK'
  BY <1>0, PartsOKKept
<1>2. liveRetries' = {}
  <2>1. ASSUME NEW a \in Agents, NEW part, NEW e, Converts(a, part, e) PROVE liveRetries' = {}
    <3>1. chain[a] \in Seq(Part) /\ chain[a] # <<>> /\ Head(chain[a]) = [event |-> e, part |-> part]
      BY <1>0, <2>1 DEF Converts, TypeOK
    <3>2. 1 \in DOMAIN chain[a] /\ Head(chain[a]) = chain[a][1]
      BY <3>1, Served
    <3>3. PartOK(a, chain[a][1])
      BY <1>0, <3>2 DEF PartsOK
    <3>4. chain[a][1].event = e
      BY <3>1, <3>2
    <3>5. e \in durable \cup streamed
      BY <3>3, <3>4 DEF PartOK
    <3>6. e.kind # "retrying"
      BY <3>5 DEF NoRetries
    <3> QED
      BY <1>0, <2>1, <3>6 DEF Converts
  <2>2. CASE Publish \/ RestartDaemon
    BY <1>0, <2>2 DEF Publish, RestartDaemon
  <2> QED
    BY <1>0, <2>1, <2>2, ChainStep
<1>3. ASSUME NEW entry \in Visible, IsUpdate(entry), UpdateOK(entry) PROVE UpdateOK(entry)'
  BY <1>3, UpdateOKKept
<1>4. ASSUME NEW p \in 1..Len(log), log'[p] = log[p], IsUpdate(log[p])'
      PROVE UpdateOK(log[p])'
  <2>1. PICK entry : entry = log[p]
    OBVIOUS
  <2>2. IsUpdate(entry) /\ UpdateOK(entry) /\ entry \in Visible /\ log'[p] = entry
    BY <1>0, <1>4, <2>1 DEF IsUpdate
  <2>3. UpdateOK(entry)'
    BY <1>3, <2>2
  <2> QED
    BY <2>2, <2>3, Zenon
<1>5. ASSUME NEW entry \in Visible, IsUpdate(entry), Announces(entry) PROVE UpdateOK(entry)
  <2>1. PICK a \in Agents : \E part, e :
            /\ Converts(a, part, e)
            /\ \/ part = "draft" /\ entry = DraftEntry(a, Draft(a))
               \/ part = "update" /\ entry = Update(e, ChangesOf(e))
               \/ part = "clear" /\ a \in liveRetries /\ entry = Update(e, <<>>)
    BY <1>5 DEF Announces
  <2>2. PICK part, e : /\ Converts(a, part, e)
                       /\ \/ part = "draft" /\ entry = DraftEntry(a, Draft(a))
                          \/ part = "update" /\ entry = Update(e, ChangesOf(e))
                          \/ part = "clear" /\ a \in liveRetries /\ entry = Update(e, <<>>)
    BY <2>1
  <2>3. entry = Update(e, ChangesOf(e))
    BY <1>0, <1>5, <2>2 DEF IsUpdate, DraftEntry
  <2>4. chain[a] \in Seq(Part) /\ chain[a] # <<>> /\ Head(chain[a]) = [event |-> e, part |-> part]
    BY <1>0, <2>2 DEF Converts, TypeOK
  <2>5. 1 \in DOMAIN chain[a] /\ Head(chain[a]) = chain[a][1]
    BY <2>4, Served
  <2>6. PartOK(a, chain[a][1]) /\ chain[a][1].event = e
    BY <1>0, <2>4, <2>5 DEF PartsOK
  <2>7. UpdateOK(Update(chain[a][1].event, ChangesOf(chain[a][1].event)))
    BY <2>6, UpdateIsOK
  <2> QED
    BY <2>3, <2>6, <2>7
<1>6. ASSUME NEW p \in 1..Len(log'), IsUpdate(log[p])' PROVE UpdateOK(log[p])'
  <2>1. log'[p] \in Visible
    BY <1>6 DEF IsUpdate
  <2>2. CASE log' = log
    BY <1>4, <1>6, <2>2
  <2>3. ASSUME NEW entry, Logs(entry), p # Len(log) + 1 PROVE UpdateOK(log[p])'
    <3>1. p \in 1..Len(log) /\ log'[p] = log[p]
      BY <1>0, <1>6, <2>3 DEF Logs
    <3> QED
      BY <1>4, <1>6, <3>1
  <2>4. CASE Logs(Origin)
    BY <2>1, <2>3, <2>4, EventFeedAssumption DEF Logs
  <2>5. CASE Logs(HiddenEntry)
    <3>1. HiddenEntry \notin Visible
      BY ShownIs DEF HiddenEntry
    <3> QED
      BY <2>1, <2>3, <2>5, <3>1 DEF Logs
  <2>6. ASSUME NEW entry \in Visible, Logs(entry), Announces(entry) PROVE UpdateOK(log[p])'
    <3>1. CASE p = Len(log) + 1
      <4>1. log'[p] = entry
        BY <2>6, <3>1 DEF Logs
      <4>2. IsUpdate(entry)
        BY <1>6, <4>1 DEF IsUpdate
      <4>3. UpdateOK(entry)'
        BY <1>3, <1>5, <2>6, <4>2
      <4> QED
        BY <4>1, <4>3, Zenon
    <3> QED
      BY <2>3, <2>6, <3>1
  <2> QED
    BY <2>2, <2>4, <2>5, <2>6, LogStep
<1> QED
  BY <1>1, <1>2, <1>6 DEF JournalUpdates, PartsOK
-----------------------------------------------------------------------------
(* What is read and shown trails its agent's state                          *)

(* Where a replica and a snapshot come from.                                *)
LEMMA ReplicaStep ==
    ASSUME Base, [Next]_vars
    PROVE client'.replica = client.replica \/ (\E p \in wire : Frame(p)) \/ FinishSync
<1>0. TypeOK /\ FeedInv /\ ClientOK(client, cursor)
  BY TypesAre DEF Base, ReducerTypes
<1>1. CASE Hello
  BY <1>0, <1>1, HelloIs DEF Follows
<1>2. CASE FailSync \/ StopAndStart \/ Prune
  BY <1>0, <1>2, FailIs, StopIs, PruneIs
<1>3. CASE RetryTimer
  <2>1. PICK c : ClientOK(c, cursor) /\ c.replica = client.replica /\ client' = Drain(c)
    BY <1>0, <1>3, TimerIs
  <2> QED
    BY <2>1, DrainIs DEF Follows
<1>4. CASE Work \/ Elsewhere \/ Rest \/ Request \/ Reconnect \/ LoseConnection \/ RestartDaemon
           \/ (\E a \in Agents, kind \in Kinds : Record(a, kind))
           \/ (\E a \in Agents : "streamed" \in Kinds /\ Stream(a)) \/ UNCHANGED vars
  <2>1. UNCHANGED client \/ UNCHANGED reducerVars
    BY <1>4, Zenon DEF Work, Transact, Publish, Rollback, Convert, Elsewhere, Rest, Record,
       Stream, Request, Capture, ReadDraft, ReadConfig, ReadVersion, ReadStatus, Serve,
       Reconnect, LoseConnection, RestartDaemon, vars
  <2> QED
    BY <2>1 DEF reducerVars
<1> QED
  BY <1>1, <1>2, <1>3, <1>4, Zenon DEF Next, Receive

LEMMA SnapshotStep ==
    ASSUME Base, [Next]_vars
    PROVE \/ snapshot' = snapshot \/ snapshot' = NoSnapshot
          \/ RestartDaemon /\ snapshot' = [NoSnapshot EXCEPT !.dead = TRUE]
          \/ Capture \/ ReadDraft
          \/ \E a \in Agents : ReadConfig(a) \/ ReadVersion(a) \/ ReadStatus(a)
<1>1. CASE Hello \/ RetryTimer \/ \E p \in wire : Frame(p)
  <2>1. UNCHANGED snapshot \/ \E c : Becomes(c)
    BY <1>1, Zenon DEF Hello, RetryTimer, Frame
  <2> QED
    BY <2>1 DEF Becomes
<1>2. CASE FinishSync \/ FailSync \/ StopAndStart
  BY <1>2 DEF FinishSync, FailSync, StopAndStart
<1>3. CASE RestartDaemon
  BY <1>3 DEF RestartDaemon
<1>4. CASE Work \/ Elsewhere \/ Rest \/ Prune \/ Reconnect \/ LoseConnection
           \/ (\E a \in Agents, kind \in Kinds : Record(a, kind))
           \/ (\E a \in Agents : "streamed" \in Kinds /\ Stream(a)) \/ UNCHANGED vars
  <2>1. UNCHANGED snapshot \/ UNCHANGED reducerVars
    BY <1>4, Zenon DEF Work, Transact, Publish, Rollback, Convert, Elsewhere, Rest, Record,
       Stream, Prune, Reconnect, LoseConnection, vars
  <2> QED
    BY <2>1 DEF reducerVars
<1> QED
  BY <1>1, <1>2, <1>3, <1>4, Zenon DEF Next, Receive, Request

SnapshotTrails ==
    \A a \in Agents :
        /\ snapshot.at[a] = "status" => Precedes(a, snapshot.agents[a].version)
        /\ snapshot.at[a] = "done" => Trails(a, snapshot.agents[a])
ReplicaTrails ==
    /\ ~client.replica.known => client.replica = NoReplica
    /\ client.replica.known => TrailsAll(client.replica)

LEMMA SnapshotTrailsKept ==
    ASSUME Base, EventsInv, SnapshotTrails, [Next]_vars PROVE SnapshotTrails'
<1>0. TypeOK /\ snapshot \in SnapshotType /\ \A a \in Agents : snapshot.agents[a] \in Resource
  BY DEF Base, TypeOK, SnapshotType
<1>1. ASSUME NEW a \in Agents, snapshot'.at[a] = snapshot.at[a], snapshot'.agents[a] = snapshot.agents[a]
      PROVE /\ snapshot'.at[a] = "status" => Precedes(a, snapshot.agents[a].version)'
            /\ snapshot'.at[a] = "done" => Trails(a, snapshot.agents[a])'
  <2>1. PICK r : r = snapshot.agents[a]
    OBVIOUS
  <2>2. r \in Resource /\ r.version \in Nat /\ snapshot'.agents[a] = r
    BY <1>0, <1>1, <2>1, Shown DEF Resource, Versions
  <2>3. snapshot'.at[a] = "status" => Precedes(a, r.version)'
    BY <1>1, <2>1, <2>2, TrailsKept DEF SnapshotTrails
  <2>4. snapshot'.at[a] = "done" => Trails(a, r)'
    BY <1>1, <2>1, <2>2, ResourceTrails DEF SnapshotTrails
  <2>5. PICK v : v = r.version
    OBVIOUS
  <2>6. snapshot'.agents[a].version = v /\ (snapshot'.at[a] = "status" => Precedes(a, v)')
    BY <2>2, <2>3, <2>5, Zenon
  <2> QED
    BY <2>2, <2>4, <2>6, Zenon
<1>2. CASE \A a \in Agents : snapshot'.at[a] = "config"
  BY <1>2 DEF SnapshotTrails
<1>3. ASSUME snapshot'.at = snapshot.at, snapshot'.agents = snapshot.agents PROVE SnapshotTrails'
  BY <1>1, <1>3 DEF SnapshotTrails
<1>4. ASSUME NEW b \in Agents, NEW stage, NEW next, ReadOf(b, stage, next),
             next = "status" => Precedes(b, snapshot.agents[b].version)',
             next = "done" => Trails(b, snapshot.agents[b])'
      PROVE SnapshotTrails'
  <2>1. \A a \in Agents \ {b} :
            snapshot'.at[a] = snapshot.at[a] /\ snapshot'.agents[a] = snapshot.agents[a]
    BY <1>4 DEF ReadOf
  <2>2. snapshot'.at[b] = next
    BY <1>4 DEF ReadOf
  <2> QED
    BY <1>1, <1>4, <2>1, <2>2, Zenon DEF SnapshotTrails
<1>5. ASSUME NEW b \in Agents, ReadConfig(b) PROVE SnapshotTrails'
  BY <1>0, <1>4, <1>5, ReadConfigIs
<1>6. ASSUME Free PROVE ~TurnIsOpen(Root) /\ \A b : ~TurnIsOpen(b)
  BY <1>6 DEF Free, TurnIsOpen, NoEvent
<1>7. ASSUME NEW b \in Agents, ReadVersion(b) PROVE SnapshotTrails'
  <2>1. ReadOf(b, "version", "status") /\ snapshot'.agents[b].version = LatestVersion(b)
    BY <1>0, <1>7, ReadVersionIs
  <2>2. Free /\ UNCHANGED serverVars
    BY <2>1 DEF ReadOf
  <2>3. PICK v : v = LatestVersion(b)
    OBVIOUS
  <2>4. v <= minted
    <3>1. PICK S : S = Ids(Of(b, durable \cup streamed))
      OBVIOUS
    <3>2. /\ minted \in Nat /\ \A e \in durable \cup streamed : e.id \in Nat /\ e.id <= minted
          /\ durable \subseteq Events /\ streamed \subseteq Events /\ MaxEvents \in Nat
      BY <1>0, EventNumbers, Shown DEF EventsInv
    <3>3. S \in SUBSET (0..MaxEvents) /\ \A n \in S : n <= minted
      BY <3>1, <3>2 DEF Ids, Of, Events
    <3>4. v \in S \cup {0}
      BY <2>3, <3>1, <3>2, <3>3, GreatestIs DEF LatestVersion
    <3> QED
      BY <3>2, <3>3, <3>4
  <2>5. minted' = minted /\ tx' = tx
    BY <2>2 DEF serverVars
  <2>6. ~TurnIsOpen(b)'
    BY <1>6, <2>2, <2>5 DEF TurnIsOpen
  <2>7. Precedes(b, v)'
    BY <2>4, <2>5, <2>6 DEF Precedes
  <2>8. snapshot'.agents[b].version = v
    BY <2>1, <2>3
  <2>9. Precedes(b, snapshot.agents[b].version)'
    BY <2>7, <2>8, Zenon
  <2> QED
    BY <1>4, <2>1, <2>9
<1>8. ASSUME NEW b \in Agents, ReadStatus(b) PROVE SnapshotTrails'
  <2>1. /\ ReadOf(b, "status", "done")
        /\ snapshot'.agents[b].version = snapshot.agents[b].version
        /\ snapshot'.agents[b].status = Status(b)
    BY <1>0, <1>8, ReadStatusIs
  <2>2. Free /\ UNCHANGED serverVars /\ snapshot.at[b] = "status"
    BY <2>1 DEF ReadOf
  <2>3. PICK v : v = snapshot.agents[b].version
    OBVIOUS
  <2>4. PICK s : s = Status(b)
    OBVIOUS
  <2>5. Precedes(b, v) /\ v \in Nat
    BY <1>0, <2>2, <2>3, Shown DEF SnapshotTrails, Resource, Versions
  <2>6. minted \in Nat /\ v <= minted
    BY <1>0, <2>5, EventNumbers DEF Precedes
  <2>7. Since(b, v, s)
    <3>1. s = StatusAt(b, minted) /\ minted \in v..minted
      BY <2>4, <2>5, <2>6 DEF Status
    <3> QED
      BY <3>1 DEF Since
  <2>8. Precedes(b, v)' /\ Since(b, v, s)'
    BY <2>5, <2>7, TrailsKept
  <2>9. PICK r : r = snapshot'.agents[b]
    OBVIOUS
  <2>10. r.version = v /\ r.status = s
    BY <2>1, <2>3, <2>4, <2>9
  <2>11. Trails(b, r)'
    BY <2>8, <2>10, Zenon DEF Trails
  <2>12. Trails(b, snapshot.agents[b])'
    BY <2>9, <2>11, Zenon
  <2> QED
    BY <1>4, <2>1, <2>12
<1>9. CASE snapshot' = NoSnapshot \/ snapshot' = [NoSnapshot EXCEPT !.dead = TRUE]
  BY <1>2, <1>9 DEF NoSnapshot
<1>10. CASE Capture \/ ReadDraft
  BY <1>0, <1>3, <1>10, CaptureIs, ReadDraftIs
<1>11. CASE snapshot' = snapshot
  BY <1>3, <1>11
<1> QED
  BY <1>5, <1>7, <1>8, <1>9, <1>10, <1>11, SnapshotStep


LEMMA TrailsAllKept ==
    ASSUME Base, EventsInv, [Next]_vars, NEW r \in ReplicaType, TrailsAll(r)
    PROVE TrailsAll(r)'
<1>1. ASSUME NEW a \in Agents PROVE Trails(a, Shows(r, a))'
  <2>1. PICK s : s = Shows(r, a)
    OBVIOUS
  <2>2. s \in Resource /\ Trails(a, s)
    BY <2>1 DEF Shows, ReplicaType, Agents, TrailsAll
  <2>3. Trails(a, s)'
    BY <2>2, ResourceTrails
  <2>4. Shows(r, a)' = s
    BY <2>1, Zenon DEF Shows
  <2> QED
    BY <2>3, <2>4, Zenon
<1> QED
  BY <1>1 DEF TrailsAll

(* An unknown replica is empty, so that a snapshot replaces all of it.      *)
LEMMA AdoptedTrails ==
    ASSUME Base, SnapshotTrails, ReplicaTrails, Answered
    PROVE TrailsAll(Adopt(client.replica))
<1>0. client.replica \in ReplicaType /\ snapshot \in SnapshotType
  BY DEF Base, TypeOK, ClientType
<1>1. PICK old : old = client.replica
  OBVIOUS
<1>2. PICK new : new = Adopt(old)
  OBVIOUS
<1>3. Adopts(old, new)
  BY <1>0, <1>1, <1>2, AdoptIs
<1>4. \A a \in Agents : Trails(a, snapshot.agents[a])
  BY DEF Answered, SnapshotTrails
<1>5. old.known => TrailsAll(old)
  BY <1>1 DEF ReplicaTrails
<1>6. old.subagentsCursor > snapshot.cursor => old.known
  <2>1. ~old.known => old.subagentsCursor = 0
    BY <1>1 DEF ReplicaTrails, NoReplica
  <2>2. snapshot.cursor \in Nat
    BY <1>0 DEF SnapshotType
  <2>3. old.known \in BOOLEAN
    BY <1>0, <1>1 DEF ReplicaType
  <2> QED
    BY <2>1, <2>2, <2>3
<1>7. Trails(Root, Shows(new, Root))
  <2>1. new.agent = snapshot.agents[Root] \/ (old.known /\ new.agent = old.agent)
    BY <1>3 DEF Adopts
  <2>2. old.known => Trails(Root, old.agent)
    BY <1>5, Shown DEF TrailsAll, Shows
  <2> QED
    BY <1>4, <2>1, <2>2, Shown DEF Shows
<1>8. ASSUME NEW a \in Children PROVE Trails(a, Shows(new, a))
  <2>1. new.subagents[a] = snapshot.agents[a] \/ (old.known /\ new.subagents[a] = old.subagents[a])
    BY <1>3, <1>6 DEF Adopts
  <2>2. a # Root /\ a \in Agents
    BY Shown
  <2>3. old.known => Trails(a, old.subagents[a])
    BY <1>5, <2>2 DEF TrailsAll, Shows
  <2> QED
    BY <1>4, <2>1, <2>2, <2>3 DEF Shows
<1> QED
  BY <1>1, <1>2, <1>7, <1>8 DEF TrailsAll, Agents

LEMMA ReplicaTrailsKept ==
    ASSUME Base, EventsInv, JournalUpdates, SnapshotTrails, ReplicaTrails, [Next]_vars
    PROVE ReplicaTrails'
<1>0. /\ TypeOK /\ FeedInv /\ RecentSeen /\ client.replica \in ReplicaType
      /\ ClientOK(client, cursor) /\ cursor \in 0..Len(log) /\ Len(log) \in Nat
  BY TypesAre DEF Base, TypeOK, ClientType, FeedInv, ConnectionInv, JournalInv, ReducerTypes
<1>1. ASSUME NEW r \in ReplicaType, client'.replica = r, ~r.known => r = NoReplica,
             r.known => TrailsAll(r)
      PROVE ReplicaTrails'
  <2>1. r.known => TrailsAll(r)'
    BY <1>1, TrailsAllKept
  <2> QED
    BY <1>1, <2>1, Zenon DEF ReplicaTrails
<1>2. CASE client'.replica = client.replica
  BY <1>0, <1>1, <1>2 DEF ReplicaTrails
<1>3. ASSUME NEW p \in wire, Frame(p) PROVE ReplicaTrails'
  <2>1. PICK c : Frames(p, c)
    BY <1>0, <1>3, FrameIs
  <2>2. PICK result : Reduces(client.replica, log[p], p, result) /\ c.replica = result.replica
    BY <2>1 DEF Frames
  <2>3. client'.replica = c.replica /\ log[p] \in Visible /\ p \in 1..Len(log)
    <3>1. ClientOK(c, p) /\ client' = Drained(c) /\ p \in (cursor + 1)..Len(log) /\ log[p] \in Visible
      BY <2>1 DEF Frames
    <3>2. client'.replica = c.replica
      BY <3>1, DrainedIs DEF Follows
    <3> QED
      BY <1>0, <3>1, <3>2
  <2>4. PICK r : r = result.replica
    OBVIOUS
  <2>5. /\ r \in ReplicaType /\ r.known = client.replica.known
        /\ ~client.replica.known => r = client.replica
    BY <2>2, <2>4 DEF Reduces
  <2>6. client.replica.known => TrailsAll(r)
    <3>1. IsUpdate(log[p]) => UpdateOK(log[p])
      BY <2>3 DEF JournalUpdates
    <3> QED
      BY <1>0, <2>2, <2>3, <2>4, <3>1, ReducedTrails DEF ReplicaTrails
  <2> QED
    BY <1>1, <2>2, <2>3, <2>4, <2>5, <2>6 DEF ReplicaTrails
<1>4. CASE FinishSync
  <2>1. PICK c : Finishes(c)
    BY <1>0, <1>4, FinishIs DEF RecentSeen
  <2>2. client'.replica = Rebased.replica /\ Answered
    BY <2>1, DrainIs DEF Finishes, Follows
  <2>3. PICK x : x = Rebased
    OBVIOUS
  <2>4. Folded(Adopt(client.replica), Len(log), x)
    BY <1>0, <2>3, RebasedFolds DEF RecentSeen
  <2>5. TrailsAll(Adopt(client.replica))
    BY <2>2, AdoptedTrails
  <2>6. \A p \in client.recent : IsUpdate(log[p]) => UpdateOK(log[p])
    <3>1. client.recent \subseteq 1..Len(log)
      BY <1>0 DEF ClientOK
    <3> QED
      BY <3>1 DEF JournalUpdates
  <2>7. x.replica \in ReplicaType /\ x.replica.known /\ TrailsAll(x.replica)
    BY <2>4, <2>5, <2>6 DEF Folded
  <2> QED
    BY <1>1, <2>2, <2>3, <2>7
<1> QED
  BY <1>2, <1>3, <1>4, ReplicaStep
-----------------------------------------------------------------------------
(* What is announced, what is shown and what is, so far                     *)
TrailInv ==
    /\ Base /\ EventsInv /\ NoRetries /\ JournalUpdates /\ SnapshotTrails /\ ReplicaTrails

LEMMA TrailInitially == Init => TrailInv
<1> SUFFICES ASSUME Init PROVE TrailInv
  OBVIOUS
<1>1. Base
  BY BaseInitially
<1>2. /\ minted = 0 /\ tx = NoEvent /\ durable = {} /\ streamed = {} /\ liveRetries = {}
      /\ chain = [a \in Agents |-> <<>>] /\ log = <<Origin>> /\ snapshot = NoSnapshot
      /\ client.replica = NoReplica
  BY DEF Init, FeedInit
<1>3. EventsInv /\ NoRetries
  BY <1>2 DEF EventsInv, NoRetries, Free, NoEvent
<1>4. JournalUpdates
  <2>1. Len(log) = 1 /\ log[1] = Origin /\ Origin \notin Visible
    BY <1>2, EventFeedAssumption
  <2>2. \A a \in Agents : DOMAIN chain[a] = {}
    BY <1>2
  <2>3. \A p \in 1..Len(log) : ~IsUpdate(log[p])
    BY <2>1 DEF IsUpdate
  <2> QED
    BY <1>2, <2>2, <2>3 DEF JournalUpdates
<1>5. SnapshotTrails
  BY <1>2 DEF SnapshotTrails, NoSnapshot
<1>6. ReplicaTrails
  BY <1>2 DEF ReplicaTrails, NoReplica
<1> QED
  BY <1>1, <1>3, <1>4, <1>5, <1>6 DEF TrailInv

LEMMA TrailKept ==
    ASSUME "retrying" \notin Kinds PROVE TrailInv /\ [Next]_vars => TrailInv'
<1> SUFFICES ASSUME TrailInv, [Next]_vars PROVE TrailInv'
  OBVIOUS
<1>1. Base /\ EventsInv /\ NoRetries /\ JournalUpdates /\ SnapshotTrails /\ ReplicaTrails
  BY DEF TrailInv
<1>2. Base'
  BY <1>1, BaseKept
<1>3. EventsInv'
  BY <1>1, EventsKept
<1>4. NoRetries'
  BY <1>1, NoRetriesKept
<1>5. JournalUpdates'
  BY <1>1, JournalUpdatesKept
<1>6. SnapshotTrails'
  BY <1>1, SnapshotTrailsKept
<1>7. ReplicaTrails'
  BY <1>1, ReplicaTrailsKept
<1> QED
  BY <1>2, <1>3, <1>4, <1>5, <1>6, <1>7 DEF TrailInv

(* What is shown of the agent and its subagents is at least as new as the   *)
(* version it is labelled with, whatever order a snapshot's statements and  *)
(* the events came in.                                                      *)
THEOREM TrailsState ==
    ASSUME "retrying" \notin Kinds PROVE Spec => []TrailsItsState
<1>1. TrailInv => TrailsItsState
  <2> SUFFICES ASSUME TrailInv PROVE TrailsItsState
    OBVIOUS
  <2>1. ASSUME client.replica.known, NEW a \in Agents
        PROVE \E v \in Known(a).version..minted : Known(a).status = StatusAt(a, v)
    <3>1. Known(a) = Shows(client.replica, a)
      BY DEF Known, Shows
    <3>2. Trails(a, Shows(client.replica, a))
      BY <2>1 DEF TrailInv, ReplicaTrails, TrailsAll
    <3> QED
      BY <3>1, <3>2 DEF Trails, Since
  <2> QED
    BY <2>1 DEF TrailsItsState
<1>2. TrailInv /\ [Next]_vars => TrailInv'
  BY TrailKept
<1> QED
  BY <1>1, <1>2, TrailInitially, PTL DEF Spec
-----------------------------------------------------------------------------
(* What is still to come                                                    *)

(* An entry stays in its agent's chain until it is converted.               *)
LEMMA ChainKeeps ==
    ASSUME TypeOK, [Next]_vars, ~RestartDaemon, NEW a \in Agents, NEW i \in DOMAIN chain[a]
    PROVE \/ \E j \in DOMAIN chain'[a] : chain'[a][j] = chain[a][i]
          \/ \E part, e : Converts(a, part, e) /\ chain[a][i] = [event |-> e, part |-> part]
<1>0. ServerTypes /\ chain \in [Agents -> Seq(Part)]
  BY TypesAre DEF TypeOK
<1>1. CASE chain' = chain
  BY <1>1
<1>2. ASSUME NEW e \in Events, Enqueue(e)
      PROVE \E j \in DOMAIN chain'[a] : chain'[a][j] = chain[a][i]
  <2>1. CASE a # e.agent
    <3>1. chain'[a] = chain[a]
      BY <1>0, <1>2, <2>1, Enqueued
    <3> QED
      BY <3>1
  <2>2. CASE a = e.agent
    <3>1. PICK s : s = chain[a]
      OBVIOUS
    <3>2. PICK t : t = PartsOf(e)
      OBVIOUS
    <3>3. s \in Seq(Part) /\ t \in Seq(Part) /\ chain'[a] = s \o t
      BY <1>0, <1>2, <2>2, <3>1, <3>2, Enqueued, PartsAre
    <3>4. i \in DOMAIN (s \o t) /\ (s \o t)[i] = s[i]
      BY <3>1, <3>3, Joined
    <3> QED
      BY <3>1, <3>3, <3>4
  <2> QED
    BY <2>1, <2>2
<1>3. CASE Publish
  BY <1>2, <1>3 DEF Publish, Free, TypeOK
<1>4. ASSUME NEW e, Streams(e) PROVE \E j \in DOMAIN chain'[a] : chain'[a][j] = chain[a][i]
  BY <1>2, <1>4 DEF Streams
<1>5. ASSUME NEW b \in Agents, NEW part, NEW e, Converts(b, part, e)
      PROVE \/ \E j \in DOMAIN chain'[a] : chain'[a][j] = chain[a][i]
            \/ Converts(a, part, e) /\ chain[a][i] = [event |-> e, part |-> part]
  <2>1. /\ chain[b] # <<>> /\ Head(chain[b]) = [event |-> e, part |-> part]
        /\ chain' = [chain EXCEPT ![b] = Tail(chain[b])]
    BY <1>5 DEF Converts
  <2>2. CASE a # b
    <3>1. chain'[a] = chain[a]
      BY <1>0, <2>1, <2>2
    <3> QED
      BY <3>1
  <2>3. CASE a = b
    <3>1. PICK s : s = chain[a]
      OBVIOUS
    <3>2. s \in Seq(Part) /\ s # <<>> /\ chain'[a] = Tail(s) /\ Head(s) = [event |-> e, part |-> part]
      BY <1>0, <2>1, <2>3, <3>1
    <3>3. i \in DOMAIN s
      BY <3>1
    <3>4. CASE i = 1
      BY <1>5, <2>3, <3>1, <3>2, <3>4, Served
    <3>5. CASE i # 1
      <4>1. i - 1 \in DOMAIN Tail(s) /\ Tail(s)[i - 1] = s[i]
        BY <3>2, <3>3, <3>5, Served
      <4> QED
        BY <3>1, <3>2, <4>1
    <3> QED
      BY <3>4, <3>5
  <2> QED
    BY <2>2, <2>3
<1> QED
  BY <1>1, <1>3, <1>4, <1>5, ChainStep

(* A conversion journals what it is of.                                     *)
LEMMA ConvertLogs ==
    ASSUME Base, [Next]_vars, NEW a \in Agents, NEW part, NEW e, Converts(a, part, e)
    PROVE /\ part = "update" => Logs(Update(e, ChangesOf(e)))
          /\ part = "draft" => Logs(DraftEntry(a, Draft(a)))
<1>0. log \in Seq(Entry \cup {Origin}) /\ TypeOK /\ e \in Events
  BY DEF Base, FeedInv, JournalInv, Converts
<1>1. ASSUME NEW entry \in Entry, Journal(entry) PROVE Logs(entry)
  BY <1>0, <1>1 DEF Journal, Logs
<1>2. DraftEntry(a, Draft(a)) \in Entry /\ Update(e, ChangesOf(e)) \in Entry
  <2>1. Draft(a) \in Versions /\ ChangesOf(e) \in Changes
    BY <1>0, ReadsAreVersions, ChangesOfShown
  <2> QED
    BY <1>0, <2>1, UpdateShown, Shown
<1>3. part = "update" => Journal(Update(e, ChangesOf(e)))
  BY DEF Converts
<1>4. part = "draft" => Journal(DraftEntry(a, Draft(a)))
  BY DEF Converts
<1> QED
  BY <1>1, <1>2, <1>3, <1>4

(* An update that is due is announced in time.                              *)
LEMMA DueKept ==
    ASSUME Base, PartsOK, [Next]_vars, ~RestartDaemon, NEW e, UpdateDue(e)
    PROVE \/ UpdateDue(e)'
          \/ /\ Len(log') = Len(log) + 1 /\ IsUpdate(log'[Len(log) + 1])
             /\ log'[Len(log) + 1].agent = Root /\ log'[Len(log) + 1].version = e.id
<1>1. PICK i \in DOMAIN chain[Root] : chain[Root][i].part = "update" /\ chain[Root][i].event = e
  BY DEF UpdateDue
<1>2. Root \in Agents /\ TypeOK
  BY Shown DEF Base
<1>3. CASE \E j \in DOMAIN chain'[Root] : chain'[Root][j] = chain[Root][i]
  BY <1>1, <1>3 DEF UpdateDue
<1>4. ASSUME NEW part, NEW f, Converts(Root, part, f), chain[Root][i] = [event |-> f, part |-> part]
      PROVE /\ Len(log') = Len(log) + 1 /\ IsUpdate(log'[Len(log) + 1])
            /\ log'[Len(log) + 1].agent = Root /\ log'[Len(log) + 1].version = e.id
  <2>1. part = "update" /\ f = e
    BY <1>1, <1>4
  <2>2. PICK entry : entry = Update(e, ChangesOf(e))
    OBVIOUS
  <2>3. Logs(entry)
    BY <1>2, <1>4, <2>1, <2>2, ConvertLogs
  <2>4. e.agent = Root /\ e \in Events
    <3>1. PartOK(Root, chain[Root][i])
      BY <1>1, <1>2 DEF PartsOK
    <3> QED
      BY <1>1, <1>4, <2>1, <3>1 DEF PartOK, Converts
  <2>5. entry \in Visible /\ entry.type = "update" /\ entry.agent = Root /\ entry.version = e.id
    <3>1. entry \in Visible
      BY <1>2, <2>2, <2>4, UpdateShown, ChangesOfShown
    <3> QED
      BY <2>2, <2>4, <3>1 DEF Update, UpdateEntry
  <2> QED
    BY <2>3, <2>5 DEF Logs, IsUpdate
<1> QED
  BY <1>2, <1>3, <1>4, ChainKeeps

(* What an event that is published has its chain announce.                  *)
LEMMA PublishDue ==
    ASSUME TypeOK, Publish, NEW e, e = tx, e.agent = Root
    PROVE UpdateDue(e)' /\ (e.kind = "drafted" => InChain("draft")')
<1>0. ServerTypes /\ Root \in Agents
  BY TypesAre, Shown
<1>2. e \in Events /\ Enqueue(e) /\ e.agent = Root
  BY DEF Publish, Free, TypeOK
<1>3. PICK s : s = chain[Root]
  OBVIOUS
<1>4. PICK t : t = PartsOf(e)
  OBVIOUS
<1>5. s \in Seq(Part) /\ t \in Seq(Part) /\ chain'[Root] = s \o t
  BY <1>0, <1>2, <1>3, <1>4, Enqueued, PartsAre DEF ServerTypes
<1>6. /\ Len(t) \in {1, 2} /\ \A i \in 1..Len(t) : t[i].event = e
      /\ t[Len(t)].part = "update" /\ (e.kind = "drafted" => t[1].part = "draft")
  BY <1>2, <1>4, PartsAre
<1>7. Len(t) \in 1..Len(t) /\ 1 \in 1..Len(t)
  BY <1>6
<1>8. /\ Len(s) + Len(t) \in DOMAIN (s \o t) /\ (s \o t)[Len(s) + Len(t)] = t[Len(t)]
      /\ Len(s) + 1 \in DOMAIN (s \o t) /\ (s \o t)[Len(s) + 1] = t[1]
  BY <1>5, <1>7, Joined
<1>c. PICK c : c = s \o t
  OBVIOUS
<1>n. PICK n : n = Len(s) + Len(t)
  OBVIOUS
<1>9. UpdateDue(e)'
  <2>1. n \in DOMAIN c /\ c[n] = t[Len(t)] /\ chain'[Root] = c
    BY <1>5, <1>8, <1>c, <1>n
  <2>2. c[n].part = "update" /\ c[n].event = e
    BY <1>6, <1>7, <2>1
  <2> QED
    BY <2>1, <2>2, Zenon DEF UpdateDue
<1>10. e.kind = "drafted" => InChain("draft")'
  BY <1>5, <1>6, <1>8 DEF InChain
<1> QED
  BY <1>9, <1>10


(* What was current still is, unless a daemon took over: then nothing is.   *)
LEMMA CurrentStep ==
    ASSUME Base, [Next]_vars, NEW c \in Nat, c <= Len(log)
    PROVE /\ Current(c)' => Current(c) /\ ~RestartDaemon
          /\ Current(c) /\ ~RestartDaemon => Current(c)'
<1>0. /\ Len(log) \in Nat /\ Len(log') \in Nat /\ Len(log') >= Len(log)
      /\ \A p \in 1..Len(log) : log'[p] = log[p]
  BY FeedStep, LogGrows DEF Base
<1>1. \A p \in (c + 1)..Len(log) : p \in 1..Len(log) /\ p \in (c + 1)..Len(log')
  BY <1>0
<1>2. Current(c)' => Current(c)
  BY <1>0, <1>1 DEF Current
<1>3. RestartDaemon => ~Current(c)'
  <2>1. ASSUME RestartDaemon PROVE Logs(Origin)
    <3>1. log' = Append(log, Origin) /\ log \in Seq(Entry \cup {Origin})
      BY <2>1 DEF RestartDaemon, NewDaemon, Base, FeedInv, JournalInv
    <3> QED
      BY <3>1 DEF Logs
  <2>2. ASSUME Logs(Origin) PROVE ~Current(c)'
    <3>1. Len(log) + 1 \in (c + 1)..Len(log') /\ log'[Len(log) + 1] = Origin
      BY <1>0, <2>2 DEF Logs
    <3> QED
      BY <3>1 DEF Current
  <2> QED
    BY <2>1, <2>2
<1>4. ASSUME Current(c), ~RestartDaemon PROVE Current(c)'
  <2>1. ASSUME NEW p \in (c + 1)..Len(log), log'[p] = log[p] PROVE log'[p] # Origin
    BY <1>4, <2>1 DEF Current
  <2>2. CASE log' = log
    BY <1>4, <2>2 DEF Current
  <2>3. ASSUME NEW entry, entry # Origin, Logs(entry) PROVE Current(c)'
    <3>1. \A p \in (c + 1)..Len(log') : p \in (c + 1)..Len(log) \/ p = Len(log) + 1
      BY <1>0, <2>3 DEF Logs
    <3> QED
      BY <1>0, <1>1, <2>1, <2>3, <3>1 DEF Logs, Current
  <2>4. HiddenEntry # Origin /\ \A entry \in Visible : entry # Origin
    BY Shown, EventFeedAssumption
  <2> QED
    BY <1>4, <2>2, <2>3, <2>4, LogStep
<1> QED
  BY <1>2, <1>3, <1>4

LEMMA CurrentLater ==
    ASSUME NEW c \in Nat, NEW d \in Nat, c <= d, Current(c), Len(log) \in Nat PROVE Current(d)
  BY DEF Current

(* What becomes durable is what a transaction committed.                    *)
LEMMA DurableStep ==
    ASSUME [Next]_vars, ~RestartDaemon PROVE durable' = durable \/ Publish
<1>1. CASE UNCHANGED serverVars \/ UNCHANGED vars
  BY <1>1 DEF serverVars, vars
<1>2. CASE (\E a \in Agents, kind \in Kinds : Record(a, kind))
           \/ (\E a \in Agents : "streamed" \in Kinds /\ Stream(a))
           \/ Rollback \/ \E a \in Agents : Convert(a)
  BY <1>2, Zenon DEF Record, Stream, Rollback, Convert
<1>3. CASE Elsewhere \/ Receive \/ Request \/ FinishSync \/ FailSync \/ RetryTimer \/ Prune
           \/ Reconnect \/ LoseConnection \/ StopAndStart \/ Rest
  <2>1. UNCHANGED serverVars \/ UNCHANGED vars
    BY <1>3, Zenon DEF Elsewhere, Receive, Hello, Frame, Request, Capture, ReadDraft,
       ReadConfig, ReadVersion, ReadStatus, Serve, FinishSync, FailSync, RetryTimer, Prune,
       Reconnect, LoseConnection, StopAndStart, Rest
  <2> QED
    BY <1>1, <2>1
<1> QED
  BY <1>1, <1>2, <1>3, Zenon DEF Next, Work, Transact

(* No news is lost on its way.                                              *)
LEMMA NewsKept ==
    ASSUME Base, PartsOK, [Next]_vars, ~RestartDaemon, NEW c \in Nat, c <= Len(log), NEW version,
           NewsAfter(version, c)
    PROVE NewsAfter(version, c)'
<1>0. /\ Len(log) \in Nat /\ Len(log') \in Nat /\ Len(log') >= Len(log)
      /\ \A p \in 1..Len(log) : log'[p] = log[p]
  BY FeedStep, LogGrows DEF Base
<1>1. ASSUME NEW e \in Of(Root, durable)
      PROVE \/ e.id <= version \/ UpdateDue(e)'
            \/ \E p \in (c + 1)..Len(log') :
                   IsUpdate(log'[p]) /\ log'[p].agent = Root /\ log'[p].version = e.id
  <2>1. \/ e.id <= version \/ UpdateDue(e)
        \/ \E p \in (c + 1)..Len(log) :
               IsUpdate(log[p]) /\ log[p].agent = Root /\ log[p].version = e.id
    BY DEF NewsAfter
  <2>2. CASE UpdateDue(e)
    <3>1. CASE UpdateDue(e)'
      BY <3>1
    <3>2. CASE /\ Len(log') = Len(log) + 1 /\ IsUpdate(log'[Len(log) + 1])
               /\ log'[Len(log) + 1].agent = Root /\ log'[Len(log) + 1].version = e.id
      <4>1. Len(log) + 1 \in (c + 1)..Len(log')
        BY <1>0, <3>2
      <4> QED
        BY <3>2, <4>1
    <3> QED
      BY <2>2, <3>1, <3>2, DueKept
  <2>3. ASSUME NEW p \in (c + 1)..Len(log), IsUpdate(log[p]), log[p].agent = Root, log[p].version = e.id
        PROVE p \in (c + 1)..Len(log') /\ IsUpdate(log'[p]) /\ log'[p].agent = Root
              /\ log'[p].version = e.id
    BY <1>0, <2>3
  <2> QED
    BY <2>1, <2>2, <2>3
<1>2. ASSUME NEW e, e \in Of(Root, durable)', e \notin Of(Root, durable) PROVE UpdateDue(e)'
  <2>1. Publish /\ e = tx /\ e.agent = Root
    <3>1. CASE durable' = durable
      BY <1>2, <3>1 DEF Of
    <3>2. CASE Publish
      BY <1>2, <3>2 DEF Of, Publish
    <3>3. durable' = durable \/ Publish
      BY DurableStep
    <3> QED
      BY <3>1, <3>2, <3>3
  <2> QED
    BY <2>1, PublishDue DEF Base
<1> QED
  BY <1>1, <1>2 DEF NewsAfter

LEMMA DraftKept ==
    ASSUME Base, [Next]_vars, ~RestartDaemon, NEW c \in Nat, c <= Len(log), NEW draft,
           DraftAfter(draft, c)
    PROVE DraftAfter(draft, c)'
<1>0. /\ Len(log) \in Nat /\ Len(log') \in Nat /\ Len(log') >= Len(log)
      /\ \A p \in 1..Len(log) : log'[p] = log[p]
      /\ TypeOK /\ Root \in Agents
  BY FeedStep, LogGrows, Shown DEF Base
<1>1. CASE draft = Draft(Root)
  <2>1. CASE durable' = durable
    <3>1. Draft(Root)' = Draft(Root)
      BY <2>1, Zenon DEF Draft, WithKind, Of, Ids, Greatest
    <3> QED
      BY <1>1, <3>1 DEF DraftAfter
  <2>2. CASE Publish
    <3>1. PICK e : e = tx
      OBVIOUS
    <3>2. durable' = durable \cup {e}
      BY <2>2, <3>1 DEF Publish
    <3>3. CASE e.agent = Root /\ e.kind = "drafted"
      BY <1>0, <2>2, <3>1, <3>3, PublishDue DEF DraftAfter
    <3>4. CASE ~(e.agent = Root /\ e.kind = "drafted")
      <4>1. WithKind({"drafted"}, Of(Root, durable')) = WithKind({"drafted"}, Of(Root, durable))
        BY <3>2, <3>4 DEF WithKind, Of
      <4>2. Draft(Root) = Greatest(Ids(WithKind({"drafted"}, Of(Root, durable))))
        BY DEF Draft
      <4>3. Draft(Root)' = Greatest(Ids(WithKind({"drafted"}, Of(Root, durable'))))
        BY Zenon DEF Draft, WithKind, Of, Ids, Greatest
      <4>4. Draft(Root)' = Draft(Root)
        BY <4>1, <4>2, <4>3
      <4> QED
        BY <1>1, <4>4 DEF DraftAfter
    <3> QED
      BY <3>3, <3>4
  <2> QED
    BY <2>1, <2>2, DurableStep
<1>2. CASE InChain("draft")
  <2>1. PICK i \in DOMAIN chain[Root] : chain[Root][i].part = "draft"
    BY <1>2 DEF InChain
  <2>2. CASE \E j \in DOMAIN chain'[Root] : chain'[Root][j] = chain[Root][i]
    BY <2>1, <2>2 DEF InChain, DraftAfter
  <2>3. ASSUME NEW part, NEW f, Converts(Root, part, f), chain[Root][i] = [event |-> f, part |-> part]
        PROVE DraftAfter(draft, c)'
    <3>1. part = "draft"
      BY <2>1, <2>3
    <3>2. PICK entry : entry = DraftEntry(Root, Draft(Root))
      OBVIOUS
    <3>3. Logs(entry)
      BY <1>0, <2>3, <3>1, <3>2, ConvertLogs
    <3>4. entry \in Visible
      BY <1>0, <3>2, Shown, ReadsAreVersions
    <3>5. IsDraft(entry)
      BY <3>2, <3>4 DEF IsDraft, DraftEntry
    <3>6. Len(log) + 1 \in (c + 1)..Len(log') /\ log'[Len(log) + 1] = entry
      BY <1>0, <3>3 DEF Logs
    <3> QED
      BY <3>5, <3>6 DEF DraftAfter, IsDraft
  <2> QED
    BY <1>0, <2>2, <2>3, ChainKeeps
<1>3. ASSUME NEW p \in (c + 1)..Len(log), IsDraft(log[p]) PROVE DraftAfter(draft, c)'
  <2>1. p \in (c + 1)..Len(log') /\ log'[p] = log[p]
    BY <1>0
  <2> QED
    BY <1>3, <2>1 DEF DraftAfter, IsDraft
<1> QED
  BY <1>1, <1>2, <1>3 DEF DraftAfter

(* The draft that the journal ends with is the agent's, or one more comes.  *)
LEMMA JournalDraftsKept ==
    ASSUME Base, JournalDrafts, [Next]_vars PROVE JournalDrafts'
<1>0. /\ Len(log) \in Nat /\ Len(log') \in Nat /\ Len(log') >= Len(log)
      /\ \A p \in 1..Len(log) : log'[p] = log[p]
      /\ TypeOK /\ Root \in Agents
  BY FeedStep, LogGrows, Shown DEF Base
<1>1. ASSUME NEW p \in 1..Len(log), IsDraft(log[p])', Current(p)' PROVE DraftAfter(log[p].draft, p)'
  <2>1. p \in Nat /\ p <= Len(log) /\ log'[p] = log[p]
    BY <1>0
  <2>2. Current(p) /\ ~RestartDaemon
    BY <1>1, <2>1, CurrentStep
  <2>3. PICK draft : draft = log[p].draft
    OBVIOUS
  <2>4. DraftAfter(draft, p)
    BY <1>1, <2>1, <2>2, <2>3 DEF JournalDrafts, IsDraft
  <2>5. DraftAfter(draft, p)'
    BY <2>1, <2>2, <2>4, DraftKept
  <2>6. log'[p].draft = draft
    BY <2>1, <2>3
  <2> QED
    BY <2>5, <2>6, Zenon
<1>2. ASSUME NEW entry \in Visible, Logs(entry), Announces(entry), IsDraft(entry),
             NEW p, p = Len(log')
      PROVE DraftAfter(log[p].draft, p)'
  <2>1. PICK a \in Agents : \E part, e :
            /\ Converts(a, part, e)
            /\ \/ part = "draft" /\ entry = DraftEntry(a, Draft(a))
               \/ part = "update" /\ entry = Update(e, ChangesOf(e))
               \/ part = "clear" /\ a \in liveRetries /\ entry = Update(e, <<>>)
    BY <1>2 DEF Announces
  <2>2. PICK part, e : /\ Converts(a, part, e)
                       /\ \/ part = "draft" /\ entry = DraftEntry(a, Draft(a))
                          \/ part = "update" /\ entry = Update(e, ChangesOf(e))
                          \/ part = "clear" /\ a \in liveRetries /\ entry = Update(e, <<>>)
    BY <2>1
  <2>3. entry = DraftEntry(a, Draft(a)) /\ a = Root /\ durable' = durable
    BY <1>2, <2>2 DEF IsDraft, DraftEntry, Update, UpdateEntry, Converts
  <2>4. PICK draft : draft = Draft(Root)
    OBVIOUS
  <2>5. Draft(Root)' = draft
    BY <2>3, <2>4, Zenon DEF Draft, WithKind, Of, Ids, Greatest
  <2>6. log'[p].draft = draft
    BY <1>2, <2>3, <2>4 DEF Logs, DraftEntry
  <2>7. DraftAfter(draft, p)'
    BY <2>5 DEF DraftAfter
  <2> QED
    BY <2>6, <2>7, Zenon
<1>3. ASSUME NEW p \in 1..Len(log'), IsDraft(log[p])', Current(p)' PROVE DraftAfter(log[p].draft, p)'
  <2>1. CASE p \in 1..Len(log)
    BY <1>1, <1>3, <2>1
  <2>2. CASE p \notin 1..Len(log)
    <3>1. ~(log' = log)
      BY <2>2
    <3>2. HiddenEntry \notin Visible /\ Origin \notin Visible
      BY ShownIs, EventFeedAssumption DEF HiddenEntry
    <3>3. ASSUME NEW entry, Logs(entry) PROVE p = Len(log') /\ log'[p] = entry
      BY <1>0, <2>2, <3>3 DEF Logs
    <3>4. log'[p] \in Visible
      BY <1>3 DEF IsDraft
    <3>5. PICK entry \in Visible : Logs(entry) /\ Announces(entry)
      BY <3>1, <3>2, <3>3, <3>4, LogStep
    <3>6. IsDraft(entry)
      BY <1>3, <3>3, <3>5 DEF IsDraft
    <3> QED
      BY <1>2, <3>3, <3>5, <3>6
  <2> QED
    BY <2>1, <2>2
<1> QED
  BY <1>3 DEF JournalDrafts
-----------------------------------------------------------------------------
(* The stream, and what a request reads of the agent                        *)

(* What moves the client's cursor, and what becomes of its connection.      *)
LEMMA CursorStep ==
    ASSUME [Next]_vars PROVE cursor' = cursor \/ Hello \/ \E p \in wire : Frame(p)
<1>1. CASE Work \/ Elsewhere \/ Request \/ FinishSync \/ FailSync \/ RetryTimer \/ Prune
           \/ Reconnect \/ LoseConnection \/ StopAndStart \/ RestartDaemon \/ Rest
           \/ (\E a \in Agents, kind \in Kinds : Record(a, kind))
           \/ (\E a \in Agents : "streamed" \in Kinds /\ Stream(a)) \/ UNCHANGED vars
  <2>1. UNCHANGED followerVars \/ UNCHANGED feedVars \/ UNCHANGED vars \/ UNCHANGED cursor
    BY <1>1, Zenon DEF Work, Transact, Publish, Rollback, Convert, Elsewhere, Request, Capture,
       ReadDraft, ReadConfig, ReadVersion, ReadStatus, Serve, FinishSync, FailSync, RetryTimer,
       Prune, Reconnect, LoseConnection, StopAndStart, RestartDaemon, Rest, Record, Stream
  <2> QED
    BY <2>1 DEF vars, feedVars, followerVars
<1> QED
  BY <1>1, Zenon DEF Next, Receive

LEMMA StreamStep ==
    ASSUME [Next]_vars
    PROVE \/ ~open' /\ hello' = NoHello
          \/ Reconnect \/ Hello \/ (\E p \in wire : Frame(p))
          \/ UNCHANGED <<open, hello, cursor>> /\ ~RestartDaemon
<1>1. RestartDaemon => ~open' /\ hello' = NoHello
  BY DEF RestartDaemon, NewDaemon, Disconnected
<1>2. CASE LoseConnection \/ StopAndStart
  BY <1>2 DEF LoseConnection, StopAndStart, Break, StartAgain, Disconnected
<1>3. CASE \E a \in Agents : Convert(a)
  <2>1. PICK a \in Agents : Convert(a)
    BY <1>3
  <2>2. UNCHANGED followerVars
    BY <2>1, Zenon DEF Convert
  <2>3. (\E entry : Journal(entry)) \/ UNCHANGED <<log, daemonVars, connectionVars>>
    BY <2>1, Zenon DEF Convert
  <2> QED
    BY <1>1, <2>2, <2>3 DEF Journal, connectionVars, followerVars
<1>4. CASE Elsewhere
  BY <1>1, <1>4 DEF Elsewhere, Journal, followerVars
<1>5. CASE Transact \/ Request \/ FinishSync \/ FailSync \/ RetryTimer \/ Prune \/ Rest
           \/ (\E a \in Agents, kind \in Kinds : Record(a, kind))
           \/ (\E a \in Agents : "streamed" \in Kinds /\ Stream(a)) \/ UNCHANGED vars
  <2>1. UNCHANGED feedVars \/ UNCHANGED vars
    BY <1>5, Zenon DEF Transact, Publish, Rollback, Request, Capture,
       ReadDraft, ReadConfig, ReadVersion, ReadStatus, Serve, FinishSync, FailSync, RetryTimer,
       Prune, Rest, Record, Stream
  <2> QED
    BY <1>1, <2>1 DEF vars, feedVars, followerVars, connectionVars
<1> QED
  BY <1>1, <1>2, <1>3, <1>4, <1>5, Zenon DEF Next, Work, Receive

(* The stream goes on from a cursor of the daemon that serves it.           *)
LEMMA StreamInvKept ==
    ASSUME Base, StreamInv, [Next]_vars PROVE StreamInv'
<1>0. /\ FeedInv /\ TypeOK /\ FeedInv' /\ cursor \in Nat /\ cursor <= Len(log) /\ Len(log) \in Nat
      /\ hello # NoHello => hello.cursor \in Nat /\ hello.cursor <= Len(log)
      /\ ~open => hello = NoHello
      /\ ClientOK(client, cursor)
  <2>1. FeedInv /\ TypeOK /\ FeedInv'
    BY BaseKept DEF Base
  <2>2. ClientOK(client, cursor)
    BY <2>1, TypesAre DEF ReducerTypes
  <2>3. log \in Seq(Entry \cup {Origin}) /\ ConnectionInv
    BY <2>1 DEF FeedInv, JournalInv
  <2>4. Len(log) \in Nat /\ cursor \in 0..Len(log) /\ (~open => hello = NoHello)
        /\ (hello # NoHello => hello.cursor \in 1..Len(log))
    BY <2>3 DEF ConnectionInv
  <2> QED
    BY <2>1, <2>2, <2>4
<1>1. CASE ~open' /\ hello' = NoHello
  BY <1>1 DEF StreamInv
<1>2. CASE Reconnect
  <2>1. PICK h : h = [cursor |-> Len(log), gap |-> cursor # 0 /\ ~HasCursor(cursor),
                      resumed |-> cursor # 0 /\ ~(cursor # 0 /\ ~HasCursor(cursor)), daemon |-> daemon]
    OBVIOUS
  <2>2. hello' = h /\ UNCHANGED <<log, cursor>>
    BY <1>2, <2>1 DEF Reconnect, Connect, followerVars
  <2>3. h.cursor = Len(log) /\ (h.resumed => HasCursor(cursor))
    BY <2>1
  <2>4. h # NoHello
    BY <1>0, <2>1 DEF NoHello, FeedInv, JournalInv, ConnectionInv
  <2>5. Current(Len(log))
    BY <1>0 DEF Current
  <2>6. HasCursor(cursor) => Current(cursor)
    <3>1. HasCursor(cursor) => \A p \in (cursor + 1)..Len(log) : p \in first..Len(log)
      BY <1>0 DEF HasCursor, FeedInv, JournalInv
    <3> QED
      BY <1>0, <3>1 DEF Current, FeedInv, JournalInv
  <2>7. PICK n : n = h.cursor
    OBVIOUS
  <2>8. PICK m : m = cursor
    OBVIOUS
  <2>9. Current(n)' /\ (h.resumed => Current(m)')
    BY <2>2, <2>3, <2>5, <2>6, <2>7, <2>8 DEF Current
  <2>10. hello'.cursor = n /\ cursor' = m /\ hello'.resumed = h.resumed
    BY <2>2, <2>7, <2>8
  <2> QED
    BY <2>2, <2>4, <2>9, <2>10, Zenon DEF StreamInv
<1>3. CASE Hello
  <2>1. /\ hello # NoHello /\ hello' = NoHello /\ log' = log
        /\ cursor' = IF cursor = 0 \/ StateLost THEN hello.cursor ELSE cursor
    BY <1>3 DEF Hello, ReadHello
  <2>2. ~(cursor = 0 \/ StateLost) => hello.resumed
    BY DEF StateLost
  <2>3. PICK n : n = IF cursor = 0 \/ StateLost THEN hello.cursor ELSE cursor
    OBVIOUS
  <2>4. Current(n)
    BY <2>1, <2>2, <2>3 DEF StreamInv
  <2>5. Current(n)'
    BY <2>1, <2>4 DEF Current
  <2>6. cursor' = n
    BY <2>1, <2>3
  <2> QED
    BY <2>1, <2>5, <2>6, Zenon DEF StreamInv
<1>4. ASSUME NEW p \in wire, Frame(p) PROVE StreamInv'
  <2>1. PICK c : Frames(p, c)
    BY <1>0, <1>4, FrameIs
  <2>2. /\ open /\ hello = NoHello /\ hello' = hello /\ log' = log /\ cursor' = p
        /\ p \in (cursor + 1)..Len(log)
    BY <2>1 DEF Frames
  <2>3. Current(cursor) /\ p \in Nat /\ cursor <= p
    BY <1>0, <2>2 DEF StreamInv
  <2>4. Current(p)
    BY <1>0, <2>3, CurrentLater
  <2>5. Current(p)'
    BY <2>2, <2>4 DEF Current
  <2> QED
    BY <2>2, <2>5, Zenon DEF StreamInv
<1>5. CASE UNCHANGED <<open, hello, cursor>> /\ ~RestartDaemon
  <2>1. PICK n : n = hello.cursor
    OBVIOUS
  <2>2. PICK m : m = cursor
    OBVIOUS
  <2>3. \A k \in Nat : k <= Len(log) /\ Current(k) => Current(k)'
    BY <1>5, CurrentStep
  <2>4. hello # NoHello => Current(n)' /\ (hello.resumed => Current(m)')
    BY <1>0, <2>1, <2>2, <2>3 DEF StreamInv
  <2>5. open /\ hello = NoHello => Current(m)'
    BY <1>0, <2>2, <2>3 DEF StreamInv
  <2>6. hello' = hello /\ open' = open /\ hello'.cursor = n /\ cursor' = m
    BY <1>5, <2>1, <2>2
  <2> QED
    BY <2>4, <2>5, <2>6, Zenon DEF StreamInv
<1> QED
  BY <1>1, <1>2, <1>3, <1>4, <1>5, StreamStep


(* The version a request reads is no older than any event of its agent.     *)
LEMMA LatestIs ==
    ASSUME TypeOK, NEW a \in Agents, NEW e \in Of(a, durable) PROVE e.id <= LatestVersion(a)
<1>1. durable \cup streamed \subseteq Events /\ MaxEvents \in Nat
  BY Shown DEF TypeOK
<1>2. PICK S : S = Ids(Of(a, durable \cup streamed))
  OBVIOUS
<1>3. S \in SUBSET (0..MaxEvents) /\ e.id \in S
  BY <1>1, <1>2 DEF Ids, Of, Events
<1>4. e.id <= Greatest(S)
  BY <1>1, <1>3, GreatestIs
<1> QED
  BY <1>2, <1>4 DEF LatestVersion

(* What a request has read comes in order.                                  *)
SnapshotStart ==
    /\ snapshot.cursor = 0 => snapshot.at[Root] = "config" /\ ~snapshot.drafted
    /\ snapshot.at[Root] # "done" => \A a \in Children : snapshot.at[a] = "config"

LEMMA SnapshotStartKept ==
    ASSUME Base, SnapshotStart, [Next]_vars PROVE SnapshotStart'
<1>0. TypeOK /\ Root \in Agents /\ Children \subseteq Agents /\ Root \notin Children
  BY Shown, AgentReplicaAssumption DEF Base
<1>1. CASE snapshot' = snapshot
  BY <1>1 DEF SnapshotStart
<1>2. ASSUME NEW s \in {NoSnapshot, [NoSnapshot EXCEPT !.dead = TRUE]}, snapshot' = s
      PROVE SnapshotStart'
  <2>1. (\A a \in Agents : s.at[a] = "config") /\ ~s.drafted
    BY <1>2 DEF NoSnapshot
  <2> QED
    BY <1>0, <1>2, <2>1 DEF SnapshotStart
<1>3. CASE Capture
  <2>1. Len(log) # 0
    BY DEF Base, FeedInv, JournalInv
  <2> QED
    BY <1>3, <2>1, CaptureIs DEF SnapshotStart
<1>4. CASE ReadDraft
  BY <1>0, <1>4, ReadDraftIs DEF SnapshotStart
<1>5. ASSUME NEW a \in Agents, ReadConfig(a) \/ ReadVersion(a) \/ ReadStatus(a)
      PROVE SnapshotStart'
  <2>1. PICK stage, next : ReadOf(a, stage, next) /\ stage # "done"
    BY <1>0, <1>5, ReadConfigIs, ReadVersionIs, ReadStatusIs
  <2>2. /\ snapshot'.cursor = snapshot.cursor /\ snapshot.cursor # 0
        /\ snapshot.at[a] = stage /\ (a # Root => snapshot.at[Root] = "done")
        /\ \A b \in Agents \ {a} : snapshot'.at[b] = snapshot.at[b]
    BY <2>1 DEF ReadOf
  <2>3. CASE a = Root
    BY <1>0, <2>1, <2>2, <2>3 DEF SnapshotStart
  <2>4. CASE a # Root
    BY <1>0, <2>2, <2>4 DEF SnapshotStart
  <2> QED
    BY <2>3, <2>4
<1> QED
  BY <1>1, <1>2, <1>3, <1>4, <1>5, SnapshotStep

(* The news of what a request has read comes after the cursor it took first.*)
SnapshotNews ==
    /\ Current(snapshot.cursor) /\ snapshot.at[Root] \in {"status", "done"} =>
           NewsAfter(snapshot.agents[Root].version, snapshot.cursor)
    /\ Current(snapshot.cursor) /\ snapshot.drafted =>
           DraftAfter(snapshot.draft, snapshot.cursor)

LEMMA SnapshotNewsKept ==
    ASSUME Base, PartsOK, SnapshotStart, SnapshotNews, [Next]_vars PROVE SnapshotNews'
<1> DEFINE News(s) == Current(s.cursor) /\ s.at[Root] \in {"status", "done"} =>
                          NewsAfter(s.agents[Root].version, s.cursor)
           Drafts(s) == Current(s.cursor) /\ s.drafted => DraftAfter(s.draft, s.cursor)
<1>0. /\ TypeOK /\ Root \in Agents /\ snapshot.cursor \in Nat /\ snapshot.cursor <= Len(log)
      /\ durable \subseteq Events /\ streamed \subseteq Events
  BY Shown DEF Base, TypeOK, SnapshotType
<1>1. ASSUME NEW s, snapshot' = s, s.cursor = snapshot.cursor, s.at[Root] = snapshot.at[Root],
             s.agents[Root] = snapshot.agents[Root]
      PROVE Current(s.cursor)' /\ s.at[Root] \in {"status", "done"} =>
                NewsAfter(s.agents[Root].version, s.cursor)'
  <2>1. PICK c, v : c = snapshot.cursor /\ v = snapshot.agents[Root].version
    OBVIOUS
  <2>2. Current(c)' => Current(c) /\ ~RestartDaemon
    BY <1>0, <2>1, CurrentStep
  <2>3. Current(c) /\ s.at[Root] \in {"status", "done"} => NewsAfter(v, c)
    BY <1>1, <2>1 DEF SnapshotNews
  <2>4. Current(c)' /\ s.at[Root] \in {"status", "done"} => NewsAfter(v, c)'
    BY <1>0, <2>1, <2>2, <2>3, NewsKept
  <2>5. s.cursor = c /\ s.agents[Root].version = v
    BY <1>1, <2>1
  <2> QED
    BY <2>4, <2>5, Zenon
<1>2. ASSUME NEW s, snapshot' = s, s.cursor = snapshot.cursor, s.drafted = snapshot.drafted,
             s.draft = snapshot.draft
      PROVE Current(s.cursor)' /\ s.drafted => DraftAfter(s.draft, s.cursor)'
  <2>1. PICK c, d : c = snapshot.cursor /\ d = snapshot.draft
    OBVIOUS
  <2>2. Current(c)' => Current(c) /\ ~RestartDaemon
    BY <1>0, <2>1, CurrentStep
  <2>3. Current(c) /\ s.drafted => DraftAfter(d, c)
    BY <1>2, <2>1 DEF SnapshotNews
  <2>4. Current(c)' /\ s.drafted => DraftAfter(d, c)'
    BY <1>0, <2>1, <2>2, <2>3, DraftKept
  <2>5. s.cursor = c /\ s.draft = d
    BY <1>2, <2>1
  <2> QED
    BY <2>4, <2>5, Zenon
<1>3. ASSUME NEW s, snapshot' = s,
             Current(s.cursor)' /\ s.at[Root] \in {"status", "done"} =>
                 NewsAfter(s.agents[Root].version, s.cursor)',
             Current(s.cursor)' /\ s.drafted => DraftAfter(s.draft, s.cursor)'
      PROVE SnapshotNews'
  BY <1>3, Zenon DEF SnapshotNews
<1>4. ASSUME NEW s, snapshot' = s, s.at[Root] = "config", ~s.drafted PROVE SnapshotNews'
  BY <1>4 DEF SnapshotNews
<1>5. CASE snapshot' = snapshot
  <2>1. PICK s : s = snapshot
    OBVIOUS
  <2> QED
    BY <1>1, <1>2, <1>3, <1>5, <2>1
<1>6. ASSUME NEW s \in {NoSnapshot, [NoSnapshot EXCEPT !.dead = TRUE]}, snapshot' = s
      PROVE SnapshotNews'
  <2>1. s.at[Root] = "config" /\ ~s.drafted
    BY <1>0 DEF NoSnapshot
  <2> QED
    BY <1>4, <1>6, <2>1
<1>7. CASE Capture
  <2>1. PICK s : s = snapshot'
    OBVIOUS
  <2>2. s.at[Root] = "config" /\ ~s.drafted
    BY <1>7, <2>1, CaptureIs DEF SnapshotStart
  <2> QED
    BY <1>4, <2>1, <2>2
<1>8. CASE ReadDraft
  <2>1. PICK s : s = snapshot'
    OBVIOUS
  <2>2. /\ s.cursor = snapshot.cursor /\ s.at = snapshot.at /\ s.agents = snapshot.agents
        /\ s.draft = Draft(Root) /\ durable' = durable
    BY <1>0, <1>8, <2>1, ReadDraftIs DEF serverVars
  <2>3. PICK d : d = Draft(Root)
    OBVIOUS
  <2>4. Draft(Root)' = d
    BY <2>2, <2>3, Zenon DEF Draft, WithKind, Of, Ids, Greatest
  <2>5. PICK c : c = s.cursor
    OBVIOUS
  <2>6. DraftAfter(d, c)'
    BY <2>4 DEF DraftAfter
  <2>7. DraftAfter(s.draft, s.cursor)'
    BY <2>2, <2>3, <2>5, <2>6, Zenon
  <2> QED
    BY <1>1, <1>3, <2>1, <2>2, <2>7
<1>9. ASSUME NEW a \in Agents, ReadConfig(a) \/ ReadVersion(a) \/ ReadStatus(a)
      PROVE SnapshotNews'
  <2>1. PICK s : s = snapshot'
    OBVIOUS
  <2>2. PICK stage, next : ReadOf(a, stage, next)
    BY <1>0, <1>9, ReadConfigIs, ReadVersionIs, ReadStatusIs
  <2>3. /\ s.cursor = snapshot.cursor /\ s.draft = snapshot.draft /\ s.drafted = snapshot.drafted
        /\ UNCHANGED <<feedVars, serverVars, client, faults>>
        /\ \A b \in Agents \ {a} : s.at[b] = snapshot.at[b] /\ s.agents[b] = snapshot.agents[b]
    BY <2>1, <2>2 DEF ReadOf
  <2>4. Current(s.cursor)' /\ s.drafted => DraftAfter(s.draft, s.cursor)'
    BY <1>2, <2>1, <2>3
  <2>5. CASE a # Root
    BY <1>0, <1>1, <1>3, <2>1, <2>3, <2>4, <2>5
  <2>6. CASE a = Root /\ ReadConfig(a)
    <3>1. s.at[Root] = "version"
      BY <1>0, <2>1, <2>6, ReadConfigIs DEF ReadOf
    <3> QED
      BY <1>3, <2>1, <2>4, <3>1
  <2>7. CASE a = Root /\ ReadVersion(a)
    <3>1. PICK v : v = LatestVersion(Root)
      OBVIOUS
    <3>2. s.agents[Root].version = v /\ durable' = durable
      BY <1>0, <2>1, <2>3, <2>7, <3>1, ReadVersionIs DEF serverVars
    <3>3. \A e \in Of(Root, durable) : e.id <= v
      BY <1>0, <3>1, LatestIs
    <3>4. \A e \in Of(Root, durable)' : e.id <= v
      BY <3>2, <3>3 DEF Of
    <3>5. PICK c : c = s.cursor
      OBVIOUS
    <3>6. NewsAfter(v, c)'
      BY <3>4 DEF NewsAfter
    <3> QED
      BY <1>3, <2>1, <2>4, <3>2, <3>5, <3>6, Zenon
  <2>8. CASE a = Root /\ ReadStatus(a)
    <3>1. s.agents[Root].version = snapshot.agents[Root].version /\ snapshot.at[Root] = "status"
      BY <1>0, <2>1, <2>8, ReadStatusIs DEF ReadOf
    <3>2. PICK c, v : c = snapshot.cursor /\ v = snapshot.agents[Root].version
      OBVIOUS
    <3>3. Current(c)' => Current(c) /\ ~RestartDaemon
      BY <1>0, <3>2, CurrentStep
    <3>4. Current(c) => NewsAfter(v, c)
      BY <3>1, <3>2 DEF SnapshotNews
    <3>5. Current(c)' => NewsAfter(v, c)'
      BY <1>0, <3>2, <3>3, <3>4, NewsKept
    <3>6. s.cursor = c /\ s.agents[Root].version = v
      BY <2>3, <3>1, <3>2
    <3> QED
      BY <1>3, <2>1, <2>4, <3>5, <3>6, Zenon
  <2> QED
    BY <1>9, <2>5, <2>6, <2>7, <2>8
<1> QED
  BY <1>5, <1>6, <1>7, <1>8, <1>9, SnapshotStep
-----------------------------------------------------------------------------
(* What the client remembers, and what its replica needs                    *)

(* What changes the client.                                                 *)
LEMMA ClientStep ==
    ASSUME [Next]_vars
    PROVE \/ UNCHANGED <<client, cursor>>
          \/ Hello \/ (\E p \in wire : Frame(p))
          \/ FinishSync \/ FailSync \/ StopAndStart \/ RetryTimer \/ Prune
<1>1. CASE Work \/ Elsewhere \/ Rest \/ Request \/ Reconnect \/ LoseConnection \/ RestartDaemon
           \/ (\E a \in Agents, kind \in Kinds : Record(a, kind))
           \/ (\E a \in Agents : "streamed" \in Kinds /\ Stream(a)) \/ UNCHANGED vars
  <2>1. UNCHANGED client \/ UNCHANGED reducerVars
    BY <1>1, Zenon DEF Work, Transact, Publish, Rollback, Convert, Elsewhere, Rest, Record,
       Stream, Request, Capture, ReadDraft, ReadConfig, ReadVersion, ReadStatus, Serve,
       Reconnect, LoseConnection, RestartDaemon, vars
  <2>2. cursor' = cursor \/ Hello \/ \E p \in wire : Frame(p)
    BY CursorStep
  <2> QED
    BY <2>1, <2>2 DEF reducerVars
<1> QED
  BY <1>1, Zenon DEF Next, Receive

(* A client without a cursor has everything to read, one at rest has read   *)
(* it.                                                                      *)
ClientStart ==
    /\ client.replica.draftCursor <= Len(log)
    /\ cursor = 0 => client.dirty /\ ~client.syncing
    /\ Rests => client.replica.known

LEMMA ClientStartKept ==
    ASSUME Base, ClientStart, [Next]_vars PROVE ClientStart'
<1>0. /\ TypeOK /\ FeedInv /\ ClientOK(client, cursor) /\ client.replica \in ReplicaType
      /\ cursor \in Nat /\ cursor <= Len(log) /\ Len(log) \in Nat /\ Len(log') >= Len(log)
      /\ Len(log') \in Nat
      /\ client.replica.draftCursor \in Nat /\ snapshot.cursor \in Nat /\ snapshot.cursor <= Len(log)
      /\ client.syncing \in BOOLEAN /\ client.dirty \in BOOLEAN
  <2>1. TypeOK /\ FeedInv /\ ReducerTypes
    BY TypesAre DEF Base
  <2>2. Len(log) \in Nat /\ cursor \in 0..Len(log)
    BY <2>1 DEF FeedInv, JournalInv, ConnectionInv
  <2>3. Len(log') \in Nat /\ Len(log') >= Len(log)
    BY <2>1, FeedStep, LogGrows
  <2>4. ClientOK(client, cursor) /\ snapshot \in SnapshotType /\ snapshot.cursor <= Len(log)
    BY <2>1, Zenon DEF ReducerTypes
  <2>5. client \in ClientType
    BY <2>1, Zenon DEF TypeOK
  <2>6. client.replica \in ReplicaType /\ client.syncing \in BOOLEAN /\ client.dirty \in BOOLEAN
    BY <2>5 DEF ClientType
  <2>7. client.replica.draftCursor \in Nat
    BY <2>6 DEF ReplicaType
  <2>8. snapshot.cursor \in Nat
    BY <2>4 DEF SnapshotType
  <2> QED
    BY <2>1, <2>2, <2>3, <2>4, <2>6, <2>7, <2>8
<1>1. client'.replica.draftCursor <= Len(log')
  <2>1. ASSUME NEW r \in ReplicaType, client'.replica = r, r.draftCursor <= Len(log)
        PROVE client'.replica.draftCursor <= Len(log')
    <3>1. r.draftCursor \in Nat
      BY <2>1 DEF ReplicaType
    <3> QED
      BY <1>0, <2>1, <3>1
  <2>2. CASE client'.replica = client.replica
    BY <1>0, <2>1, <2>2 DEF ClientStart
  <2>3. ASSUME NEW p \in wire, Frame(p) PROVE client'.replica.draftCursor <= Len(log')
    <3>1. PICK c : Frames(p, c)
      BY <1>0, <2>3, FrameIs
    <3>2. PICK result : Reduces(client.replica, log[p], p, result) /\ c.replica = result.replica
      BY <3>1 DEF Frames
    <3>3. client' = Drained(c) /\ ClientOK(c, p) /\ p \in (cursor + 1)..Len(log)
      BY <3>1 DEF Frames
    <3>4. client'.replica = result.replica
      BY <3>2, <3>3, DrainedIs DEF Follows
    <3>5. result.replica \in ReplicaType /\ result.replica.draftCursor \in {client.replica.draftCursor, p}
      BY <3>2 DEF Reduces
    <3>6. result.replica.draftCursor <= Len(log)
      BY <1>0, <3>3, <3>5 DEF ClientStart
    <3> QED
      BY <2>1, <3>4, <3>5, <3>6
  <2>4. CASE FinishSync
    <3>1. PICK c : Finishes(c)
      BY <1>0, <2>4, FinishIs DEF Base, RecentSeen
    <3>2. PICK r : r = Rebased.replica
      OBVIOUS
    <3>3. client'.replica = r
      BY <3>1, <3>2, DrainIs DEF Finishes, Follows
    <3>4. PICK start : start = Adopt(client.replica)
      OBVIOUS
    <3>5. Folded(start, Len(log), Rebased) /\ Adopts(client.replica, start)
      BY <1>0, <3>4, RebasedFolds, AdoptIs DEF Base, RecentSeen, TypeOK
    <3>6. start.draftCursor <= Len(log)
      BY <1>0, <3>5 DEF Adopts, ClientStart
    <3>7. r \in ReplicaType /\ (r.draftCursor = start.draftCursor \/ r.draftCursor \in client.recent)
      BY <3>2, <3>5 DEF Folded
    <3>8. r.draftCursor <= Len(log)
      BY <1>0, <3>6, <3>7 DEF ClientOK
    <3> QED
      BY <2>1, <3>3, <3>7, <3>8
  <2> QED
    BY <2>2, <2>3, <2>4, ReplicaStep
<1>2. CASE UNCHANGED <<client, cursor>>
  BY <1>1, <1>2 DEF ClientStart, Rests
<1>3. CASE Hello
  <2>1. Follows(client, client')
    BY <1>0, <1>3, HelloIs
  <2>2. cursor' # 0
    <3>1. hello # NoHello /\ cursor' = IF cursor = 0 \/ StateLost THEN hello.cursor ELSE cursor
      BY <1>3 DEF Hello, ReadHello
    <3>2. hello.cursor \in 1..Len(log)
      BY <1>0, <3>1 DEF FeedInv, ConnectionInv
    <3> QED
      BY <1>0, <3>1, <3>2
  <2>3. Rests' => client' = client
    BY <2>1 DEF Follows, Rests
  <2> QED
    BY <1>1, <2>2, <2>3 DEF ClientStart, Rests
<1>4. ASSUME NEW p \in wire, Frame(p) PROVE ClientStart'
  <2>1. PICK c : Frames(p, c)
    BY <1>0, <1>4, FrameIs
  <2>2. PICK result : /\ Reduces(client.replica, log[p], p, result) /\ c.replica = result.replica
                      /\ c.dirty = (client.dirty \/ result.dirty)
    BY <2>1 DEF Frames
  <2>3. client' = Drained(c) /\ ClientOK(c, p) /\ cursor' = p /\ p # 0 /\ c.syncing = client.syncing
    BY <1>0, <2>1 DEF Frames
  <2>4. Follows(c, client')
    BY <2>3, DrainedIs
  <2>5. Rests' => client' = c /\ Rests
    BY <2>2, <2>3, <2>4 DEF Follows, Rests
  <2>6. Rests' => client'.replica.known
    BY <2>2, <2>5 DEF ClientStart, Reduces
  <2> QED
    BY <1>1, <2>3, <2>6 DEF ClientStart
<1>5. ASSUME UNCHANGED cursor, client.syncing, ~Rests' \/ client'.replica.known PROVE ClientStart'
  BY <1>1, <1>5 DEF ClientStart
<1>6. CASE FinishSync
  <2>1. PICK c : Finishes(c)
    BY <1>0, <1>6, FinishIs DEF Base, RecentSeen
  <2>2. client'.replica = Rebased.replica /\ UNCHANGED cursor /\ client.syncing
    BY <2>1, DrainIs DEF Finishes, Follows, feedVars, followerVars
  <2>3. Rebased.replica.known
    BY <1>0, RebasedFolds DEF Folded, Base, RecentSeen
  <2> QED
    BY <1>5, <2>2, <2>3
<1>7. CASE FailSync
  BY <1>0, <1>5, <1>7, FailIs DEF Rests, feedVars, followerVars
<1>8. CASE Prune
  BY <1>0, <1>5, <1>8, PruneIs DEF Rests, feedVars, followerVars
<1>9. CASE StopAndStart
  BY <1>0, <1>1, <1>9, StopIs DEF Rests, ClientStart
<1>10. CASE RetryTimer
  <2>1. PICK c : /\ ClientOK(c, cursor) /\ c.dirty /\ ~c.syncing
                 /\ client' = Drain(c) /\ UNCHANGED <<feedVars, serverVars, faults>>
    BY <1>0, <1>10, TimerIs
  <2>2. Follows(c, client') /\ cursor' = cursor
    BY <2>1, DrainIs DEF feedVars, followerVars
  <2>3. ~Rests'
    BY <2>1, <2>2 DEF Follows, Rests
  <2>4. cursor = 0 => client' = c
    BY <1>0, <2>1 DEF Drain, Connected, FeedInv, ConnectionInv
  <2> QED
    BY <1>1, <2>1, <2>2, <2>3, <2>4 DEF ClientStart
<1> QED
  BY <1>2, <1>3, <1>4, <1>6, <1>7, <1>8, <1>9, <1>10, ClientStep


(* The recent events are all those shown since the request took its cursor, *)
(* and a draft newer than that is of one of them, or of the stream's.       *)
RecentCovers ==
    client.syncing /\ client.complete /\ Current(cursor) /\ snapshot.cursor # 0 =>
        /\ Current(snapshot.cursor)
        /\ \A p \in (snapshot.cursor + 1)..cursor : log[p] \in Visible => p \in client.recent
RecentDraft ==
    client.syncing /\ snapshot.cursor # 0 /\ client.replica.draftCursor > snapshot.cursor =>
        /\ client.replica.draftCursor <= cursor
        /\ IsDraft(log[client.replica.draftCursor])
        /\ client.replica.draft = log[client.replica.draftCursor].draft

(* When the request stays, so does the replica it started with, unless an   *)
(* event's frame arrives; when none runs, there is nothing to remember.     *)
LEMMA RequestStep ==
    ASSUME Base, ClientStart, [Next]_vars
    PROVE \/ ~client'.syncing \/ snapshot'.cursor = 0
          \/ Capture
          \/ \E p \in wire : \E c : Frames(p, c) /\ client.syncing /\ client' = c /\ snapshot' = snapshot
          \/ /\ UNCHANGED cursor /\ client.syncing /\ snapshot'.cursor = snapshot.cursor
             /\ client'.replica = client.replica /\ (client' = client \/ ~client'.complete)
          \/ /\ cursor <= cursor' /\ client.syncing /\ snapshot' = snapshot
             /\ client'.replica = client.replica /\ ~client'.complete
<1>0. /\ TypeOK /\ FeedInv /\ ClientOK(client, cursor) /\ client.syncing \in BOOLEAN
      /\ cursor \in Nat /\ NoSnapshot.cursor = 0 /\ [NoSnapshot EXCEPT !.dead = TRUE].cursor = 0
      /\ ~client.syncing => snapshot = NoSnapshot
  BY TypesAre DEF Base, ReducerTypes, TypeOK, ClientType, FeedInv, ConnectionInv, NoSnapshot
<1>1. CASE UNCHANGED <<client, cursor>>
  <2>1. CASE snapshot' = snapshot
    BY <1>0, <1>1, <2>1
  <2>2. CASE snapshot' = NoSnapshot \/ snapshot' = [NoSnapshot EXCEPT !.dead = TRUE]
    BY <1>0, <2>2
  <2>3. CASE ReadDraft
    BY <1>0, <1>1, <2>3, ReadDraftIs
  <2>4. ASSUME NEW a \in Agents, ReadConfig(a) \/ ReadVersion(a) \/ ReadStatus(a)
        PROVE client.syncing /\ snapshot'.cursor = snapshot.cursor
    <3>1. PICK stage, next : ReadOf(a, stage, next)
      BY <1>0, <2>4, ReadConfigIs, ReadVersionIs, ReadStatusIs
    <3> QED
      BY <3>1 DEF ReadOf
  <2> QED
    BY <1>1, <2>1, <2>2, <2>3, <2>4, SnapshotStep
<1>2. CASE Hello
  <2>1. /\ ClientOK(client', cursor) /\ Follows(client, client')
        /\ StateLost => (client.syncing => ~client'.complete)
    BY <1>0, <1>2, HelloIs
  <2>2. /\ Becomes(Suspect(Suspect(Drained(client), Replaced), StateLost)) /\ hello # NoHello
        /\ cursor' = IF cursor = 0 \/ StateLost THEN hello.cursor ELSE cursor
    BY <1>2, Zenon DEF Hello, ReadHello
  <2>3. Forgets(client')
    BY <1>0, <2>1, <2>2 DEF Becomes, Forgets, ClientOK, ClientType
  <2>4. CASE ~client.syncing
    BY <1>0, <2>3, <2>4 DEF Forgets
  <2>5. CASE client.syncing /\ client'.syncing
    <3>1. snapshot' = snapshot /\ client'.replica = client.replica
      BY <2>1, <2>3, <2>5 DEF Forgets, Follows
    <3>2. client' = client \/ ~client'.complete
      BY <2>1, <2>5 DEF Follows
    <3>3. cursor <= cursor'
      <4>1. cursor <= hello.cursor
        BY <1>0, <2>2 DEF FeedInv, ConnectionInv
      <4> QED
        BY <1>0, <2>2, <4>1
    <3>4. ~StateLost => cursor' = cursor
      BY <2>2, <2>5 DEF ClientStart
    <3> QED
      BY <2>1, <2>5, <3>1, <3>2, <3>3, <3>4
  <2> QED
    BY <2>4, <2>5
<1>3. ASSUME NEW p \in wire, Frame(p)
      PROVE \/ snapshot'.cursor = 0
            \/ \E c : Frames(p, c) /\ client.syncing /\ client' = c /\ snapshot' = snapshot
  <2>1. PICK c : Frames(p, c)
    BY <1>0, <1>3, FrameIs
  <2>2. c.syncing = client.syncing /\ client' = Drained(c) /\ Forgets(Drained(c))
    BY <2>1 DEF Frames
  <2>3. CASE client.syncing
    <3>1. client' = c /\ snapshot' = snapshot
      BY <2>2, <2>3 DEF Drained, Starts, Forgets
    <3> QED
      BY <2>1, <2>3, <3>1
  <2>4. CASE ~client.syncing
    BY <1>0, <2>2, <2>4 DEF Forgets
  <2> QED
    BY <2>3, <2>4
<1>4. CASE FinishSync
  BY <1>0, <1>4 DEF FinishSync
<1>5. CASE FailSync \/ StopAndStart \/ RetryTimer
  BY <1>0, <1>5, FailIs, StopIs, TimerIs
<1>6. CASE Prune
  BY <1>0, <1>6, PruneIs DEF feedVars, followerVars
<1> QED
  BY <1>1, <1>2, <1>3, <1>4, <1>5, <1>6, ClientStep

(* The bounds of the cursors, before and after a step.                      *)
LEMMA CursorsAre ==
    ASSUME Base, [Next]_vars
    PROVE /\ cursor \in Nat /\ cursor <= Len(log) /\ Len(log) \in Nat
          /\ Len(log') \in Nat /\ Len(log') >= Len(log) /\ \A p \in 1..Len(log) : log'[p] = log[p]
          /\ snapshot.cursor \in Nat /\ snapshot.cursor <= Len(log)
          /\ client.replica.draftCursor \in Nat
          /\ cursor' \in Nat /\ cursor' <= Len(log') /\ snapshot'.cursor \in Nat
          /\ snapshot'.cursor <= Len(log')
<1>1. Base'
  BY BaseKept
<1>2. Len(log) \in Nat /\ Len(log') \in Nat /\ Len(log') >= Len(log)
      /\ \A p \in 1..Len(log) : log'[p] = log[p]
  BY FeedStep, LogGrows DEF Base
<1>3. cursor \in 0..Len(log) /\ snapshot.cursor \in Nat /\ snapshot.cursor <= Len(log)
  BY DEF Base, TypeOK, SnapshotType, FeedInv, ConnectionInv
<1>4. cursor' \in 0..Len(log') /\ snapshot'.cursor \in Nat /\ snapshot'.cursor <= Len(log')
  BY <1>1 DEF Base, TypeOK, SnapshotType, FeedInv, ConnectionInv
<1>5. client.replica.draftCursor \in Nat
  BY DEF Base, TypeOK, ClientType, ReplicaType
<1> QED
  BY <1>2, <1>3, <1>4, <1>5

LEMMA RecentCoversKept ==
    ASSUME Base, ClientStart, StreamInv, RecentCovers, [Next]_vars PROVE RecentCovers'
<1>0. /\ cursor \in Nat /\ cursor <= Len(log) /\ Len(log) \in Nat /\ snapshot.cursor \in Nat
      /\ snapshot.cursor <= Len(log) /\ \A p \in 1..Len(log) : log'[p] = log[p]
      /\ snapshot'.cursor \in Nat /\ cursor' \in Nat
  BY CursorsAre
<1>1. CASE ~client'.syncing \/ snapshot'.cursor = 0 \/ ~client'.complete
  BY <1>1 DEF RecentCovers
<1>2. CASE Capture
  <2>1. PICK n : n = Len(log)
    OBVIOUS
  <2>2. snapshot'.cursor = n /\ cursor' = cursor /\ log' = log
    BY <1>2, <2>1, CaptureIs DEF feedVars, followerVars
  <2>3. Current(n)'
    BY <1>0, <2>1, <2>2 DEF Current
  <2>4. \A p \in (n + 1)..cursor' : FALSE
    BY <1>0, <2>1, <2>2
  <2> QED
    BY <2>2, <2>3, <2>4, Zenon DEF RecentCovers
<1>3. ASSUME NEW n \in Nat, n = snapshot.cursor, snapshot'.cursor = n,
             NEW m \in Nat, cursor' = m, Current(m)' => Current(cursor),
             client.syncing, client'.complete => client.complete,
             Current(n) /\ Current(m)' => Current(n)',
             client'.complete => \A p \in (n + 1)..m : log[p] \in Visible =>
                 p \in client'.recent \/ (p \in (n + 1)..cursor /\ p \notin client.recent),
             m <= Len(log)
      PROVE RecentCovers'
  <2>1. ASSUME client'.complete, Current(m)', n # 0
        PROVE /\ Current(n)'
              /\ \A p \in (n + 1)..m : log'[p] \in Visible => p \in client'.recent
    <3>1. /\ Current(n)
          /\ \A p \in (n + 1)..cursor : log[p] \in Visible => p \in client.recent
      BY <1>3, <2>1 DEF RecentCovers
    <3>2. \A p \in (n + 1)..m : log'[p] = log[p]
      BY <1>0, <1>3
    <3> QED
      BY <1>3, <2>1, <3>1, <3>2
  <2> QED
    BY <1>3, <2>1, Zenon DEF RecentCovers
<1>4. ASSUME NEW p \in wire, NEW c, Frames(p, c), client.syncing, client' = c, snapshot' = snapshot
      PROVE RecentCovers'
  <2>1. /\ open /\ hello = NoHello /\ cursor' = p /\ log' = log
        /\ p \in (cursor + 1)..Len(log) /\ c.complete = client.complete
        /\ c.recent = client.recent \cup {p}
        /\ \A q \in (cursor + 1)..(p - 1) : log[q] \notin Visible
    BY <1>4 DEF Frames
  <2>2. Current(cursor)
    BY <2>1 DEF StreamInv
  <2>3. PICK n : n = snapshot.cursor
    OBVIOUS
  <2>4. Current(n) => Current(n)'
    BY <2>1 DEF Current
  <2>5. ASSUME NEW q \in (n + 1)..p, log[q] \in Visible
        PROVE q \in client'.recent \/ (q \in (n + 1)..cursor /\ q \notin client.recent)
    <3>1. q \in (n + 1)..cursor \/ q \in (cursor + 1)..(p - 1) \/ q = p
      BY <1>0, <2>1, <2>3, <2>5
    <3> QED
      BY <1>4, <2>1, <2>5, <3>1
  <2>6. p \in Nat /\ p <= Len(log)
    BY <1>0, <2>1
  <2> QED
    BY <1>0, <1>3, <1>4, <2>1, <2>2, <2>3, <2>4, <2>5, <2>6
<1>5. CASE /\ UNCHANGED cursor /\ client.syncing /\ snapshot'.cursor = snapshot.cursor
           /\ client' = client
  <2>1. PICK n, m : n = snapshot.cursor /\ m = cursor
    OBVIOUS
  <2>2. Current(m)' => Current(cursor) /\ ~RestartDaemon
    BY <1>0, <2>1, CurrentStep
  <2>3. Current(n) /\ ~RestartDaemon => Current(n)'
    BY <1>0, <2>1, CurrentStep
  <2>4. \A p \in (n + 1)..m : p \in client'.recent \/ (p \in (n + 1)..cursor /\ p \notin client.recent)
    BY <1>5, <2>1
  <2> QED
    BY <1>0, <1>3, <1>5, <2>1, <2>2, <2>3, <2>4
<1> QED
  BY <1>1, <1>2, <1>4, <1>5, RequestStep

LEMMA RecentDraftKept ==
    ASSUME Base, ClientStart, RecentDraft, [Next]_vars PROVE RecentDraft'
<1>0. /\ cursor \in Nat /\ cursor <= Len(log) /\ Len(log) \in Nat /\ snapshot.cursor \in Nat
      /\ client.replica.draftCursor \in Nat /\ \A p \in 1..Len(log) : log'[p] = log[p]
      /\ cursor' \in Nat
  BY CursorsAre
<1>1. CASE ~client'.syncing \/ snapshot'.cursor = 0
  BY <1>1 DEF RecentDraft
<1>2. CASE Capture
  <2>1. ~(client'.replica.draftCursor > snapshot'.cursor)
    BY <1>0, <1>2, CaptureIs DEF ClientStart
  <2> QED
    BY <2>1 DEF RecentDraft
<1>3. ASSUME client.syncing, snapshot'.cursor = snapshot.cursor, cursor <= cursor',
             client'.replica = client.replica
      PROVE RecentDraft'
  <2>1. PICK d : d = client.replica.draftCursor
    OBVIOUS
  <2>2. ASSUME snapshot.cursor # 0, d > snapshot.cursor
        PROVE d <= cursor' /\ IsDraft(log'[d]) /\ client.replica.draft = log'[d].draft
    <3>1. d <= cursor /\ IsDraft(log[d]) /\ client.replica.draft = log[d].draft
      BY <1>3, <2>1, <2>2 DEF RecentDraft
    <3>2. d \in 1..Len(log) /\ d <= cursor'
      BY <1>0, <1>3, <2>1, <2>2, <3>1
    <3> QED
      BY <1>0, <3>1, <3>2
  <2> QED
    BY <1>3, <2>1, <2>2 DEF RecentDraft, IsDraft
<1>4. ASSUME NEW p \in wire, NEW c, Frames(p, c), client.syncing, client' = c, snapshot' = snapshot
      PROVE RecentDraft'
  <2>1. cursor' = p /\ log' = log /\ p \in (cursor + 1)..Len(log)
    BY <1>4 DEF Frames
  <2>2. PICK result : Reduces(client.replica, log[p], p, result) /\ c.replica = result.replica
    BY <1>4 DEF Frames
  <2>3. PICK d : d = c.replica.draftCursor
    OBVIOUS
  <2>4. ASSUME snapshot.cursor # 0, d > snapshot.cursor
        PROVE d <= p /\ IsDraft(log[d]) /\ c.replica.draft = log[d].draft
    <3>1. CASE d = client.replica.draftCursor /\ c.replica.draft = client.replica.draft
      <4>1. d <= cursor /\ IsDraft(log[d]) /\ client.replica.draft = log[d].draft
        BY <1>4, <2>4, <3>1 DEF RecentDraft
      <4> QED
        BY <1>0, <2>1, <3>1, <4>1
    <3>2. CASE d = p /\ IsDraft(log[p]) /\ c.replica.draft = log[p].draft
      BY <1>0, <2>1, <3>2
    <3> QED
      BY <2>2, <2>3, <3>1, <3>2 DEF Reduces
  <2> QED
    BY <1>4, <2>1, <2>3, <2>4 DEF RecentDraft, IsDraft
<1>5. cursor <= cursor
  BY <1>0
<1> QED
  BY <1>1, <1>2, <1>3, <1>4, <1>5, RequestStep


(* How a replica comes to need no request: it did not before, it was shown  *)
(* an event, or a request was answered.                                     *)
LEMMA RestStep ==
    ASSUME Base, ClientStart, [Next]_vars, Rests'
    PROVE \/ Rests /\ UNCHANGED <<client, cursor>>
          \/ \E p \in wire : \E c : Frames(p, c) /\ client' = c /\ Rests
          \/ \E c : Finishes(c) /\ client' = c
<1>0. TypeOK /\ FeedInv /\ ClientOK(client, cursor)
  BY TypesAre DEF Base, ReducerTypes
<1>1. CASE UNCHANGED <<client, cursor>>
  BY <1>1 DEF Rests
<1>2. CASE Hello
  <2>1. /\ Follows(client, client') /\ (StateLost => client'.dirty \/ client'.syncing)
        /\ cursor' = IF cursor = 0 \/ StateLost THEN hello.cursor ELSE cursor
    BY <1>0, <1>2, HelloIs DEF Hello, ReadHello
  <2>2. client' = client /\ ~StateLost
    BY <2>1 DEF Follows, Rests
  <2>3. cursor # 0
    BY <2>2 DEF ClientStart, Rests
  <2> QED
    BY <2>1, <2>2, <2>3 DEF Rests
<1>3. ASSUME NEW p \in wire, Frame(p) PROVE \E c : Frames(p, c) /\ client' = c /\ Rests
  <2>1. PICK c : Frames(p, c)
    BY <1>0, <1>3, FrameIs
  <2>2. /\ Follows(c, client') /\ c.syncing = client.syncing
        /\ \E result : c.dirty = (client.dirty \/ result.dirty)
    BY <2>1, DrainedIs DEF Frames
  <2>3. client' = c
    BY <2>2 DEF Follows, Rests
  <2> QED
    BY <2>1, <2>2, <2>3 DEF Rests
<1>4. CASE FinishSync
  <2>1. PICK c : Finishes(c)
    BY <1>0, <1>4, FinishIs DEF Base, RecentSeen
  <2>2. Follows(c, client')
    BY <2>1, DrainIs DEF Finishes
  <2>3. client' = c
    BY <2>2 DEF Follows, Rests
  <2> QED
    BY <2>1, <2>3
<1>5. CASE FailSync \/ StopAndStart \/ Prune
  BY <1>0, <1>5, FailIs, StopIs, PruneIs DEF Rests
<1>6. CASE RetryTimer
  <2>1. PICK c : ClientOK(c, cursor) /\ c.dirty /\ ~c.syncing /\ client' = Drain(c)
    BY <1>0, <1>6, TimerIs
  <2>2. Follows(c, client')
    BY <2>1, DrainIs
  <2> QED
    BY <2>1, <2>2 DEF Follows, Rests
<1> QED
  BY <1>1, <1>2, <1>3, <1>4, <1>5, <1>6, ClientStep

(* What an event does to a replica at rest.                                 *)
LEMMA RestFrame ==
    ASSUME Base, JournalDrafts, StreamInv, ClientStart, RestInv, [Next]_vars,
           NEW p \in wire, NEW c, Frames(p, c), client' = c, Rests, Rests'
    PROVE /\ NewsAfter(c.replica.agent.version, p)
          /\ DraftAfter(c.replica.draft, Later(p, c.replica.draftCursor))
<1>0. /\ cursor \in Nat /\ cursor <= Len(log) /\ Len(log) \in Nat
      /\ client.replica.draftCursor \in Nat /\ client.replica \in ReplicaType
      /\ durable \subseteq Events
  BY CursorsAre DEF Base, TypeOK, ClientType
<1>1. /\ open /\ hello = NoHello /\ p \in (cursor + 1)..Len(log) /\ log[p] \in Visible
      /\ \A q \in (cursor + 1)..(p - 1) : log[q] \notin Visible
  BY DEF Frames
<1>2. PICK result : /\ Reduces(client.replica, log[p], p, result) /\ c.replica = result.replica
                    /\ c.dirty = (client.dirty \/ result.dirty)
  BY DEF Frames
<1>3. PICK old, new : old = client.replica /\ new = c.replica
  OBVIOUS
<1>4. ~result.dirty /\ old.known /\ result.dirty \in BOOLEAN
  BY <1>2, <1>3 DEF Rests, ClientStart, Reduces
<1>5. Current(cursor) /\ Current(p) /\ p \in Nat /\ p \in 1..Len(log)
  <2>1. Current(cursor)
    BY <1>1 DEF StreamInv
  <2> QED
    BY <1>0, <1>1, <2>1, CurrentLater
<1>6. NewsAfter(old.agent.version, cursor) /\ DraftAfter(old.draft, Later(cursor, old.draftCursor))
  BY <1>3, <1>5 DEF RestInv
<1>7. \A q \in (cursor + 1)..Len(log) : log[q] \in Visible => q \in (p + 1)..Len(log) \/ q = p
  BY <1>0, <1>1
<1>8. NewsAfter(new.agent.version, p)
  <2>1. /\ old.agent.version \in Nat /\ new.agent.version \in Nat
        /\ new.agent.version >= old.agent.version
        /\ IsUpdate(log[p]) /\ log[p].agent = Root => new.agent.version >= log[p].version
    <3>1. new \in ReplicaType
      BY <1>2, <1>3 DEF Reduces
    <3> QED
      BY <1>0, <1>2, <1>3, <1>4, <3>1, Shown DEF Reduces, ReplicaType, Resource, Versions
  <2>2. ASSUME NEW e \in Of(Root, durable)
        PROVE \/ e.id <= new.agent.version \/ UpdateDue(e)
              \/ \E q \in (p + 1)..Len(log) :
                     IsUpdate(log[q]) /\ log[q].agent = Root /\ log[q].version = e.id
    <3>1. e.id \in Nat
      BY <1>0 DEF Of, Events
    <3>2. CASE e.id <= old.agent.version
      BY <2>1, <3>1, <3>2
    <3>3. ASSUME NEW q \in (cursor + 1)..Len(log), IsUpdate(log[q]), log[q].agent = Root,
                 log[q].version = e.id
          PROVE e.id <= new.agent.version \/ q \in (p + 1)..Len(log)
      <4>1. q \in (p + 1)..Len(log) \/ q = p
        BY <1>7, <3>3 DEF IsUpdate
      <4> QED
        BY <2>1, <3>1, <3>3, <4>1
    <3> QED
      BY <1>6, <3>2, <3>3 DEF NewsAfter
  <2> QED
    BY <2>2 DEF NewsAfter
<1>9. DraftAfter(new.draft, Later(p, new.draftCursor))
  <2>1. CASE new.draftCursor = p /\ IsDraft(log[p]) /\ new.draft = log[p].draft
    <3>1. DraftAfter(new.draft, p)
      BY <1>5, <2>1 DEF JournalDrafts
    <3>2. Later(p, p) = p
      BY DEF Later
    <3> QED
      BY <2>1, <3>1, <3>2
  <2>2. CASE /\ new.draftCursor = old.draftCursor /\ new.draft = old.draft
             /\ IsDraft(log[p]) => p <= old.draftCursor
    <3>1. ASSUME NEW q \in (Later(cursor, old.draftCursor) + 1)..Len(log), IsDraft(log[q])
          PROVE q \in (Later(p, old.draftCursor) + 1)..Len(log)
      <4>1. q \in (cursor + 1)..Len(log) /\ q > old.draftCursor
        BY <1>0, <1>3, <3>1 DEF Later
      <4>2. q \in (p + 1)..Len(log) \/ q = p
        BY <1>7, <3>1, <4>1 DEF IsDraft
      <4>3. q \in (p + 1)..Len(log)
        BY <1>0, <1>3, <1>5, <2>2, <3>1, <4>1, <4>2
      <4> QED
        BY <1>0, <1>3, <1>5, <4>1, <4>3 DEF Later
    <3> QED
      BY <1>6, <2>2, <3>1 DEF DraftAfter
  <2> QED
    BY <1>2, <1>3, <1>4, <2>1, <2>2 DEF Reduces
<1> QED
  BY <1>3, <1>8, <1>9

(* What the answer of a request makes of the replica, when nothing was      *)
(* forgotten meanwhile.                                                     *)
LEMMA RestFinish ==
    ASSUME Base, JournalDrafts, SnapshotStart, SnapshotNews, RecentCovers, RecentDraft,
           [Next]_vars, NEW c, Finishes(c), ~c.dirty, Current(cursor)
    PROVE /\ NewsAfter(c.replica.agent.version, cursor)
          /\ DraftAfter(c.replica.draft, Later(cursor, c.replica.draftCursor))
<1>0. /\ cursor \in Nat /\ cursor <= Len(log) /\ Len(log) \in Nat
      /\ client.replica.draftCursor \in Nat /\ client.replica \in ReplicaType
      /\ snapshot \in SnapshotType /\ snapshot.cursor \in Nat /\ snapshot.cursor <= Len(log)
      /\ durable \subseteq Events /\ client.recent \subseteq 1..cursor
      /\ Root \in Agents
  BY CursorsAre, Shown DEF Base, TypeOK, ClientType
<1>1. PICK old, start, new : /\ old = client.replica /\ start = Adopt(client.replica)
                             /\ new = Rebased.replica
  OBVIOUS
<1>2. PICK x : x = Rebased
  OBVIOUS
<1>3. Folded(start, Len(log), x) /\ Adopts(old, start)
  BY <1>0, <1>1, <1>2, RebasedFolds, AdoptIs DEF Base, RecentSeen
<1>4. /\ ~x.dirty /\ x.dirty \in BOOLEAN /\ client.complete /\ client.syncing /\ c.replica = new
      /\ new = x.replica
  <2>1. client.complete \in BOOLEAN /\ client.dirty \in BOOLEAN /\ x.dirty \in BOOLEAN
    BY <1>3 DEF Base, TypeOK, ClientType, Folded
  <2> QED
    BY <1>1, <1>2, <2>1 DEF Finishes
<1>5. PICK sc : sc = snapshot.cursor
  OBVIOUS
<1>6. sc # 0 /\ snapshot.at[Root] = "done" /\ snapshot.drafted
  BY <1>0, <1>5 DEF Finishes, Answered, SnapshotStart
<1>7. /\ Current(sc)
      /\ \A p \in (sc + 1)..cursor : log[p] \in Visible => p \in client.recent
  BY <1>4, <1>5, <1>6 DEF RecentCovers
<1>8. NewsAfter(snapshot.agents[Root].version, sc) /\ DraftAfter(snapshot.draft, sc)
  BY <1>5, <1>6, <1>7 DEF SnapshotNews
<1>9. \A p \in (sc + 1)..Len(log) :
          log[p] \in Visible => p \in (cursor + 1)..Len(log) \/ (p \in client.recent /\ p <= Len(log))
  BY <1>0, <1>5, <1>7
<1>10. NewsAfter(new.agent.version, cursor)
  <2>1. /\ snapshot.agents[Root].version \in Nat /\ new.agent.version \in Nat
        /\ new.agent.version >= snapshot.agents[Root].version
    <3>1. start \in ReplicaType /\ new \in ReplicaType
      BY <1>3, <1>4 DEF Folded, Adopts
    <3>2. /\ start.agent.version \in Nat /\ new.agent.version \in Nat
          /\ snapshot.agents[Root].version \in Nat
      <4>1. start.agent \in Resource /\ new.agent \in Resource
        BY <3>1 DEF ReplicaType
      <4>2. snapshot.agents[Root] \in Resource
        BY <1>0 DEF SnapshotType
      <4> QED
        BY <4>1, <4>2, Shown DEF Resource, Versions
    <3>3. /\ new.agent.version >= start.agent.version
          /\ start.agent.version >= snapshot.agents[Root].version
      BY <1>3, <1>4 DEF Folded, Adopts
    <3> QED
      BY <3>2, <3>3
  <2>2. ASSUME NEW e \in Of(Root, durable)
        PROVE \/ e.id <= new.agent.version \/ UpdateDue(e)
              \/ \E q \in (cursor + 1)..Len(log) :
                     IsUpdate(log[q]) /\ log[q].agent = Root /\ log[q].version = e.id
    <3>1. e.id \in Nat
      BY <1>0 DEF Of, Events
    <3>2. CASE e.id <= snapshot.agents[Root].version
      BY <2>1, <3>1, <3>2
    <3>3. ASSUME NEW q \in (sc + 1)..Len(log), IsUpdate(log[q]), log[q].agent = Root,
                 log[q].version = e.id
          PROVE e.id <= new.agent.version \/ q \in (cursor + 1)..Len(log)
      <4>1. q \in (cursor + 1)..Len(log) \/ (q \in client.recent /\ q <= Len(log))
        BY <1>9, <3>3 DEF IsUpdate
      <4>2. q \in client.recent /\ q <= Len(log) => new.agent.version >= e.id
        BY <1>3, <1>4, <3>3 DEF Folded
      <4> QED
        BY <2>1, <3>1, <4>1, <4>2
    <3> QED
      BY <1>8, <3>2, <3>3 DEF NewsAfter
  <2> QED
    BY <2>2 DEF NewsAfter
<1>11. PICK d : d = new.draftCursor
  OBVIOUS
<1>12. d \in Nat /\ d >= start.draftCursor /\ start.draftCursor \in Nat
  BY <1>3, <1>4, <1>11 DEF Folded, Adopts, ReplicaType
<1>13. start.draftCursor >= sc
  <2>1. IF old.draftCursor > sc THEN start.draftCursor = old.draftCursor ELSE start.draftCursor = sc
    BY <1>3, <1>5 DEF Adopts
  <2> QED
    BY <1>0, <1>1, <1>5, <2>1
<1>14. Current(d)
  BY <1>0, <1>5, <1>7, <1>12, <1>13, CurrentLater
<1>15. ASSUME d \in 1..Len(log), IsDraft(log[d]), new.draft = log[d].draft PROVE DraftAfter(new.draft, d)
  BY <1>14, <1>15 DEF JournalDrafts
<1>16. DraftAfter(new.draft, d)
  <2>1. CASE d = start.draftCursor /\ new.draft = start.draft
    <3>1. CASE old.draftCursor > sc
      <4>1. /\ start.draft = old.draft /\ start.draftCursor = old.draftCursor
            /\ old.draftCursor <= cursor /\ IsDraft(log[old.draftCursor])
            /\ old.draft = log[old.draftCursor].draft
        BY <1>1, <1>3, <1>4, <1>5, <1>6, <3>1 DEF Adopts, RecentDraft
      <4>2. d \in 1..Len(log)
        BY <1>0, <1>1, <1>5, <2>1, <3>1, <4>1
      <4> QED
        BY <1>15, <2>1, <4>1, <4>2
    <3>2. CASE ~(old.draftCursor > sc)
      <4>1. start.draft = snapshot.draft /\ start.draftCursor = sc
        BY <1>3, <1>5, <3>2 DEF Adopts
      <4> QED
        BY <1>8, <2>1, <4>1
    <3> QED
      BY <3>1, <3>2
  <2>2. CASE d \in client.recent /\ IsDraft(log[d]) /\ new.draft = log[d].draft
    <3>1. d \in 1..Len(log)
      BY <1>0, <2>2
    <3> QED
      BY <1>15, <2>2, <3>1
  <2> QED
    BY <1>3, <1>4, <1>11, <2>1, <2>2 DEF Folded
<1>17. ASSUME NEW q \in (d + 1)..Len(log), IsDraft(log[q])
       PROVE q \in (Later(cursor, d) + 1)..Len(log)
  <2>1. q \in (sc + 1)..Len(log) /\ ~(q <= d)
    BY <1>0, <1>5, <1>12, <1>13, <1>17
  <2>2. q \in (cursor + 1)..Len(log) \/ (q \in client.recent /\ q <= Len(log))
    BY <1>9, <1>17, <2>1 DEF IsDraft
  <2>3. ~(q \in client.recent /\ q <= Len(log))
    BY <1>3, <1>4, <1>11, <1>17, <2>1 DEF Folded
  <2> QED
    BY <1>0, <1>12, <1>17, <2>2, <2>3 DEF Later
<1>18. DraftAfter(new.draft, Later(cursor, d))
  BY <1>16, <1>17 DEF DraftAfter
<1> QED
  BY <1>4, <1>10, <1>11, <1>18

(* A replica that needs no request stays one that is made current by what   *)
(* comes after it.                                                          *)
LEMMA RestInvKept ==
    ASSUME Base, PartsOK, JournalDrafts, StreamInv, SnapshotStart, SnapshotNews, RecentCovers,
           RecentDraft, ClientStart, RestInv, [Next]_vars
    PROVE RestInv'
<1>0. /\ cursor \in Nat /\ cursor <= Len(log) /\ client.replica.draftCursor \in Nat
      /\ client.replica.draftCursor <= Len(log)
  BY CursorsAre DEF ClientStart
<1>1. ASSUME NEW r, client'.replica = r, NEW n, cursor' = n,
             Rests' /\ Current(n)' =>
                 NewsAfter(r.agent.version, n)' /\ DraftAfter(r.draft, Later(n, r.draftCursor))'
      PROVE RestInv'
  BY <1>1, Zenon DEF RestInv, Rests, Later
<1>2. ASSUME NEW r, client'.replica = r, NEW n, cursor' = n, UNCHANGED <<log, chain, durable>>,
             Rests' /\ Current(n) =>
                 NewsAfter(r.agent.version, n) /\ DraftAfter(r.draft, Later(n, r.draftCursor))
      PROVE RestInv'
  <2>1. PICK v, d, m : v = r.agent.version /\ d = r.draft /\ m = Later(n, r.draftCursor)
    OBVIOUS
  <2>2. Current(n)' <=> Current(n)
    BY <1>2 DEF Current
  <2>3. NewsAfter(v, n) => NewsAfter(v, n)'
    BY <1>2 DEF NewsAfter, UpdateDue, Of
  <2>4. DraftAfter(d, m) => DraftAfter(d, m)'
    <3>1. Draft(Root)' = Draft(Root)
      BY <1>2, Zenon DEF Draft, WithKind, Of, Ids, Greatest
    <3> QED
      BY <1>2, <3>1 DEF DraftAfter, InChain
  <2>5. Rests' /\ Current(n)' => NewsAfter(v, n)' /\ DraftAfter(d, m)'
    BY <1>2, <2>1, <2>2, <2>3, <2>4
  <2> QED
    BY <1>1, <1>2, <2>1, <2>5, Zenon
<1>3. CASE ~Rests'
  BY <1>3 DEF RestInv
<1>4. CASE Rests /\ UNCHANGED <<client, cursor>>
  <2>1. PICK r, n : r = client.replica /\ n = cursor
    OBVIOUS
  <2>2. PICK v, d, m : v = r.agent.version /\ d = r.draft /\ m = Later(n, r.draftCursor)
    OBVIOUS
  <2>3. m \in Nat /\ m <= Len(log)
    BY <1>0, <2>1, <2>2 DEF Later
  <2>4. Current(n)' => Current(n) /\ ~RestartDaemon
    BY <1>0, <2>1, CurrentStep
  <2>5. Current(n) => NewsAfter(v, n) /\ DraftAfter(d, m)
    BY <1>4, <2>1, <2>2 DEF RestInv
  <2>6. Current(n)' => NewsAfter(v, n)' /\ DraftAfter(d, m)'
    BY <1>0, <2>1, <2>3, <2>4, <2>5, NewsKept, DraftKept
  <2>7. client'.replica = r /\ cursor' = n
    BY <1>4, <2>1
  <2> QED
    BY <1>1, <2>2, <2>6, <2>7, Zenon
<1>5. ASSUME Rests', NEW p \in wire, NEW c, Frames(p, c), client' = c, Rests PROVE RestInv'
  <2>1. /\ NewsAfter(c.replica.agent.version, p)
        /\ DraftAfter(c.replica.draft, Later(p, c.replica.draftCursor))
    BY <1>5, RestFrame
  <2>2. cursor' = p /\ UNCHANGED <<log, chain, durable>>
    BY <1>5 DEF Frames, serverVars
  <2> QED
    BY <1>2, <1>5, <2>1, <2>2
<1>6. ASSUME Rests', NEW c, Finishes(c), client' = c PROVE RestInv'
  <2>1. Current(cursor) =>
            /\ NewsAfter(c.replica.agent.version, cursor)
            /\ DraftAfter(c.replica.draft, Later(cursor, c.replica.draftCursor))
    BY <1>6, RestFinish DEF Rests
  <2>2. cursor' = cursor /\ UNCHANGED <<log, chain, durable>>
    BY <1>6 DEF Finishes, serverVars, feedVars, followerVars
  <2> QED
    BY <1>2, <1>6, <2>1, <2>2
<1> QED
  BY <1>3, <1>4, <1>5, <1>6, RestStep
-----------------------------------------------------------------------------
(* All of it together                                                       *)
AllInv ==
    /\ TrailInv /\ JournalDrafts /\ StreamInv /\ SnapshotStart /\ SnapshotNews
    /\ RecentCovers /\ RecentDraft /\ ClientStart /\ RestInv

LEMMA AllInitially == Init => AllInv
<1> SUFFICES ASSUME Init PROVE AllInv
  OBVIOUS
<1>1. TrailInv
  BY TrailInitially
<1>2. /\ log = <<Origin>> /\ open = FALSE /\ hello = NoHello /\ cursor = 0
      /\ snapshot = NoSnapshot /\ ~client.syncing /\ client.dirty /\ client.replica = NoReplica
  BY DEF Init, FeedInit
<1>3. Len(log) = 1 /\ log[1] = Origin
  BY <1>2
<1>4. \A p \in 1..Len(log) : ~IsDraft(log[p])
  BY <1>3, EventFeedAssumption DEF IsDraft
<1>5. JournalDrafts
  BY <1>4 DEF JournalDrafts
<1>6. StreamInv
  BY <1>2 DEF StreamInv
<1>7. SnapshotStart /\ SnapshotNews
  BY <1>2, Shown DEF SnapshotStart, SnapshotNews, NoSnapshot
<1>8. RecentCovers /\ RecentDraft
  BY <1>2 DEF RecentCovers, RecentDraft
<1>9. ClientStart /\ RestInv
  BY <1>2, <1>3 DEF ClientStart, RestInv, Rests, NoReplica
<1> QED
  BY <1>1, <1>5, <1>6, <1>7, <1>8, <1>9 DEF AllInv

LEMMA AllKept ==
    ASSUME "retrying" \notin Kinds PROVE AllInv /\ [Next]_vars => AllInv'
<1> SUFFICES ASSUME AllInv, [Next]_vars PROVE AllInv'
  OBVIOUS
<1>0. /\ TrailInv /\ JournalDrafts /\ StreamInv /\ SnapshotStart /\ SnapshotNews
      /\ RecentCovers /\ RecentDraft /\ ClientStart /\ RestInv
  BY DEF AllInv
<1>1. Base /\ PartsOK
  BY <1>0 DEF TrailInv, JournalUpdates, PartsOK
<1>2. TrailInv'
  BY <1>0, TrailKept
<1>3. JournalDrafts'
  BY <1>0, <1>1, JournalDraftsKept
<1>4. StreamInv'
  BY <1>0, <1>1, StreamInvKept
<1>5. SnapshotStart'
  BY <1>0, <1>1, SnapshotStartKept
<1>6. SnapshotNews'
  BY <1>0, <1>1, SnapshotNewsKept
<1>7. RecentCovers'
  BY <1>0, <1>1, RecentCoversKept
<1>8. RecentDraft'
  BY <1>0, <1>1, RecentDraftKept
<1>9. ClientStart'
  BY <1>0, <1>1, ClientStartKept
<1>10. RestInv'
  BY <1>0, <1>1, RestInvKept
<1> QED
  BY <1>2, <1>3, <1>4, <1>5, <1>6, <1>7, <1>8, <1>9, <1>10 DEF AllInv

(* The parts are those that a run checks.                                   *)
LEMMA AllIsReplicaInv == AllInv => ReplicaInv
<1> SUFFICES ASSUME AllInv PROVE ReplicaInv
  OBVIOUS
<1>0. /\ TypeOK /\ FeedInv /\ RecentSeen /\ EventsInv /\ JournalUpdates /\ JournalDrafts /\ StreamInv
      /\ SnapshotTrails /\ ReplicaTrails /\ SnapshotStart /\ SnapshotNews
      /\ RecentCovers /\ RecentDraft /\ ClientStart /\ RestInv
  BY DEF AllInv, TrailInv, Base
<1>1. SnapshotInv
  BY <1>0 DEF SnapshotInv, SnapshotTrails, SnapshotStart, SnapshotNews
<1>2. RecentInv
  BY <1>0 DEF RecentInv, RecentSeen, RecentCovers, RecentDraft
<1>3. ClientInv
  BY <1>0 DEF ClientInv, ClientStart, ReplicaTrails
<1>4. client.replica.known => \A a \in Agents : Trails(a, Known(a))
  BY <1>0 DEF ReplicaTrails, TrailsAll, Shows, Known
<1>5. TrailsItsState
  BY <1>4 DEF TrailsItsState, Trails, Since
<1> QED
  BY <1>0, <1>1, <1>2, <1>3, <1>4, <1>5 DEF ReplicaInv

(* The whole of what holds the feed, the snapshots and the replica together.*)
THEOREM ReplicaSafe ==
    ASSUME "retrying" \notin Kinds PROVE Spec => []ReplicaInv
<1>1. AllInv /\ [Next]_vars => AllInv'
  BY AllKept
<1> QED
  BY <1>1, AllInitially, AllIsReplicaInv, PTL DEF Spec

(* When nothing is in flight and the reducer rests, it shows the status and *)
(* the draft that the agent has: no update was lost between the snapshot,   *)
(* the events that came while it was read and those that came after, across *)
(* gaps, broken connections, failed requests and new daemons.               *)
THEOREM QuietIsCurrent ==
    ASSUME "retrying" \notin Kinds PROVE Spec => []QuietMeansCurrent
<1>1. AllInv => QuietMeansCurrent
  <2> SUFFICES ASSUME AllInv, Quiet
               PROVE /\ client.replica.known
                     /\ client.replica.agent.status = Status(Root)
                     /\ client.replica.draft = Draft(Root)
    BY DEF QuietMeansCurrent
  <2>0. /\ Base /\ TypeOK /\ FeedInv /\ EventsInv /\ StreamInv /\ ClientStart /\ RestInv /\ ReplicaTrails
        /\ Root \in Agents
    BY Shown DEF AllInv, TrailInv, Base
  <2>1. Rests /\ open /\ hello = NoHello /\ wire = {} /\ Free /\ chain[Root] = <<>>
    BY <2>0 DEF Quiet, Connected, Rests
  <2>2. client.replica.known /\ Current(cursor)
    BY <2>0, <2>1 DEF ClientStart, StreamInv
  <2>3. \A p \in (cursor + 1)..Len(log) : log[p] \notin Visible
    BY <2>0, <2>1 DEF FeedInv, ConnectionInv, VisibleAfter
  <2>4. DOMAIN chain[Root] = {}
    BY <2>1
  <2>5. PICK r : r = client.replica
    OBVIOUS
  <2>6. NewsAfter(r.agent.version, cursor) /\ DraftAfter(r.draft, Later(cursor, r.draftCursor))
    BY <2>1, <2>2, <2>0, <2>5 DEF RestInv
  <2>7. \A e \in Of(Root, durable) : e.id <= r.agent.version
    BY <2>3, <2>4, <2>6 DEF NewsAfter, UpdateDue, IsUpdate
  <2>8. r.draft = Draft(Root)
    <3>1. \A p \in (Later(cursor, r.draftCursor) + 1)..Len(log) : p \in (cursor + 1)..Len(log)
      <4>1. cursor \in Nat /\ r.draftCursor \in Nat /\ Len(log) \in Nat
        BY <2>0, <2>5 DEF TypeOK, ClientType, ReplicaType, FeedInv, JournalInv, ConnectionInv
      <4> QED
        BY <4>1 DEF Later
    <3> QED
      BY <2>3, <2>4, <2>6, <3>1 DEF DraftAfter, InChain, IsDraft
  <2>9. r.agent.status = Status(Root)
    <3>1. Trails(Root, r.agent)
      BY <2>0, <2>2, <2>5 DEF ReplicaTrails, TrailsAll, Shows
    <3>2. PICK v \in (r.agent.version)..minted : r.agent.status = StatusAt(Root, v)
      BY <3>1 DEF Trails, Since
    <3>3. minted \in Nat /\ r.agent.version \in Nat /\ v \in Nat /\ v >= r.agent.version /\ v <= minted
      <4>1. minted \in Versions /\ r.agent \in Resource
        BY <2>0, <2>5 DEF TypeOK, ClientType, ReplicaType
      <4> QED
        BY <3>2, <4>1, Shown DEF Versions, Resource
    <3>4. \A e \in Turns(Root) : e.id \in Nat /\ e.id <= v /\ e.id <= minted
      <4>1. \A e \in Turns(Root) : e \in Of(Root, durable) /\ e.id \in Nat
        BY <2>0 DEF Turns, WithKind, Of, TypeOK, Events
      <4> QED
        BY <2>7, <3>3, <4>1
    <3>5. StatusAt(Root, v) = Status(Root)
      <4>1. {e \in Turns(Root) : e.id <= v} = {e \in Turns(Root) : e.id <= minted}
        BY <3>4
      <4> QED
        BY <4>1, Zenon DEF StatusAt, Status, Turns
    <3> QED
      BY <3>2, <3>5
  <2> QED
    BY <2>2, <2>5, <2>8, <2>9
<1>2. AllInv /\ [Next]_vars => AllInv'
  BY AllKept
<1> QED
  BY <1>1, <1>2, AllInitially, PTL DEF Spec
=============================================================================
