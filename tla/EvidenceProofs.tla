---------------------------- MODULE EvidenceProofs ----------------------------
(***************************************************************************)
(* Theorems about evidence and advice, for every number of sessions, keys, *)
(* snapshots and jobs, and every set of events, however long the run.      *)
(***************************************************************************)
EXTENDS Evidence, FiniteSetTheorems, SequenceTheorems, TLAPS

(* A generation belongs to one session and is given out once. *)
Issued ==
    /\ \A i \in Slots : scope[i].gen <= opened
    /\ \A e \in told : e.gen <= opened
    /\ \A i, j \in Slots : i # j /\ scope[i].gen = scope[j].gen => scope[i].gen = 0

(* So does a row, and every row that is named is there. *)
RowsApart ==
    /\ \A i \in Slots : scope[i].last <= Len(row)
    /\ \A e \in told : e.row <= Len(row)
    /\ \A i, j \in Slots : i # j /\ scope[i].last = scope[j].last => scope[i].last = 0

(* What has been told of a session's last tool call, the session remembers. *)
SeenIsKept ==
    \A i \in Slots : \A e \in told : e.kind = "tool" /\ e.row = scope[i].last => scope[i].seen

(* A session's advice is the answer to its latest evidence, that evidence  *)
(* was told of the row it names, and no newer event has come after it.     *)
Rests(i) ==
    /\ scope[i].evidence # 0 =>
          \E e \in told : e.gen = scope[i].gen /\ e.revision = scope[i].revision
                          /\ e.row = scope[i].evidence
    /\ scope[i].advice # 0 =>
          /\ scope[i].advice = scope[i].revision
          /\ fate[[gen |-> scope[i].gen, revision |-> scope[i].revision]].is = "valid"
    /\ \A e \in told : e.gen = scope[i].gen => e.revision <= scope[i].revision
    /\ \A e \in superseded :
          e.gen = scope[i].gen /\ e.revision = scope[i].revision => scope[i].evidence = 0

AdviceRests == \A i \in Open : Rests(i)

Inv ==
    /\ TypeOK /\ Issued /\ RowsApart /\ SeenIsKept /\ AdviceRests
    /\ ToolResultOnce /\ RegistryIsOwned

-----------------------------------------------------------------------------
(* What the operators on rows and sessions return. *)
LEMMA RowsAreASequence ==
    ASSUME NEW n \in Nat, NEW f \in [1..n -> Row]
    PROVE  f \in Seq(Row) /\ Len(f) = n
OBVIOUS

LEMMA DoubtedIs ==
    ASSUME row \in Seq(Row)
    PROVE  Doubted \in Seq(Row) /\ Len(Doubted) = Len(row)
<1>1. Len(row) \in Nat /\ DOMAIN row = 1..Len(row) /\ row \in [1..Len(row) -> Row]
  BY LenProperties
<1>2. ASSUME NEW r \in DOMAIN row
      PROVE  [row[r] EXCEPT !.doubt = ~row[r].expired] \in Row
  BY <1>1 DEF Row
<1>3. Doubted \in [1..Len(row) -> Row]
  BY <1>1, <1>2 DEF Doubted
<1> QED  BY <1>1, <1>3, RowsAreASequence

LEMMA SourcedIs ==
    ASSUME row \in Seq(Row), NEW k
    PROVE  Sourced(k) \in Seq(Row) /\ Len(Sourced(k)) = Len(row)
<1>1. Len(row) \in Nat /\ DOMAIN row = 1..Len(row) /\ row \in [1..Len(row) -> Row]
  BY LenProperties
<1>2. ASSUME NEW r \in DOMAIN row
      PROVE  [row[r] EXCEPT !.source = TRUE] \in Row
  BY <1>1 DEF Row
<1>3. Sourced(k) \in [1..Len(row) -> Row]
  BY <1>1, <1>2 DEF Sourced
<1> QED  BY <1>1, <1>3, RowsAreASequence

LEMMA FreeIs ==
    ASSUME NEW g \in Generations \cup {0}
    PROVE  LET f == [Free EXCEPT !.gen = g] IN
           /\ f \in Scope /\ f.gen = g /\ f.inflight = FALSE
           /\ f.last = 0 /\ f.evidence = 0 /\ f.revision = 0 /\ f.advice = 0
           /\ f.seen = FALSE
<1>1. 0 \in 0..MaxRows /\ 0 \in 0..MaxRevision
  BY EvidenceAssumption
<1> QED  BY <1>1 DEF Free, Scope

(* An answer lands only where the session still has its evidence, and is   *)
(* the answer to that evidence.                                            *)
Landed(j, advice) ==
    /\ advice = scope[j].revision /\ scope[j].evidence # 0
    /\ fate[[gen |-> scope[j].gen, revision |-> scope[j].revision]].is = "valid"

LEMMA AdvisedIs ==
    ASSUME TypeOK, NEW taken \in SUBSET Done, NEW j \in Slots
    PROVE  LET a == Advised(taken)[j] IN
           /\ a \in Scope
           /\ a.gen = scope[j].gen /\ a.inflight = scope[j].inflight /\ a.last = scope[j].last
           /\ a.evidence = scope[j].evidence /\ a.revision = scope[j].revision
           /\ a.boundary = scope[j].boundary /\ a.seen = scope[j].seen
           /\ a.advised = scope[j].advised
           /\ a.advice = scope[j].advice \/ Landed(j, a.advice)
<1>1. scope[j] \in Scope
  BY DEF TypeOK
<1>2. CASE j \in Landing(taken)
  <2>1. Advised(taken)[j] = [scope[j] EXCEPT !.advice = scope[j].revision]
    BY <1>2 DEF Advised
  <2>2. PICK q \in taken : /\ fate[q].is = "valid" /\ q.gen = scope[j].gen
                           /\ q.revision = scope[j].revision /\ scope[j].evidence # 0
    BY <1>2 DEF Landing, Lands, Exact
  <2>3. q \in Job
    BY DEF Done, Desk!Outstanding
  <2>4. q = [gen |-> scope[j].gen, revision |-> scope[j].revision]
    BY <2>2, <2>3 DEF Job
  <2>5. scope[j].revision \in 0..MaxRevision
    BY <1>1 DEF Scope
  <2> QED  BY <1>1, <2>1, <2>2, <2>4, <2>5 DEF Scope, Landed
<1>3. CASE j \notin Landing(taken)
  BY <1>1, <1>3 DEF Advised, Scope
<1> QED  BY <1>2, <1>3

(* The registry and the desk. *)
LEMMA SnapshotsAre ==
    /\ NoSnapshot \in Snapshot /\ NoSnapshot.is = "none"
    /\ Tombstone \in Snapshot /\ Tombstone.is = "closed"
    /\ \A v \in 1..MaxRevision :
          LET s == [NoSnapshot EXCEPT !.is = "live", !.revision = v]
          IN  s \in Snapshot /\ s.is = "live" /\ s.revision = v
<1>1. 0 \in 0..MaxRevision /\ \A v \in 1..MaxRevision : v \in 0..MaxRevision
  BY EvidenceAssumption
<1> QED  BY <1>1 DEF NoSnapshot, Tombstone, Snapshot

Entries(reg) == {g \in Generations : reg[g].is # "none"}

LEMMA EntriesAreCounted ==
    ASSUME NEW reg
    PROVE  IsFiniteSet(Entries(reg)) /\ Cardinality(Entries(reg)) \in Nat
<1>1. IsFiniteSet(Generations)
  BY FS_Interval, EvidenceAssumption DEF Generations
<1> QED  BY <1>1, FS_Subset, FS_CardinalityType DEF Entries

RegistryTyped(reg) ==
    reg \in [Generations -> Snapshot] /\ Cardinality(Entries(reg)) <= Snapshots

(* A registry of no more entries is as full at most. *)
LEMMA FewerEntries ==
    ASSUME NEW old, RegistryTyped(old), NEW reg \in [Generations -> Snapshot],
           Entries(reg) \subseteq Entries(old)
    PROVE  RegistryTyped(reg)
<1>1. Cardinality(Entries(reg)) <= Cardinality(Entries(old))
  BY EntriesAreCounted, FS_Subset
<1> QED  BY <1>1, EntriesAreCounted, EvidenceAssumption DEF RegistryTyped

(* One more fits when the others leave it room. *)
LEMMA OneMoreEntry ==
    ASSUME NEW reg \in [Generations -> Snapshot], NEW g \in Generations, NEW s \in Snapshot,
           Cardinality({h \in Generations \ {g} : reg[h].is # "none"}) < Snapshots
    PROVE  RegistryTyped([reg EXCEPT ![g] = s])
<1> DEFINE others == {h \in Generations \ {g} : reg[h].is # "none"}
           new == [reg EXCEPT ![g] = s]
<1>1. new \in [Generations -> Snapshot] /\ Entries(new) \subseteq others \cup {g}
  BY DEF Entries
<1>2. IsFiniteSet(others) /\ g \notin others
  <2>1. others \subseteq Entries(reg)
    BY DEF Entries
  <2> QED  BY <2>1, EntriesAreCounted, FS_Subset
<1>3. /\ IsFiniteSet(others \cup {g}) /\ Cardinality(others \cup {g}) = Cardinality(others) + 1
      /\ Cardinality(others) \in Nat
  BY <1>2, FS_AddElement, FS_CardinalityType
<1>4. Cardinality(Entries(new)) <= Cardinality(others \cup {g})
  BY <1>1, <1>3, FS_Subset
<1>5. Cardinality(Entries(new)) <= Snapshots
  BY <1>3, <1>4, EntriesAreCounted, EvidenceAssumption
<1> QED  BY <1>1, <1>5 DEF RegistryTyped

LEMMA ClosedIs ==
    ASSUME NEW g \in Generations, RegistryTyped(registry)
    PROVE  /\ RegistryTyped(Closed(g))
           /\ \A h \in Generations : Closed(g)[h].is = "live" => h # g /\ registry[h].is = "live"
<1> DEFINE room == Cardinality({h \in Generations \ {g} : registry[h].is # "none"}) < Snapshots
<1>1. CASE room
  <2>1. Closed(g) = [registry EXCEPT ![g] = Tombstone]
    BY <1>1 DEF Closed
  <2>2. RegistryTyped([registry EXCEPT ![g] = Tombstone])
    BY <1>1, SnapshotsAre, OneMoreEntry DEF RegistryTyped
  <2> QED  BY <2>1, <2>2, SnapshotsAre DEF RegistryTyped
<1>2. CASE ~room
  <2>1. Closed(g) = [registry EXCEPT ![g] = NoSnapshot]
    BY <1>2 DEF Closed
  <2>2. Closed(g) \in [Generations -> Snapshot] /\ Entries(Closed(g)) \subseteq Entries(registry)
    BY <2>1, SnapshotsAre DEF RegistryTyped, Entries
  <2>3. RegistryTyped(Closed(g))
    BY <2>2, FewerEntries
  <2> QED  BY <2>1, <2>3, SnapshotsAre DEF RegistryTyped
<1> QED  BY <1>1, <1>2

LEMMA PutIs ==
    ASSUME NEW g \in Generations, NEW v \in 1..MaxRevision, RegistryTyped(registry), Puts(g, v)
    PROVE  /\ RegistryTyped(Put(g, v))
           /\ \A h \in Generations : Put(g, v)[h].is = "live" => h = g \/ registry[h].is = "live"
<1> DEFINE s == [NoSnapshot EXCEPT !.is = "live", !.revision = v]
<1>1. s \in Snapshot /\ s.is = "live"
  BY SnapshotsAre
<1>2. Put(g, v) = [registry EXCEPT ![g] = s]
  BY DEF Put
<1> HIDE DEF s
<1>3. CASE registry[g].is = "live"
  <2>1. Put(g, v) \in [Generations -> Snapshot] /\ Entries(Put(g, v)) \subseteq Entries(registry)
    BY <1>1, <1>2, <1>3 DEF RegistryTyped, Entries
  <2>2. RegistryTyped(Put(g, v))
    BY <2>1, FewerEntries
  <2> QED  BY <1>2, <2>2 DEF RegistryTyped
<1>4. CASE registry[g].is = "none" /\ Cardinality(Entries(registry)) < Snapshots
  <2>1. {h \in Generations \ {g} : registry[h].is # "none"} = Entries(registry)
    BY <1>4 DEF Entries
  <2>2. RegistryTyped([registry EXCEPT ![g] = s])
    BY <1>1, <1>4, <2>1, OneMoreEntry DEF RegistryTyped
  <2> QED  BY <1>2, <2>2 DEF RegistryTyped
<1> QED  BY <1>3, <1>4 DEF Puts, Entries

LEMMA InterpretedIs ==
    ASSUME NEW taken, RegistryTyped(registry)
    PROVE  /\ RegistryTyped(Interpreted(taken))
           /\ \A g \in Generations : Interpreted(taken)[g].is = registry[g].is
<1>1. ASSUME NEW g \in Generations
      PROVE  /\ Interpreted(taken)[g] \in Snapshot
             /\ Interpreted(taken)[g].is = registry[g].is
  BY DEF Interpreted, RegistryTyped, Snapshot
<1>2. Interpreted(taken) \in [Generations -> Snapshot]
  BY <1>1 DEF Interpreted
<1>3. Entries(Interpreted(taken)) \subseteq Entries(registry)
  BY <1>1 DEF Entries
<1> QED  BY <1>1, <1>2, <1>3, FewerEntries

Waiting(f) == {j \in Job : f[j].is # "new" /\ ~f[j].polled}

DeskTyped(f) ==
    f \in [Job -> [is: Desk!Fates, polled: BOOLEAN]] /\ Cardinality(Waiting(f)) <= Workers

LEMMA JobsAreFinite == IsFiniteSet(Job)
<1> DEFINE pairs == Generations \X (1..MaxRevision)
           job == [p \in pairs |-> [gen |-> p[1], revision |-> p[2]]]
<1>1. IsFiniteSet(pairs)
  <2>1. IsFiniteSet(Generations) /\ IsFiniteSet(1..MaxRevision)
    BY FS_Interval, EvidenceAssumption DEF Generations
  <2> QED  BY <2>1, FS_Product
<1>2. job \in [pairs -> Job]
  BY DEF Job
<1>3. ASSUME NEW j \in Job
      PROVE  \E p \in pairs : job[p] = j
  <2>1. <<j.gen, j.revision>> \in pairs /\ j = [gen |-> j.gen, revision |-> j.revision]
    BY DEF Job
  <2>2. job[<<j.gen, j.revision>>] = j
    BY <2>1
  <2> QED  BY <2>1, <2>2
<1>4. job \in Surjection(pairs, Job)
  BY <1>2, <1>3 DEF Surjection
<1> QED  BY <1>1, <1>4, FS_Surjection

LEMMA WaitingIsCounted ==
    ASSUME NEW f
    PROVE  IsFiniteSet(Waiting(f)) /\ Cardinality(Waiting(f)) \in Nat
BY JobsAreFinite, FS_Subset, FS_CardinalityType DEF Waiting

LEMMA FewerWait ==
    ASSUME NEW old, DeskTyped(old), NEW f \in [Job -> [is: Desk!Fates, polled: BOOLEAN]],
           Waiting(f) \subseteq Waiting(old)
    PROVE  DeskTyped(f)
<1>1. Cardinality(Waiting(f)) <= Cardinality(Waiting(old))
  BY WaitingIsCounted, FS_Subset
<1> QED  BY <1>1, WaitingIsCounted, EvidenceAssumption DEF DeskTyped

(* What a handler may do to the interpreter's jobs. *)
FateMoves ==
    \/ UNCHANGED fate
    \/ \E taken \in SUBSET Done : fate' = Polled(taken)
    \/ \E j \in Job : Submit(j)
    \/ \E j \in Job : fate[j].is = "open" /\ \E a \in {"valid", "timeout"} : Desk!Set(j, a)

(* The desk is never over its capacity, and a valid answer stays one. *)
LEMMA DeskKeeps ==
    ASSUME DeskTyped(fate), FateMoves
    PROVE  /\ DeskTyped(fate')
           /\ \A j \in Job : fate[j].is = "valid" => fate'[j].is = "valid"
<1>1. CASE UNCHANGED fate
  BY <1>1 DEF DeskTyped, Waiting
<1>2. ASSUME NEW taken \in SUBSET Done, fate' = Polled(taken)
      PROVE  DeskTyped(fate') /\ \A j \in Job : fate'[j].is = fate[j].is
  <2>1. /\ fate' \in [Job -> [is: Desk!Fates, polled: BOOLEAN]]
        /\ \A j \in Job : fate'[j].is = fate[j].is /\ (fate[j].polled => fate'[j].polled)
    BY <1>2 DEF Polled, DeskTyped
  <2>2. Waiting(fate') \subseteq Waiting(fate)
    BY <2>1 DEF Waiting
  <2>3. DeskTyped(fate')
    BY <2>1, <2>2, FewerWait
  <2> QED  BY <2>1, <2>3
<1>3. ASSUME NEW j \in Job, Submit(j)
      PROVE  DeskTyped(fate') /\ \A q \in Job : fate[q].is = "valid" => fate'[q].is = "valid"
  <2>1. fate[j].is = "new" /\ fate' = [fate EXCEPT ![j].is = "open"]
    BY <1>3 DEF Submit, Desk!Set
  <2>2. /\ fate' \in [Job -> [is: Desk!Fates, polled: BOOLEAN]]
        /\ Waiting(fate') \subseteq Waiting(fate) \cup {j}
    BY <2>1 DEF DeskTyped, Waiting, Desk!Fates
  <2>3. Cardinality(Waiting(fate)) < Workers
    BY <1>3 DEF Submit, Waiting, Desk!Outstanding
  <2>4. j \notin Waiting(fate)
    BY <2>1 DEF Waiting
  <2>5. /\ IsFiniteSet(Waiting(fate) \cup {j})
        /\ Cardinality(Waiting(fate) \cup {j}) = Cardinality(Waiting(fate)) + 1
    BY <2>4, WaitingIsCounted, FS_AddElement
  <2>6. Cardinality(Waiting(fate')) <= Cardinality(Waiting(fate) \cup {j})
    BY <2>2, <2>5, FS_Subset
  <2>7. Cardinality(Waiting(fate')) <= Workers
    BY <2>3, <2>5, <2>6, WaitingIsCounted, EvidenceAssumption
  <2> QED  BY <2>1, <2>2, <2>7 DEF DeskTyped
<1>4. ASSUME NEW j \in Job, fate[j].is = "open",
             NEW a \in {"valid", "timeout"}, Desk!Set(j, a)
      PROVE  DeskTyped(fate') /\ \A q \in Job : fate[q].is = "valid" => fate'[q].is = "valid"
  <2>1. fate' = [fate EXCEPT ![j].is = a]
    BY <1>4 DEF Desk!Set
  <2>2. /\ fate' \in [Job -> [is: Desk!Fates, polled: BOOLEAN]]
        /\ Waiting(fate') \subseteq Waiting(fate)
    BY <1>4, <2>1 DEF DeskTyped, Waiting, Desk!Fates, Desk!Answers
  <2>3. DeskTyped(fate')
    BY <2>2, FewerWait
  <2> QED  BY <1>4, <2>1, <2>3 DEF DeskTyped
<1> QED  BY <1>1, <1>2, <1>3, <1>4 DEF FateMoves

-----------------------------------------------------------------------------
(* A step as the sessions see it: of four kinds. *)
Telling == [gen: Generations, revision: 1..MaxRevision, kind: {"response", "tool"}, row: 1..MaxRows]

SessionsTyped ==
    /\ scope \in [Slots -> Scope] /\ opened \in 0..MaxGenerations
    /\ row \in Seq(Row) /\ Len(row) <= MaxRows
    /\ loss \in {"none", "window", "all"}
    /\ told \subseteq Telling /\ superseded \subseteq told

LEMMA TypeParts ==
    TypeOK <=> SessionsTyped /\ RegistryTyped(registry) /\ DeskTyped(fate)
BY DEF TypeOK, SessionsTyped, RegistryTyped, DeskTyped, Entries, Waiting, Telling,
       Desk!JobDeskTypeOK, Desk!Outstanding

(* Exchanges begin and end, answers land, time passes. *)
Exchanges ==
    /\ UNCHANGED <<opened, told, superseded>>
    /\ Len(row') >= Len(row)
    /\ \A j \in Slots :
          /\ scope'[j].gen = scope[j].gen /\ scope'[j].revision = scope[j].revision
          /\ scope'[j].evidence = scope[j].evidence
          /\ scope'[j].advice = scope[j].advice \/ Landed(j, scope'[j].advice)
          /\ \/ scope'[j].last = scope[j].last /\ scope'[j].seen = scope[j].seen
             \/ scope'[j].last = 0
             \/ scope'[j].last = Len(row) + 1 /\ Len(row') = Len(row) + 1
    /\ \A j, k \in Slots :
          scope'[j].last # scope[j].last /\ scope'[k].last # scope[k].last => j = k
    /\ \A g \in Generations : registry'[g].is = "live" => registry[g].is = "live"

(* A session ends, or a new one begins in its place. *)
Replaced(i, g) ==
    /\ scope' = [scope EXCEPT ![i] = [Free EXCEPT !.gen = g]]
    /\ \/ g = 0 /\ opened' = opened
       \/ g = opened + 1 /\ opened' = opened + 1
    /\ UNCHANGED row
    /\ told' = {e \in told : e.gen # scope[i].gen}
    /\ superseded' = {e \in superseded : e.gen # scope[i].gen}
    /\ \A h \in Generations :
          registry'[h].is = "live" => h # scope[i].gen /\ registry[h].is = "live"

(* An event is heard and not kept. *)
Heard(i, ev) ==
    /\ Receives(i, ev)
    /\ scope' = [scope EXCEPT ![i] = Hears(i, ev)]
    /\ UNCHANGED <<opened, told, registry>> /\ Len(row') = Len(row)

(* An event is kept, and with it that it was told of the session's last    *)
(* attempt.                                                                *)
Kept(i, ev) ==
    /\ Receives(i, ev) /\ Fits(i, ev)
    /\ scope' = [scope EXCEPT ![i] = Told(scope[i], ev)]
    /\ told' = told \cup {[gen |-> ev.gen, revision |-> ev.revision,
                           kind |-> ev.kind, row |-> scope[i].last]}
    /\ opened' = opened /\ Len(row') = Len(row)
    /\ \A h \in Generations : registry'[h].is = "live" => h = ev.gen \/ registry[h].is = "live"

LEMMA SessionIs ==
    ASSUME SessionsTyped
    PROVE  /\ Len(row) \in Nat /\ DOMAIN row = 1..Len(row)
           /\ \A i \in Slots : scope[i] \in Scope
           /\ \A i \in Slots : /\ scope[i].gen \in Nat /\ scope[i].last \in Nat
                               /\ scope[i].revision \in Nat
           /\ \A e \in told : /\ e \in Telling /\ e.gen \in Nat \ {0} /\ e.row \in Nat \ {0}
                              /\ e.revision \in Nat \ {0}
           /\ \A e \in superseded : e \in told
           /\ opened \in Nat
BY LenProperties, EvidenceAssumption DEF SessionsTyped, Scope, Telling, Generations

LEMMA EventIs ==
    ASSUME NEW ev \in Events
    PROVE  ev \in Event /\ ev.gen \in Generations /\ ev.revision \in 1..MaxRevision
           /\ ev.sequence \in 1..MaxRevision /\ ev.kind \in {"response", "tool"}
           /\ ev.gen # 0
BY EvidenceAssumption DEF Event, Generations

Typed == SessionsTyped /\ RegistryTyped(registry)

LEMMA PollDoes ==
    ASSUME TypeOK, NEW taken \in SUBSET Done, Poll(taken)
    PROVE  Typed' /\ Exchanges
<1>1. SessionsTyped /\ RegistryTyped(registry)
  BY TypeParts
<1>2. scope' = Advised(taken) /\ registry' = Interpreted(taken)
      /\ UNCHANGED <<opened, row, loss, told, superseded>>
  BY DEF Poll
<1>3. scope' \in [Slots -> Scope]
  BY <1>2, AdvisedIs DEF Advised
<1>4. Typed'
  BY <1>1, <1>2, <1>3, InterpretedIs DEF Typed, SessionsTyped
<1>5. \A j \in Slots :
          /\ scope'[j].gen = scope[j].gen /\ scope'[j].revision = scope[j].revision
          /\ scope'[j].evidence = scope[j].evidence
          /\ scope'[j].advice = scope[j].advice \/ Landed(j, scope'[j].advice)
          /\ scope'[j].last = scope[j].last /\ scope'[j].seen = scope[j].seen
  BY <1>2, AdvisedIs
<1>6. /\ \A g \in Generations : registry'[g].is = registry[g].is
      /\ Len(row) \in Nat /\ Len(row') = Len(row)
  BY <1>1, <1>2, InterpretedIs, SessionIs
<1> QED  BY <1>2, <1>4, <1>5, <1>6 DEF Exchanges

(* prepare changes the one session's exchange. *)
LEMMA PrepareDoes ==
    ASSUME TypeOK, NEW i \in Slots, NEW k, NEW taken, NEW advice \in 0..MaxRevision,
           NEW last \in 0..MaxRows, Prepare(i, k, taken, advice, last)
    PROVE  /\ scope' \in [Slots -> Scope] /\ RegistryTyped(registry') /\ taken \in SUBSET Done
           /\ UNCHANGED <<opened, told, superseded>>
           /\ \A g \in Generations : registry'[g].is = registry[g].is
           /\ \A j \in Slots :
                 /\ scope'[j].gen = scope[j].gen /\ scope'[j].revision = scope[j].revision
                 /\ scope'[j].evidence = scope[j].evidence
                 /\ scope'[j].advice = scope[j].advice \/ Landed(j, scope'[j].advice)
                 /\ j # i => scope'[j].last = scope[j].last /\ scope'[j].seen = scope[j].seen
           /\ \A j \in Slots : j # i => scope'[j].inflight = scope[j].inflight
           /\ scope'[i].last = last /\ scope'[i].advised = advice
<1>1. taken \in SUBSET Done /\ RegistryTyped(registry)
  BY TypeParts DEF Prepare
<1> DEFINE A == Advised(taken)
           p == [A[i] EXCEPT !.inflight = TRUE, !.last = last, !.boundary = FALSE,
                             !.seen = FALSE, !.advised = advice]
<1>2. scope' = [A EXCEPT ![i] = p]
  BY DEF Prepare
<1>3. /\ A[i] \in Scope /\ A[i].gen = scope[i].gen /\ A[i].revision = scope[i].revision
      /\ A[i].evidence = scope[i].evidence
      /\ A[i].advice = scope[i].advice \/ Landed(i, A[i].advice)
  BY <1>1, AdvisedIs
<1>4. /\ p \in Scope /\ p.gen = A[i].gen /\ p.revision = A[i].revision
      /\ p.evidence = A[i].evidence /\ p.advice = A[i].advice
      /\ p.last = last /\ p.advised = advice
  BY <1>3 DEF Scope
<1>5. A \in [Slots -> Scope]
  BY <1>1, AdvisedIs DEF Advised
<1>6. \A j \in Slots \ {i} :
          /\ A[j].gen = scope[j].gen /\ A[j].revision = scope[j].revision
          /\ A[j].evidence = scope[j].evidence
          /\ A[j].advice = scope[j].advice \/ Landed(j, A[j].advice)
          /\ A[j].last = scope[j].last /\ A[j].seen = scope[j].seen
          /\ A[j].inflight = scope[j].inflight
  BY <1>1, AdvisedIs
<1> HIDE DEF A, p
<1>7. scope' \in [Slots -> Scope] /\ scope'[i] = p /\ \A j \in Slots \ {i} : scope'[j] = A[j]
  BY <1>2, <1>4, <1>5
<1>8. registry' = Interpreted(taken) /\ UNCHANGED <<opened, told, superseded>>
  BY DEF Prepare
<1>9. ASSUME NEW j \in Slots
      PROVE  /\ scope'[j].gen = scope[j].gen /\ scope'[j].revision = scope[j].revision
             /\ scope'[j].evidence = scope[j].evidence
             /\ scope'[j].advice = scope[j].advice \/ Landed(j, scope'[j].advice)
             /\ j # i => scope'[j].last = scope[j].last /\ scope'[j].seen = scope[j].seen
             /\ j # i => scope'[j].inflight = scope[j].inflight
  <2>1. CASE j = i  BY <1>3, <1>4, <1>7, <2>1
  <2>2. CASE j # i  BY <1>6, <1>7, <2>2
  <2> QED  BY <2>1, <2>2
<1> QED  BY <1>1, <1>4, <1>7, <1>8, <1>9, InterpretedIs

LEMMA DispatchDoes ==
    ASSUME TypeOK, NEW i \in Slots, NEW k \in Keys, NEW taken, NEW advice \in 0..MaxRevision,
           Dispatch(i, k, taken, advice)
    PROVE  Typed' /\ Exchanges
<1>1. SessionsTyped /\ Len(row) \in Nat /\ MaxRows \in Nat
  BY TypeParts, SessionIs, EvidenceAssumption
<1> DEFINE last == Len(row) + 1
<1>2. last \in 0..MaxRows /\ Prepare(i, k, taken, advice, last)
  BY <1>1 DEF Dispatch
<1> DEFINE r == [key |-> k, is |-> "open",
                 source |-> FALSE, doubt |-> loss = "window", expired |-> FALSE]
<1>3. r \in Row /\ row' = Append(row, r) /\ loss' = loss
  BY DEF Dispatch, Row
<1> HIDE DEF r
<1>4. row' \in Seq(Row) /\ Len(row') = Len(row) + 1
  BY <1>1, <1>3 DEF SessionsTyped
<1>5. Typed'
  <2>1. scope' \in [Slots -> Scope] /\ RegistryTyped(registry') /\ UNCHANGED <<opened, told, superseded>>
    BY <1>2, PrepareDoes
  <2>2. Len(row') <= MaxRows
    BY <1>2, <1>4
  <2> QED  BY <1>1, <1>3, <1>4, <2>1, <2>2 DEF Typed, SessionsTyped
<1>6. /\ scope'[i].last = last /\ UNCHANGED <<opened, told, superseded>>
      /\ \A g \in Generations : registry'[g].is = registry[g].is
  <2> HIDE DEF last
  <2> QED  BY <1>2, PrepareDoes
<1>7. \A j \in Slots :
          /\ scope'[j].gen = scope[j].gen /\ scope'[j].revision = scope[j].revision
          /\ scope'[j].evidence = scope[j].evidence
          /\ scope'[j].advice = scope[j].advice \/ Landed(j, scope'[j].advice)
          /\ j # i => scope'[j].last = scope[j].last /\ scope'[j].seen = scope[j].seen
  BY <1>2, PrepareDoes
<1> QED  BY <1>1, <1>4, <1>5, <1>6, <1>7 DEF Exchanges

LEMMA UntrackedDoes ==
    ASSUME TypeOK, NEW i \in Slots, NEW k, NEW taken, DispatchUntracked(i, k, taken)
    PROVE  Typed' /\ Exchanges
<1>1. SessionsTyped /\ Len(row) \in Nat
  BY TypeParts, SessionIs
<1>2. 0 \in 0..MaxRows /\ 0 \in 0..MaxRevision /\ Prepare(i, k, taken, 0, 0)
  BY EvidenceAssumption DEF DispatchUntracked
<1>3. /\ row' \in Seq(Row) /\ Len(row') = Len(row)
      /\ loss' \in {"none", "window", "all"}
  BY <1>1, DoubtedIs DEF DispatchUntracked, LosesWindow, SessionsTyped
<1>4. Typed'
  <2>1. scope' \in [Slots -> Scope] /\ RegistryTyped(registry') /\ UNCHANGED <<opened, told, superseded>>
    BY <1>2, PrepareDoes
  <2> QED  BY <1>1, <1>3, <2>1 DEF Typed, SessionsTyped
<1>5. /\ scope'[i].last = 0 /\ UNCHANGED <<opened, told, superseded>>
      /\ \A g \in Generations : registry'[g].is = registry[g].is
  BY <1>2, PrepareDoes
<1>6. \A j \in Slots :
          /\ scope'[j].gen = scope[j].gen /\ scope'[j].revision = scope[j].revision
          /\ scope'[j].evidence = scope[j].evidence
          /\ scope'[j].advice = scope[j].advice \/ Landed(j, scope'[j].advice)
          /\ j # i => scope'[j].last = scope[j].last /\ scope'[j].seen = scope[j].seen
  BY <1>2, PrepareDoes
<1> QED  BY <1>1, <1>3, <1>4, <1>5, <1>6 DEF Exchanges

LEMMA FinishDoes ==
    ASSUME TypeOK, RowsApart, NEW i \in Slots, NEW complete \in BOOLEAN, NEW tools \in BOOLEAN,
           Finish(i, complete, tools)
    PROVE  Typed' /\ Exchanges
<1>1. SessionsTyped /\ Len(row) \in Nat /\ scope[i] \in Scope /\ RegistryTyped(registry)
  BY TypeParts, SessionIs
<1> DEFINE s == [scope[i] EXCEPT !.inflight = FALSE, !.boundary = tools, !.advised = 0]
<1>2. scope' = [scope EXCEPT ![i] = s]
  BY DEF Finish
<1>3. /\ s \in Scope /\ s.gen = scope[i].gen /\ s.revision = scope[i].revision
      /\ s.evidence = scope[i].evidence /\ s.advice = scope[i].advice
      /\ s.last = scope[i].last /\ s.seen = scope[i].seen
  <2>1. 0 \in 0..MaxRevision
    BY EvidenceAssumption
  <2> QED  BY <1>1, <2>1 DEF Scope
<1> HIDE DEF s
<1>4. /\ scope' \in [Slots -> Scope]
      /\ \A j \in Slots :
            /\ scope'[j].gen = scope[j].gen /\ scope'[j].revision = scope[j].revision
            /\ scope'[j].evidence = scope[j].evidence /\ scope'[j].advice = scope[j].advice
            /\ scope'[j].last = scope[j].last /\ scope'[j].seen = scope[j].seen
  BY <1>1, <1>2, <1>3 DEF SessionsTyped
<1>5. row' \in Seq(Row) /\ Len(row') = Len(row)
  <2>1. CASE scope[i].last = 0
    BY <1>1, <2>1 DEF Finish, SessionsTyped
  <2>2. CASE scope[i].last # 0
    <3> DEFINE n == scope[i].last
               r == [row[n] EXCEPT !.is = IF complete THEN "complete" ELSE "failed"]
    <3>1. n \in 1..Len(row)
      BY <1>1, <2>2 DEF RowsApart, Scope
    <3>2. row[n] \in Row
      BY <1>1, <3>1, ElementOfSeq DEF SessionsTyped
    <3>3. r \in Row
      BY <3>2 DEF Row
    <3>4. row' = [row EXCEPT ![n] = r]
      BY <2>2 DEF Finish
    <3> HIDE DEF n, r
    <3> QED  BY <1>1, <3>1, <3>3, <3>4, ExceptSeq DEF SessionsTyped
  <2> QED  BY <2>1, <2>2
<1>6. UNCHANGED <<opened, loss, registry, told, superseded>>
  BY DEF Finish
<1>7. Typed'
  BY <1>1, <1>4, <1>5, <1>6 DEF Typed, SessionsTyped
<1> QED  BY <1>1, <1>4, <1>5, <1>6, <1>7 DEF Exchanges

LEMMA ReplacementDoes ==
    ASSUME TypeOK, NEW i \in Slots, OpenFree(i) \/ OpenReclaimed(i) \/ Close(i)
    PROVE  Typed' /\ \E g \in Nat : Replaced(i, g)
<1>1. SessionsTyped /\ RegistryTyped(registry) /\ scope[i] \in Scope /\ opened \in Nat
  BY TypeParts, SessionIs
<1>2. \A e \in told : e.gen # 0
  BY <1>1, SessionIs
<1>3. superseded \subseteq told
  BY <1>1 DEF SessionsTyped
<1>4. \E g \in Generations \cup {0} :
          /\ scope' = [scope EXCEPT ![i] = [Free EXCEPT !.gen = g]]
          /\ \/ g = 0 /\ opened' = opened
             \/ g = opened + 1 /\ opened' = opened + 1
          /\ opened' \in 0..MaxGenerations
  <2>1. CASE OpenFree(i) \/ OpenReclaimed(i)
    <3>1. /\ opened < MaxGenerations /\ opened' = opened + 1
          /\ scope' = [scope EXCEPT ![i] = [Free EXCEPT !.gen = opened + 1]]
      BY <2>1 DEF OpenFree, OpenReclaimed, OpenScope
    <3>2. opened + 1 \in Generations /\ opened + 1 \in 0..MaxGenerations
      BY <1>1, <3>1, EvidenceAssumption DEF Generations
    <3> QED  BY <3>1, <3>2
  <2>2. CASE Close(i)
    <3>1. scope' = [scope EXCEPT ![i] = Free] /\ opened' = opened
      BY <2>2 DEF Close
    <3>2. Free = [Free EXCEPT !.gen = 0]
      BY DEF Free
    <3> QED  BY <1>1, <3>1, <3>2 DEF SessionsTyped
  <2> QED  BY <2>1, <2>2
<1>5. PICK g \in Generations \cup {0} :
          /\ scope' = [scope EXCEPT ![i] = [Free EXCEPT !.gen = g]]
          /\ \/ g = 0 /\ opened' = opened
             \/ g = opened + 1 /\ opened' = opened + 1
          /\ opened' \in 0..MaxGenerations
  BY <1>4
<1>6. /\ RegistryTyped(registry')
      /\ \A h \in Generations :
            registry'[h].is = "live" => h # scope[i].gen /\ registry[h].is = "live"
      /\ told' = {e \in told : e.gen # scope[i].gen}
      /\ superseded' = {e \in superseded : e.gen # scope[i].gen}
  <2>1. CASE OpenFree(i)
    <3>1. scope[i].gen = 0 /\ UNCHANGED <<registry, told, superseded>>
      BY <2>1 DEF OpenFree
    <3> QED  BY <1>1, <1>2, <1>3, <3>1 DEF Generations
  <2>2. CASE OpenReclaimed(i) \/ Close(i)
    <3>1. scope[i].gen # 0 /\ Forgets(scope[i].gen)
      BY <2>2 DEF OpenReclaimed, Close, Open
    <3>2. scope[i].gen \in Generations
      BY <1>1, <3>1 DEF Scope
    <3>3. registry' = Closed(scope[i].gen)
      BY <3>1 DEF Forgets
    <3>4. /\ RegistryTyped(Closed(scope[i].gen))
          /\ \A h \in Generations : Closed(scope[i].gen)[h].is = "live" =>
                h # scope[i].gen /\ registry[h].is = "live"
      BY <1>1, <3>2, ClosedIs
    <3> QED  BY <3>1, <3>3, <3>4 DEF Forgets
  <2> QED  BY <2>1, <2>2
<1>7. UNCHANGED <<row, loss>>
  BY DEF OpenFree, OpenReclaimed, OpenScope, Close
<1>8. scope' \in [Slots -> Scope]
  <2>1. [Free EXCEPT !.gen = g] \in Scope
    BY FreeIs
  <2> QED  BY <1>1, <1>5, <2>1 DEF SessionsTyped
<1>9. Typed'
  BY <1>1, <1>3, <1>5, <1>6, <1>7, <1>8 DEF Typed, SessionsTyped
<1>10. g \in Nat
  BY EvidenceAssumption DEF Generations
<1>11. Replaced(i, g)
  BY <1>5, <1>6, <1>7 DEF Replaced
<1> QED  BY <1>9, <1>10, <1>11

LEMMA HearsIs ==
    ASSUME TypeOK, NEW i \in Slots, NEW ev \in Events
    PROVE  LET h == Hears(i, ev) IN
           /\ h \in Scope
           /\ h.gen = scope[i].gen /\ h.last = scope[i].last /\ h.seen = scope[i].seen
           /\ h.revision = scope[i].revision /\ h.inflight = scope[i].inflight
           /\ \/ h.evidence = 0 /\ h.advice = 0
              \/ /\ h.evidence = scope[i].evidence /\ h.advice = scope[i].advice
                 /\ ev.revision <= scope[i].revision
<1>1. scope[i] \in Scope /\ scope[i].revision \in Nat /\ ev.revision \in Nat
  BY TypeParts, SessionIs, EventIs
<1>2. CASE ev.revision > scope[i].revision
  <2>1. Hears(i, ev) = [scope[i] EXCEPT !.evidence = 0, !.advice = 0]
    BY <1>2 DEF Hears
  <2>2. 0 \in 0..MaxRows /\ 0 \in 0..MaxRevision
    BY EvidenceAssumption
  <2> QED  BY <1>1, <2>1, <2>2 DEF Scope
<1>3. CASE ~(ev.revision > scope[i].revision)
  BY <1>1, <1>3 DEF Hears
<1> QED  BY <1>2, <1>3

LEMMA HeardDoes ==
    ASSUME TypeOK, NEW i \in Slots, NEW ev \in Events,
           IngestLoss(i, ev) \/ IngestRefused(i, ev) \/ IngestInexact(i, ev)
    PROVE  Typed' /\ Heard(i, ev)
<1>1. SessionsTyped /\ RegistryTyped(registry)
  BY TypeParts
<1>2. /\ Receives(i, ev) /\ scope' = [scope EXCEPT ![i] = Hears(i, ev)]
      /\ UNCHANGED <<opened, told, registry>> /\ loss' \in {"none", "window", "all"}
  BY <1>1 DEF IngestLoss, IngestRefused, IngestInexact, SessionsTyped
<1>3. row' \in Seq(Row) /\ Len(row') = Len(row)
  BY <1>1, SourcedIs DEF IngestLoss, IngestRefused, IngestInexact, SessionsTyped
<1>4. scope' \in [Slots -> Scope]
  BY <1>1, <1>2, HearsIs DEF SessionsTyped
<1>5. superseded' \subseteq told'
  BY <1>1, <1>2 DEF Receives, SessionsTyped
<1> QED  BY <1>1, <1>2, <1>3, <1>4, <1>5 DEF Typed, Heard, SessionsTyped

LEMMA ToldIs ==
    ASSUME TypeOK, NEW i \in Slots, NEW ev \in Events
    PROVE  LET t == Told(scope[i], ev) IN
           /\ t \in Scope
           /\ t.gen = scope[i].gen /\ t.last = scope[i].last /\ t.inflight = scope[i].inflight
           /\ t.revision = ev.revision /\ t.evidence = scope[i].last /\ t.advice = 0
           /\ t.seen = (scope[i].seen \/ ev.kind = "tool")
<1>1. scope[i] \in Scope
  BY TypeParts, SessionIs
<1>2. /\ ev.revision \in 0..MaxRevision /\ ev.sequence \in 0..MaxRevision
      /\ 0 \in 0..MaxRevision /\ scope[i].last \in 0..MaxRows
      /\ (scope[i].seen \/ ev.kind = "tool") \in BOOLEAN
  BY <1>1, EventIs, EvidenceAssumption DEF Scope
<1> QED  BY <1>1, <1>2 DEF Told, Scope

LEMMA KeptDoes ==
    ASSUME TypeOK, NEW i \in Slots, NEW ev \in Events, IngestAccepted(i, ev)
    PROVE  Typed' /\ Kept(i, ev)
<1>1. SessionsTyped /\ RegistryTyped(registry) /\ DOMAIN row = 1..Len(row) /\ Len(row) \in Nat
  BY TypeParts, SessionIs
<1>2. /\ Receives(i, ev) /\ Fits(i, ev) /\ Puts(ev.gen, ev.revision) /\ row' = Sourced(ev.key)
      /\ registry' = Put(ev.gen, ev.revision)
      /\ scope' = [scope EXCEPT ![i] = Told(scope[i], ev)]
      /\ told' = told \cup {[gen |-> ev.gen, revision |-> ev.revision,
                             kind |-> ev.kind, row |-> scope[i].last]}
      /\ UNCHANGED <<opened, loss>>
  BY DEF IngestAccepted
<1>3. ev.gen \in Generations /\ ev.revision \in 1..MaxRevision /\ ev.kind \in {"response", "tool"}
  BY EventIs
<1>4. /\ RegistryTyped(registry')
      /\ \A h \in Generations :
            registry'[h].is = "live" => h = ev.gen \/ registry[h].is = "live"
  <2>1. /\ RegistryTyped(Put(ev.gen, ev.revision))
        /\ \A h \in Generations :
              Put(ev.gen, ev.revision)[h].is = "live" => h = ev.gen \/ registry[h].is = "live"
    BY <1>1, <1>2, <1>3, PutIs
  <2> QED  BY <1>2, <2>1
<1>5. row' \in Seq(Row) /\ Len(row') = Len(row)
  BY <1>1, <1>2, SourcedIs DEF SessionsTyped
<1>6. scope' \in [Slots -> Scope]
  BY <1>1, <1>2, ToldIs DEF SessionsTyped
<1>7. scope[i].last \in 1..MaxRows
  <2>1. scope[i].last \in DOMAIN row
    BY <1>2 DEF Fits
  <2> QED  BY <1>1, <2>1, EvidenceAssumption DEF SessionsTyped
<1>8. told' \subseteq Telling
  BY <1>1, <1>2, <1>3, <1>7 DEF SessionsTyped, Telling
<1>9. superseded' \subseteq told'
  BY <1>1, <1>2 DEF Receives, SessionsTyped
<1>10. Typed'
  BY <1>1, <1>2, <1>4, <1>5, <1>6, <1>8, <1>9 DEF Typed, SessionsTyped
<1> QED  BY <1>2, <1>4, <1>5, <1>10 DEF Kept

LEMMA RowDoes ==
    ASSUME SessionsTyped, NEW r \in DOMAIN row, NEW x \in Row
    PROVE  [row EXCEPT ![r] = x] \in Seq(Row) /\ Len([row EXCEPT ![r] = x]) = Len(row)
BY SessionIs, ExceptSeq DEF SessionsTyped

LEMMA TimeDoes ==
    ASSUME TypeOK, Time \/ (\E j \in Job : Answer(j)) \/ UNCHANGED vars
    PROVE  Typed' /\ Exchanges
<1>1. SessionsTyped /\ RegistryTyped(registry) /\ Len(row) \in Nat /\ DOMAIN row = 1..Len(row)
  BY TypeParts, SessionIs
<1>2. UNCHANGED <<scope, opened, told, superseded>>
  BY DEF Time, ExpireRow, ReclaimRow, ExpireSnapshot, ForgetTombstone, WindowEnds,
         LoseElsewhere, Answer, vars
<1>3. /\ row' \in Seq(Row) /\ Len(row') = Len(row)
      /\ loss' \in {"none", "window", "all"}
      /\ RegistryTyped(registry')
      /\ \A g \in Generations : registry'[g].is = "live" => registry[g].is = "live"
  <2>1. ASSUME NEW r, ExpireRow(r)
        PROVE  row' \in Seq(Row) /\ Len(row') = Len(row) /\ UNCHANGED <<loss, registry>>
    <3>1. /\ r \in DOMAIN row /\ UNCHANGED <<loss, registry>>
          /\ row' = [row EXCEPT ![r] = [row[r] EXCEPT !.expired = TRUE,
                        !.source = FALSE, !.doubt = FALSE]]
      BY <2>1 DEF ExpireRow
    <3>2. [row[r] EXCEPT !.expired = TRUE, !.source = FALSE, !.doubt = FALSE] \in Row
      <4>1. row[r] \in Row
        BY <1>1, <3>1, ElementOfSeq DEF SessionsTyped
      <4> QED  BY <4>1 DEF Row
    <3> QED  BY <1>1, <3>1, <3>2, RowDoes
  <2>2. ASSUME NEW r, ReclaimRow(r)
        PROVE  row' \in Seq(Row) /\ Len(row') = Len(row) /\ UNCHANGED <<loss, registry>>
    <3>1. /\ r \in DOMAIN row /\ UNCHANGED <<loss, registry>>
          /\ row' = [row EXCEPT ![r] = [row[r] EXCEPT !.key = NoKey]]
      BY <2>2 DEF ReclaimRow
    <3>2. [row[r] EXCEPT !.key = NoKey] \in Row
      <4>1. row[r] \in Row
        BY <1>1, <3>1, ElementOfSeq DEF SessionsTyped
      <4> QED  BY <4>1 DEF Row
    <3> QED  BY <1>1, <3>1, <3>2, RowDoes
  <2>3. ASSUME NEW g \in Generations, ExpireSnapshot(g) \/ ForgetTombstone(g)
        PROVE  /\ UNCHANGED <<row, loss>> /\ RegistryTyped(registry')
               /\ \A h \in Generations : registry'[h].is = "live" => registry[h].is = "live"
    <3>1. /\ UNCHANGED <<row, loss>>
          /\ \/ registry' = [registry EXCEPT ![g] = [registry[g] EXCEPT !.expired = TRUE]]
             \/ registry' = [registry EXCEPT ![g] = NoSnapshot]
      BY <2>3 DEF ExpireSnapshot, ForgetTombstone
    <3>2. /\ [registry[g] EXCEPT !.expired = TRUE] \in Snapshot
          /\ [registry[g] EXCEPT !.expired = TRUE].is = registry[g].is
      BY <1>1 DEF RegistryTyped, Snapshot
    <3>3. /\ registry' \in [Generations -> Snapshot]
          /\ \A h \in Generations : registry'[h].is \in {"none", registry[h].is}
      BY <1>1, <3>1, <3>2, SnapshotsAre DEF RegistryTyped
    <3>4. Entries(registry') \subseteq Entries(registry)
      BY <3>3 DEF Entries
    <3> QED  BY <1>1, <3>1, <3>3, <3>4, FewerEntries
  <2>4. CASE WindowEnds
    BY <1>1, <2>4 DEF WindowEnds, SessionsTyped
  <2>5. CASE LoseElsewhere
    BY <1>1, <2>5, DoubtedIs DEF LoseElsewhere, LosesWindow, SessionsTyped
  <2>6. ASSUME NEW j \in Job, Answer(j)
        PROVE  UNCHANGED <<row, loss, registry>>
    BY <2>6 DEF Answer
  <2>7. CASE UNCHANGED vars
    BY <1>1, <2>7 DEF vars, SessionsTyped
  <2> QED  BY <1>1, <2>1, <2>2, <2>3, <2>4, <2>5, <2>6, <2>7 DEF Time, SessionsTyped
<1>4. Typed'
  BY <1>1, <1>2, <1>3 DEF Typed, SessionsTyped
<1> QED  BY <1>1, <1>2, <1>3, <1>4 DEF Exchanges

(* Every step is of one of the four kinds. *)
LEMMA StepIs ==
    ASSUME TypeOK, RowsApart, [Next]_vars
    PROVE  /\ Typed' /\ FateMoves
           /\ \/ Exchanges
              \/ \E i \in Slots, g \in Nat : Replaced(i, g)
              \/ \E i \in Slots, ev \in Events : Heard(i, ev) \/ Kept(i, ev)
<1> DEFINE Kind == \/ Exchanges
                   \/ \E i \in Slots, g \in Nat : Replaced(i, g)
                   \/ \E i \in Slots, ev \in Events : Heard(i, ev) \/ Kept(i, ev)
<1>1. ASSUME NEW i \in Slots, Session(i)
      PROVE  Typed' /\ FateMoves /\ Kind
  <2>1. CASE OpenFree(i) \/ OpenReclaimed(i) \/ Close(i)
    <3>1. UNCHANGED fate
      BY <2>1 DEF OpenFree, OpenReclaimed, OpenScope, Close
    <3> QED  BY <2>1, <3>1, ReplacementDoes DEF FateMoves
  <2>2. ASSUME NEW k \in Keys, NEW taken \in SUBSET Done,
               NEW advice \in 0..MaxRevision, Dispatch(i, k, taken, advice)
        PROVE  Typed' /\ FateMoves /\ Kind
    <3>1. FateMoves
      BY <2>2 DEF Dispatch, Prepare, FateMoves
    <3> QED  BY <2>2, <3>1, DispatchDoes
  <2>3. ASSUME NEW k \in Keys, NEW taken \in SUBSET Done, DispatchUntracked(i, k, taken)
        PROVE  Typed' /\ FateMoves /\ Kind
    <3>1. FateMoves
      BY <2>3 DEF DispatchUntracked, Prepare, FateMoves
    <3> QED  BY <2>3, <3>1, UntrackedDoes
  <2>4. ASSUME NEW complete \in BOOLEAN, NEW tools \in BOOLEAN, Finish(i, complete, tools)
        PROVE  Typed' /\ FateMoves /\ Kind
    <3>1. FateMoves
      BY <2>4 DEF Finish, FateMoves
    <3> QED  BY <2>4, <3>1, FinishDoes
  <2> QED  BY <1>1, <2>1, <2>2, <2>3, <2>4 DEF Session
<1>2. ASSUME NEW i \in Slots, NEW ev \in Events, Ingest(i, ev)
      PROVE  Typed' /\ FateMoves /\ Kind
  <2>1. CASE IngestLoss(i, ev) \/ IngestRefused(i, ev) \/ IngestInexact(i, ev)
    <3>1. FateMoves
      BY <2>1 DEF IngestLoss, IngestRefused, IngestInexact, FateMoves
    <3> QED  BY <2>1, <3>1, HeardDoes
  <2>2. CASE IngestAccepted(i, ev)
    <3>1. [gen |-> ev.gen, revision |-> ev.revision] \in Job
      BY EventIs DEF Job
    <3>2. FateMoves
      BY <2>2, <3>1 DEF IngestAccepted, FateMoves
    <3> QED  BY <2>2, <3>2, KeptDoes
  <2> QED  BY <1>2, <2>1, <2>2 DEF Ingest
<1>3. ASSUME NEW taken \in SUBSET Done, Poll(taken)
      PROVE  Typed' /\ FateMoves /\ Kind
  <2>1. FateMoves
    BY <1>3 DEF Poll, FateMoves
  <2> QED  BY <1>3, <2>1, PollDoes
<1>4. ASSUME Time \/ (\E j \in Job : Answer(j)) \/ UNCHANGED vars
      PROVE  Typed' /\ FateMoves /\ Kind
  <2>1. FateMoves
    BY <1>4 DEF Time, ExpireRow, ReclaimRow, ExpireSnapshot, ForgetTombstone, WindowEnds,
                LoseElsewhere, Answer, vars, FateMoves
  <2> QED  BY <1>4, <2>1, TimeDoes
<1> QED  BY <1>1, <1>2, <1>3, <1>4 DEF Next

-----------------------------------------------------------------------------
(* What each kind of step keeps. *)
LEMMA ExchangesKeep ==
    ASSUME Inv, Exchanges,
           \A j \in Job : fate[j].is = "valid" => fate'[j].is = "valid"
    PROVE  (Issued /\ RowsApart /\ SeenIsKept /\ AdviceRests /\ ToolResultOnce /\ RegistryIsOwned)'
<1>1. SessionsTyped
  BY TypeParts DEF Inv
<1>2. Issued'
  BY DEF Inv, Issued, Exchanges
<1>3. RowsApart'
  <2>1. \A i \in Slots : scope'[i].last <= Len(row')
    BY <1>1, SessionIs DEF Inv, RowsApart, Exchanges
  <2>2. \A e \in told' : e.row <= Len(row')
    BY <1>1, SessionIs DEF Inv, RowsApart, Exchanges
  <2>3. ASSUME NEW i \in Slots, NEW j \in Slots, i # j, scope'[i].last = scope'[j].last
        PROVE  scope'[i].last = 0
    BY <1>1, <2>3, SessionIs DEF Inv, RowsApart, Exchanges
  <2> QED  BY <2>1, <2>2, <2>3 DEF RowsApart
<1>4. SeenIsKept'
  BY <1>1, SessionIs DEF Inv, RowsApart, SeenIsKept, Exchanges
<1>5. AdviceRests'
  <2>1. ASSUME NEW i \in Slots, scope'[i].gen # 0
        PROVE  Rests(i)'
    <3>1. Rests(i) /\ scope[i] \in Scope /\ scope[i].gen \in Generations
      BY <1>1, <2>1, SessionIs DEF Inv, AdviceRests, Open, Exchanges, Scope
    <3>2. scope'[i].advice # 0 =>
              /\ scope'[i].advice = scope'[i].revision
              /\ fate[[gen |-> scope[i].gen, revision |-> scope[i].revision]].is = "valid"
      BY <3>1 DEF Rests, Exchanges, Landed
    <3>3. scope'[i].advice # 0 => [gen |-> scope[i].gen, revision |-> scope[i].revision] \in Job
      <4>1. ASSUME scope'[i].advice # 0  PROVE scope[i].revision \in 1..MaxRevision
        <5>1. scope[i].revision \in 0..MaxRevision
          BY <3>1 DEF Scope
        <5>2. scope[i].revision # 0
          BY <3>2, <4>1 DEF Exchanges
        <5> QED  BY <5>1, <5>2, EvidenceAssumption
      <4> QED  BY <3>1, <4>1 DEF Job
    <3> QED  BY <3>1, <3>2, <3>3 DEF Rests, Exchanges
  <2> QED  BY <2>1 DEF AdviceRests, Open
<1>6. ToolResultOnce'
  BY DEF Inv, ToolResultOnce, Exchanges
<1>7. RegistryIsOwned'
  BY DEF Inv, RegistryIsOwned, Exchanges
<1> QED  BY <1>2, <1>3, <1>4, <1>5, <1>6, <1>7

LEMMA ReplacedKeeps ==
    ASSUME Inv, NEW i \in Slots, NEW g \in Nat, Replaced(i, g), SessionsTyped',
           \A j \in Job : fate[j].is = "valid" => fate'[j].is = "valid"
    PROVE  (Issued /\ RowsApart /\ SeenIsKept /\ AdviceRests /\ ToolResultOnce /\ RegistryIsOwned)'
<1>1. SessionsTyped /\ scope \in [Slots -> Scope]
  BY TypeParts DEF Inv, SessionsTyped
<1>2. /\ \A j \in Slots \ {i} : scope'[j] = scope[j]
      /\ scope'[i] = [Free EXCEPT !.gen = g]
  BY <1>1 DEF Replaced
<1>3. g \in Generations \cup {0}
  <2>1. g \in 0..MaxGenerations
    BY <1>1, EvidenceAssumption DEF Replaced, SessionsTyped
  <2> QED  BY <2>1, EvidenceAssumption DEF Generations
<1>4. /\ scope'[i].gen = g /\ scope'[i].last = 0 /\ scope'[i].evidence = 0
      /\ scope'[i].advice = 0 /\ scope'[i].revision = 0
  BY <1>2, <1>3, FreeIs
<1>5. /\ told' \subseteq told /\ superseded' \subseteq superseded
      /\ \A e \in told : e.gen # scope[i].gen => e \in told'
      /\ row' = row
      /\ (g = 0 /\ opened' = opened) \/ (g = opened + 1 /\ opened' = opened + 1)
  BY DEF Replaced
<1>6. Issued'
  <2>1. Issued /\ opened \in Nat /\ opened' \in Nat /\ opened <= opened' /\ g <= opened'
    BY <1>1, <1>5, SessionIs DEF Inv
  <2>2. \A j \in Slots : scope'[j].gen <= opened'
    <3>1. ASSUME NEW j \in Slots
          PROVE  scope'[j].gen <= opened'
      <4>1. CASE j = i
        BY <1>4, <2>1, <4>1
      <4>2. CASE j # i
        <5>1. scope'[j].gen = scope[j].gen /\ scope[j].gen <= opened /\ scope[j].gen \in Nat
          BY <1>1, <1>2, <2>1, <4>2, SessionIs DEF Issued
        <5> QED  BY <2>1, <5>1
      <4> QED  BY <4>1, <4>2
    <3> QED  BY <3>1
  <2>3. \A e \in told' : e.gen <= opened'
    BY <1>1, <1>5, <2>1, SessionIs DEF Issued
  <2>4. ASSUME NEW j \in Slots \ {i}
        PROVE  scope'[j].gen = g => g = 0
    BY <1>1, <1>2, <1>5, <2>1, SessionIs DEF Issued
  <2>5. ASSUME NEW j \in Slots, NEW k \in Slots, j # k, scope'[j].gen = scope'[k].gen
        PROVE  scope'[j].gen = 0
    <3>1. CASE j # i /\ k # i
      BY <1>2, <2>1, <2>5, <3>1 DEF Issued
    <3>2. CASE j = i \/ k = i
      BY <1>4, <2>4, <2>5, <3>2
    <3> QED  BY <3>1, <3>2
  <2> QED  BY <2>2, <2>3, <2>5 DEF Issued
<1>7. RowsApart'
  <2>1. RowsApart /\ Len(row) \in Nat
    BY <1>1, SessionIs DEF Inv
  <2>2. \A j \in Slots : scope'[j].last = scope[j].last \/ scope'[j].last = 0
    BY <1>2, <1>4
  <2> QED  BY <1>5, <2>1, <2>2 DEF RowsApart
<1>8. SeenIsKept'
  BY <1>1, <1>2, <1>4, <1>5, SessionIs DEF Inv, SeenIsKept
<1>9. AdviceRests'
  <2>1. ASSUME NEW j \in Slots \ {i}, scope[j].gen # 0
        PROVE  Rests(j)'
    <3>1. Rests(j) /\ scope[j] \in Scope /\ scope[j].gen \in Generations
          /\ scope[j].gen # scope[i].gen
      BY <1>1, <2>1, SessionIs DEF Inv, AdviceRests, Open, Issued, Scope
    <3>2. scope[j].advice # 0 => [gen |-> scope[j].gen, revision |-> scope[j].revision] \in Job
      BY <3>1, EvidenceAssumption DEF Rests, Scope, Job
    <3> QED  BY <1>2, <1>5, <3>1, <3>2 DEF Rests
  <2>2. ASSUME g # 0
        PROVE  Rests(i)'
    <3>1. \A e \in told' : e.gen # g
      BY <1>1, <1>5, <2>2, SessionIs DEF Inv, Issued
    <3>2. superseded' \subseteq told'
      BY DEF SessionsTyped
    <3> QED  BY <1>4, <3>1, <3>2 DEF Rests
  <2> QED  BY <1>2, <1>4, <2>1, <2>2 DEF AdviceRests, Open
<1>10. ToolResultOnce'
  BY <1>5 DEF Inv, ToolResultOnce
<1>11. RegistryIsOwned'
  <2>1. ASSUME NEW h \in Generations, registry'[h].is = "live"
        PROVE  \E j \in Slots : scope'[j].gen = h
    <3>1. PICK j \in Slots : scope[j].gen = h /\ h # scope[i].gen
      BY <2>1 DEF Inv, RegistryIsOwned, Replaced
    <3> QED  BY <1>2, <3>1
  <2> QED  BY <2>1 DEF RegistryIsOwned
<1> QED  BY <1>6, <1>7, <1>8, <1>9, <1>10, <1>11

LEMMA HeardKeeps ==
    ASSUME Inv, NEW i \in Slots, NEW ev \in Events, Heard(i, ev),
           \A j \in Job : fate[j].is = "valid" => fate'[j].is = "valid"
    PROVE  (Issued /\ RowsApart /\ SeenIsKept /\ AdviceRests /\ ToolResultOnce /\ RegistryIsOwned)'
<1>1. SessionsTyped /\ scope \in [Slots -> Scope] /\ TypeOK
  BY TypeParts DEF Inv, SessionsTyped
<1>2. /\ \A j \in Slots \ {i} : scope'[j] = scope[j]
      /\ scope'[i] = Hears(i, ev)
  BY <1>1 DEF Heard
<1>3. /\ scope'[i].gen = scope[i].gen /\ scope'[i].last = scope[i].last
      /\ scope'[i].seen = scope[i].seen /\ scope'[i].revision = scope[i].revision
      /\ \/ scope'[i].evidence = 0 /\ scope'[i].advice = 0
         \/ /\ scope'[i].evidence = scope[i].evidence /\ scope'[i].advice = scope[i].advice
            /\ ev.revision <= scope[i].revision
  BY <1>1, <1>2, HearsIs
<1>4. \A j \in Slots : /\ scope'[j].gen = scope[j].gen /\ scope'[j].last = scope[j].last
                       /\ scope'[j].seen = scope[j].seen
  BY <1>2, <1>3
<1>5. /\ UNCHANGED <<opened, told, registry>> /\ Len(row') = Len(row) /\ scope[i].gen = ev.gen
      /\ superseded' = superseded \cup {e \in told : e.gen = ev.gen /\ e.revision < ev.revision}
  BY DEF Heard, Receives
<1>6. Issued' /\ RowsApart' /\ SeenIsKept'
  BY <1>4, <1>5 DEF Inv, Issued, RowsApart, SeenIsKept
<1>7. ToolResultOnce' /\ RegistryIsOwned'
  BY <1>4, <1>5 DEF Inv, ToolResultOnce, RegistryIsOwned
<1>8. AdviceRests'
  <2>1. ASSUME NEW j \in Slots, scope[j].gen # 0
        PROVE  Rests(j)'
    <3>1. Rests(j) /\ scope[j] \in Scope /\ scope[j].gen \in Generations
      BY <1>1, <2>1, SessionIs DEF Inv, AdviceRests, Open, Scope
    <3>2. scope[j].advice # 0 => [gen |-> scope[j].gen, revision |-> scope[j].revision] \in Job
      BY <3>1, EvidenceAssumption DEF Rests, Scope, Job
    <3>3. CASE j # i
      <4>1. scope[j].gen # ev.gen
        BY <1>5, <2>1, <3>3 DEF Inv, Issued
      <4> QED  BY <1>2, <1>5, <3>1, <3>2, <3>3, <4>1 DEF Rests
    <3>4. CASE j = i
      <4>1. \A e \in superseded' : e.gen = scope'[i].gen /\ e.revision = scope'[i].revision =>
                scope'[i].evidence = 0
        <5>1. \A e \in told : e.revision \in Nat
          BY <1>1, SessionIs
        <5>2. ev.revision \in Nat /\ scope[i].revision \in Nat
          BY <1>1, EventIs, SessionIs
        <5> QED  BY <1>3, <1>5, <3>1, <3>4, <5>1, <5>2 DEF Rests
      <4> QED  BY <1>3, <1>5, <3>1, <3>2, <3>4, <4>1 DEF Rests
    <3> QED  BY <3>3, <3>4
  <2> QED  BY <1>4, <2>1 DEF AdviceRests, Open
<1> QED  BY <1>6, <1>7, <1>8

LEMMA KeptKeeps ==
    ASSUME Inv, NEW i \in Slots, NEW ev \in Events, Kept(i, ev),
           \A j \in Job : fate[j].is = "valid" => fate'[j].is = "valid"
    PROVE  (Issued /\ RowsApart /\ SeenIsKept /\ AdviceRests /\ ToolResultOnce /\ RegistryIsOwned)'
<1>1. SessionsTyped /\ scope \in [Slots -> Scope] /\ TypeOK
  BY TypeParts DEF Inv, SessionsTyped
<1> DEFINE new == [gen |-> ev.gen, revision |-> ev.revision,
                   kind |-> ev.kind, row |-> scope[i].last]
<1>2. /\ \A j \in Slots \ {i} : scope'[j] = scope[j]
      /\ scope'[i] = Told(scope[i], ev)
  BY <1>1 DEF Kept
<1>3. /\ scope'[i].gen = scope[i].gen /\ scope'[i].last = scope[i].last
      /\ scope'[i].revision = ev.revision /\ scope'[i].evidence = scope[i].last
      /\ scope'[i].advice = 0
      /\ scope'[i].seen = (scope[i].seen \/ ev.kind = "tool")
  BY <1>1, <1>2, ToldIs
<1>4. \A j \in Slots : scope'[j].gen = scope[j].gen /\ scope'[j].last = scope[j].last
  BY <1>2, <1>3
<1>5. /\ opened' = opened /\ Len(row') = Len(row) /\ scope[i].gen = ev.gen
      /\ told' = told \cup {new}
      /\ superseded' = superseded \cup {e \in told : e.gen = ev.gen /\ e.revision < ev.revision}
  BY DEF Kept, Receives
<1>6. /\ ev.revision > scope[i].revision /\ scope[i].last \in 1..Len(row)
      /\ ev.kind = "tool" => ~scope[i].seen
  <2>1. scope[i].last \in DOMAIN row
    BY DEF Kept, Fits
  <2> QED  BY <1>1, <2>1, SessionIs DEF Kept, Fits
<1>7. new.gen = scope[i].gen /\ new.revision = ev.revision /\ new.kind = ev.kind
      /\ new.row = scope[i].last
  BY <1>5
<1> HIDE DEF new
<1>8. Issued'
  BY <1>4, <1>5, <1>7 DEF Inv, Issued
<1>9. RowsApart'
  BY <1>4, <1>5, <1>7 DEF Inv, RowsApart
<1>10. SeenIsKept'
  <2>1. ASSUME NEW j \in Slots, NEW e \in told', e.kind = "tool", e.row = scope[j].last
        PROVE  scope'[j].seen
    <3>1. CASE e \in told
      BY <1>2, <1>3, <2>1, <3>1 DEF Inv, SeenIsKept
    <3>2. CASE e = new
      <4>1. j = i
        BY <1>6, <1>7, <2>1, <3>2 DEF Inv, RowsApart
      <4> QED  BY <1>3, <1>7, <2>1, <3>2, <4>1
    <3> QED  BY <1>5, <3>1, <3>2
  <2> QED  BY <1>4, <2>1 DEF SeenIsKept
<1>11. ToolResultOnce'
  <2>1. ASSUME NEW e \in told, e.kind = "tool", new.kind = "tool"
        PROVE  e.row # new.row
    BY <1>6, <1>7, <2>1 DEF Inv, SeenIsKept
  <2> QED  BY <1>5, <2>1 DEF Inv, ToolResultOnce
<1>12. RegistryIsOwned'
  BY <1>4, <1>5 DEF Inv, RegistryIsOwned, Kept
<1>13. AdviceRests'
  <2>1. ASSUME NEW j \in Slots \ {i}, scope[j].gen # 0
        PROVE  Rests(j)'
    <3>1. Rests(j) /\ scope[j] \in Scope /\ scope[j].gen \in Generations
          /\ scope[j].gen # scope[i].gen
      BY <1>1, <2>1, SessionIs DEF Inv, AdviceRests, Open, Issued, Scope
    <3>2. scope[j].advice # 0 => [gen |-> scope[j].gen, revision |-> scope[j].revision] \in Job
      BY <3>1, EvidenceAssumption DEF Rests, Scope, Job
    <3> QED  BY <1>2, <1>5, <1>7, <3>1, <3>2 DEF Rests
  <2>2. Rests(i)'
    <3>1. scope[i].gen # 0
      BY <1>5, EventIs
    <3>2. Rests(i)
      BY <3>1 DEF Inv, AdviceRests, Open
    <3>3. /\ \A e \in told : e.revision \in Nat
          /\ ev.revision \in Nat /\ scope[i].revision \in Nat /\ superseded \subseteq told
      BY <1>1, EventIs, SessionIs
    <3>4. \A e \in told : e.gen = scope[i].gen => e.revision < ev.revision
      BY <1>6, <3>2, <3>3 DEF Rests
    <3>5. \A e \in told' : e.gen = scope'[i].gen => e.revision <= scope'[i].revision
      BY <1>3, <1>5, <1>7, <3>3, <3>4
    <3>6. \A e \in superseded' : e.gen = scope'[i].gen => e.revision # scope'[i].revision
      BY <1>3, <1>5, <3>3, <3>4
    <3>7. new \in told'
      BY <1>5
    <3> QED  BY <1>3, <1>7, <3>5, <3>6, <3>7 DEF Rests
  <2> QED  BY <1>4, <2>1, <2>2 DEF AdviceRests, Open
<1> QED  BY <1>8, <1>9, <1>10, <1>11, <1>12, <1>13

-----------------------------------------------------------------------------
LEMMA InitHolds == Init => Inv
<1> SUFFICES ASSUME Init PROVE Inv
  OBVIOUS
<1>1. 0 \in Nat /\ Free \in Scope /\ Free.gen = 0 /\ Free.last = 0
  <2>1. Free = [Free EXCEPT !.gen = 0]
    BY DEF Free
  <2> QED  BY <2>1, FreeIs
<1>2. \A i \in Slots : scope[i] = Free
  BY DEF Init
<1>3. SessionsTyped
  <2>1. <<>> \in Seq(Row) /\ Len(<<>>) = 0
    OBVIOUS
  <2> QED  BY <1>1, <2>1, EvidenceAssumption DEF Init, SessionsTyped
<1>4. RegistryTyped(registry)
  <2>1. Entries(registry) = {}
    BY SnapshotsAre DEF Init, Entries
  <2>2. registry \in [Generations -> Snapshot]
    BY SnapshotsAre DEF Init
  <2> QED  BY <2>1, <2>2, FS_EmptySet, EvidenceAssumption DEF RegistryTyped
<1>5. DeskTyped(fate)
  <2>1. Waiting(fate) = {}
    BY DEF Init, Waiting
  <2>2. fate \in [Job -> [is: Desk!Fates, polled: BOOLEAN]]
    BY DEF Init, Desk!Fates
  <2> QED  BY <2>1, <2>2, FS_EmptySet, EvidenceAssumption DEF DeskTyped
<1>6. opened = 0 /\ told = {} /\ superseded = {} /\ Len(row) = 0
      /\ \A g \in Generations : registry[g].is = "none"
  BY SnapshotsAre DEF Init
<1>7. Issued /\ RowsApart /\ SeenIsKept /\ AdviceRests
  BY <1>1, <1>2, <1>6 DEF Issued, RowsApart, SeenIsKept, AdviceRests, Open
<1>8. ToolResultOnce /\ RegistryIsOwned
  BY <1>6 DEF ToolResultOnce, RegistryIsOwned
<1> QED  BY <1>3, <1>4, <1>5, <1>7, <1>8, TypeParts DEF Inv

LEMMA StepKeeps == Inv /\ [Next]_vars => Inv'
<1> SUFFICES ASSUME Inv, [Next]_vars PROVE Inv'
  OBVIOUS
<1>1. TypeOK /\ RowsApart /\ DeskTyped(fate)
  BY TypeParts DEF Inv
<1>2. /\ Typed' /\ FateMoves
      /\ \/ Exchanges
         \/ \E i \in Slots, g \in Nat : Replaced(i, g)
         \/ \E i \in Slots, ev \in Events : Heard(i, ev) \/ Kept(i, ev)
  BY <1>1, StepIs
<1>3. DeskTyped(fate') /\ \A j \in Job : fate[j].is = "valid" => fate'[j].is = "valid"
  BY <1>1, <1>2, DeskKeeps
<1>4. TypeOK'
  <2>1. SessionsTyped' /\ RegistryTyped(registry)' /\ DeskTyped(fate)'
    BY <1>2, <1>3 DEF Typed
  <2> QED  BY <2>1, TypeParts, PTL
<1>5. (Issued /\ RowsApart /\ SeenIsKept /\ AdviceRests /\ ToolResultOnce /\ RegistryIsOwned)'
  <2>1. SessionsTyped'
    BY <1>2 DEF Typed
  <2> QED  BY <1>2, <1>3, <2>1, ExchangesKeep, ReplacedKeeps, HeardKeeps, KeptKeeps
<1> QED  BY <1>4, <1>5 DEF Inv

(* The inductive invariant of the evidence and of the advice made of it.   *)
THEOREM Invariant == Spec => []Inv
BY InitHolds, StepKeeps, PTL DEF Spec

(* The tables keep their types and never hold more than their capacity:    *)
(* RC_CONTEXT_MAX_SLOTS snapshots, RC_INTERPRETER_CAPACITY jobs.           *)
THEOREM TypeCorrect == Spec => []TypeOK
<1>1. Inv => TypeOK
  BY DEF Inv
<1> QED  BY Invariant, <1>1, PTL

(* One tool call is reported once: tool_result_seen, cleared only by the   *)
(* next prepare, whose row is a new one.                                   *)
THEOREM ToolsToldOnce == Spec => []ToolResultOnce
<1>1. Inv => ToolResultOnce
  BY DEF Inv
<1> QED  BY Invariant, <1>1, PTL

(* No snapshot outlives its session, full registry or not: what            *)
(* rc_context_close clears before it asks for room for the tombstone.      *)
THEOREM SnapshotsAreOwned == Spec => []RegistryIsOwned
<1>1. Inv => RegistryIsOwned
  BY DEF Inv
<1> QED  BY Invariant, <1>1, PTL

(* A request placed by advice: what prepare found of the session. *)
LEMMA PlacedIs ==
    ASSUME Inv, Next, NEW i \in Slots, NEW v \in 1..MaxRevision, Placed(i, v)
    PROVE  /\ scope[i].gen # 0 /\ v = scope[i].revision
           /\ fate[[gen |-> scope[i].gen, revision |-> v]].is = "valid"
           /\ scope[i].evidence = scope[i].last
           /\ Exact(row, scope[i].evidence)
<1>1. TypeOK /\ SessionsTyped /\ scope \in [Slots -> Scope]
  BY TypeParts DEF Inv, SessionsTyped
<1>2. /\ ~scope[i].inflight /\ scope'[i].inflight /\ scope'[i].advised = v /\ v # 0
  BY DEF Placed
<1>3. PICK k \in Keys, taken \in SUBSET Done, advice \in 0..MaxRevision :
          Dispatch(i, k, taken, advice)
  <2>1. ASSUME NEW j \in Slots, OpenFree(j) \/ OpenReclaimed(j) \/ Close(j)
        PROVE  FALSE
    <3>1. PICK g \in Nat : scope' = [scope EXCEPT ![j] = [Free EXCEPT !.gen = g]]
      BY <1>1, <2>1, ReplacementDoes DEF Replaced
    <3>2. [Free EXCEPT !.gen = g].inflight = FALSE
      BY DEF Free
    <3> QED  BY <1>1, <1>2, <3>1, <3>2
  <2>2. ASSUME NEW j \in Slots, NEW k \in Keys, NEW taken \in SUBSET Done,
               DispatchUntracked(j, k, taken)
        PROVE  FALSE
    <3>1. 0 \in 0..MaxRows /\ 0 \in 0..MaxRevision /\ Prepare(j, k, taken, 0, 0)
      BY <2>2, EvidenceAssumption DEF DispatchUntracked
    <3>2. scope'[j].advised = 0
      BY <1>1, <3>1, PrepareDoes
    <3>3. \A q \in Slots : q # j => scope'[q].inflight = scope[q].inflight
      BY <1>1, <3>1, PrepareDoes
    <3> QED  BY <1>2, <3>2, <3>3
  <2>3. ASSUME NEW j \in Slots, NEW k \in Keys, NEW taken \in SUBSET Done,
               NEW advice \in 0..MaxRevision, Dispatch(j, k, taken, advice)
        PROVE  j = i
    <3>1. Len(row) + 1 \in 0..MaxRows /\ Prepare(j, k, taken, advice, Len(row) + 1)
      BY <1>1, <2>3, SessionIs, EvidenceAssumption DEF Dispatch
    <3>2. \A q \in Slots : q # j => scope'[q].inflight = scope[q].inflight
      BY <1>1, <3>1, PrepareDoes
    <3> QED  BY <1>2, <3>2
  <2>4. ASSUME NEW j \in Slots, NEW complete, NEW tools, Finish(j, complete, tools)
        PROVE  FALSE
    <3>1. scope' = [scope EXCEPT ![j].inflight = FALSE, ![j].boundary = tools, ![j].advised = 0]
      BY <2>4 DEF Finish
    <3>2. scope'[j].inflight = FALSE /\ (i # j => scope'[i] = scope[i])
      BY <1>1, <3>1 DEF Scope
    <3> QED  BY <1>2, <3>2
  <2>5. ASSUME NEW j \in Slots, NEW ev \in Events, Ingest(j, ev)
        PROVE  FALSE
    <3>1. scope' = [scope EXCEPT ![j] = Hears(j, ev)]
          \/ scope' = [scope EXCEPT ![j] = Told(scope[j], ev)]
      BY <2>5 DEF Ingest, IngestLoss, IngestRefused, IngestInexact, IngestAccepted
    <3>2. scope'[i].inflight = scope[i].inflight
      BY <1>1, <3>1, HearsIs, ToldIs
    <3> QED  BY <1>2, <3>2
  <2>6. ASSUME NEW taken \in SUBSET Done, Poll(taken)
        PROVE  FALSE
    <3>1. scope'[i].inflight = scope[i].inflight
      BY <1>1, <2>6, AdvisedIs DEF Poll
    <3> QED  BY <1>2, <3>1
  <2>7. ASSUME Time \/ (\E j \in Job : Answer(j))
        PROVE  FALSE
    <3>1. scope' = scope
      BY <2>7 DEF Time, ExpireRow, ReclaimRow, ExpireSnapshot, ForgetTombstone, WindowEnds,
                  LoseElsewhere, Answer
    <3> QED  BY <1>2, <3>1
  <2> QED  BY <2>1, <2>2, <2>3, <2>4, <2>5, <2>6, <2>7 DEF Next, Session
<1>4. Len(row) + 1 \in 0..MaxRows /\ Prepare(i, k, taken, advice, Len(row) + 1)
  BY <1>1, <1>3, SessionIs, EvidenceAssumption DEF Dispatch
<1>5. advice = v
  <2>1. scope'[i].advised = advice
    BY <1>1, <1>4, PrepareDoes
  <2> QED  BY <1>2, <2>1
<1>6. scope[i].gen # 0 /\ v = Advice(i, k, taken)
  BY <1>2, <1>4, <1>5 DEF Prepare
<1>7. /\ Usable(Advised(taken)[i], Interpreted(taken))
      /\ v = Advised(taken)[i].advice
  BY <1>2, <1>6 DEF Advice
<1>8. /\ Advised(taken)[i].evidence = scope[i].evidence /\ Advised(taken)[i].last = scope[i].last
      /\ v = scope[i].advice \/ Landed(i, v)
  BY <1>1, <1>7, AdvisedIs
<1>9. scope[i].evidence = scope[i].last /\ Exact(row, scope[i].evidence)
  BY <1>7, <1>8 DEF Usable
<1>10. v = scope[i].revision /\ fate[[gen |-> scope[i].gen, revision |-> v]].is = "valid"
  <2>1. Rests(i)
    BY <1>6 DEF Inv, AdviceRests, Open
  <2> QED  BY <1>2, <1>8, <2>1 DEF Rests, Landed
<1> QED  BY <1>6, <1>9, <1>10

(* A newer event revokes older advice, whether it was accepted or refused  *)
(* and even if the answer to the older question lands after it: ingest     *)
(* drops the session's evidence before it judges the event, and an answer  *)
(* lands only on evidence.                                                 *)
THEOREM OlderWordIsRevoked == Spec => NewerWordRevokes
<1>1. ASSUME Inv, Next, NEW i \in Slots, NEW v \in 1..MaxRevision, Placed(i, v),
             NEW e \in superseded, e.gen = scope[i].gen
      PROVE  e.revision # v
  <2>1. scope[i].gen # 0 /\ v = scope[i].revision /\ scope[i].evidence # 0
    BY <1>1, PlacedIs DEF Exact
  <2>2. Rests(i)
    BY <1>1, <2>1 DEF Inv, AdviceRests, Open
  <2> QED  BY <1>1, <2>1, <2>2 DEF Rests
<1>2. Inv /\ [Next]_vars =>
        [\A i \in Slots, v \in 1..MaxRevision :
            Placed(i, v) => \A e \in superseded : e.gen = scope[i].gen => e.revision # v]_vars
  BY <1>1
<1> QED  BY <1>2, Invariant, PTL DEF Spec, NewerWordRevokes

(* Advice is used only for the exchange right after the one it is about,   *)
(* and only while that one's attempt cannot be taken for another.          *)
THEOREM AdviceFollows == Spec => AdviceIsAboutLastTurn
<1> DEFINE About(i, v) ==
        /\ \E e \in told : e.gen = scope[i].gen /\ e.revision = v /\ e.row = scope[i].last
        /\ fate[[gen |-> scope[i].gen, revision |-> v]].is = "valid"
        /\ \A r \in DOMAIN row : row[r].key = row[scope[i].last].key => r = scope[i].last
<1>1. ASSUME Inv, Next, NEW i \in Slots, NEW v \in 1..MaxRevision, Placed(i, v)
      PROVE  About(i, v)
  <2>1. /\ scope[i].gen # 0 /\ v = scope[i].revision
        /\ fate[[gen |-> scope[i].gen, revision |-> v]].is = "valid"
        /\ scope[i].evidence = scope[i].last /\ Exact(row, scope[i].evidence)
    BY <1>1, PlacedIs
  <2>2. Rests(i)
    BY <1>1, <2>1 DEF Inv, AdviceRests, Open
  <2>3. \E e \in told : e.gen = scope[i].gen /\ e.revision = v /\ e.row = scope[i].last
    BY <2>1, <2>2 DEF Rests, Exact
  <2>4. \A r \in DOMAIN row : row[r].key = row[scope[i].last].key => r = scope[i].last
    BY <2>1 DEF Exact
  <2> QED  BY <2>1, <2>3, <2>4
<1>2. Inv /\ [Next]_vars => [\A i \in Slots, v \in 1..MaxRevision : Placed(i, v) => About(i, v)]_vars
  BY <1>1
<1> QED  BY <1>2, Invariant, PTL DEF Spec, AdviceIsAboutLastTurn
=============================================================================
