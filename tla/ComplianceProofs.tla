--------------------------- MODULE ComplianceProofs ---------------------------
(***************************************************************************)
(* Theorems about the M2 gate, for every set of reasoning elements and     *)
(* their sizes, every bound on the record and the scan, every set of       *)
(* candidates and any number of failovers.                                 *)
(***************************************************************************)
EXTENDS Compliance, SequenceTheorems, WellFoundedInduction, TLAPS

(* The clearance an object needs to be with a public provider. *)
Cleared(b) ==
    /\ policy # "closed" /\ ~b.odd
    /\ b.replay \subseteq said
    /\ b.provider # "other" /\ b.added # "opaque"
    /\ policy = "scan" => ~b.match /\ 1 + b.nodes + AddedNodes(b) + VaryingNodes(b) <= Budget

Memo == [active: BOOLEAN, content: BOOLEAN, structure: BOOLEAN, nodes: Nat]

(* Types, the parts the verdicts depend on. *)
Typed ==
    /\ policy \in {"closed", "structure", "scan"}
    /\ ring \in Seq(Elements)
    /\ asked \in Body /\ body \in Body
    /\ memo \in Memo
    /\ to \in Candidates

(* What was recorded was said by a public candidate. *)
RecordIsPublic == ToSet(ring) \subseteq said

(* The memo speaks of the object that was asked for: of its text from the  *)
(* first reading, of its structure once active, and what it vouched for    *)
(* then, though the record may have forgotten it since, was said.          *)
MemoIsTrue ==
    /\ memo.content => policy = "scan" /\ ~asked.match
    /\ phase = "scanned" /\ policy = "scan" => memo.nodes = 1 + asked.nodes
    /\ phase # "ready" => ~memo.active
    /\ phase \notin {"scanned", "ready"} => memo = NoMemo
    /\ memo.active => /\ policy = "scan" /\ memo.nodes = 1 + asked.nodes
                      /\ memo.structure => ~asked.odd /\ asked.replay \subseteq said

Inv == Typed /\ RecordIsPublic /\ MemoIsTrue /\ PublicIsCleared

-----------------------------------------------------------------------------
(* Forgetting the oldest leaves a suffix: it invents no element. *)
LEMMA NewestIsSuffix ==
    ASSUME NEW r \in Seq(Elements), NEW e \in Elements
    PROVE  Newest(r, e) \in Seq(Elements) /\ ToSet(Newest(r, e)) \subseteq ToSet(r)
<1> DEFINE Enough(k) == k = Len(r) + 1 \/ Fits(SubSeq(r, k, Len(r)), e)
           All == 1..(Len(r) + 1)
           T == {k \in All : Enough(k)}
<1>1. Len(r) \in Nat
  OBVIOUS
<1>2. T \subseteq Nat /\ Len(r) + 1 \in T
  BY <1>1
<1>3. \E k \in T : \A j \in T : ~(<<j, k>> \in OpToRel(<, Nat))
  <2> HIDE DEF T
  <2> QED  BY <1>2, WFMin, NatLessThanWellFounded
<1>4. PICK k \in T : \A j \in T : ~(<<j, k>> \in OpToRel(<, Nat))
  BY <1>3
<1>5. \A j \in T : k <= j
  <2>1. ASSUME NEW x \in Nat, NEW y \in Nat, x < y  PROVE <<x, y>> \in OpToRel(<, Nat)
    BY <2>1 DEF OpToRel
  <2>2. \A j \in T : ~(j < k)
    <3> HIDE DEF T
    <3> QED  BY <1>2, <1>4, <2>1
  <2> QED  BY <1>2, <2>2
<1>6. \E m \in All : Enough(m) /\ \A j \in All : Enough(j) => m <= j
  BY <1>4, <1>5
<1>7. PICK m \in All : Newest(r, e) = SubSeq(r, m, Len(r))
  BY <1>6 DEF Newest
<1>8. QED
  BY <1>1, <1>7 DEF ToSet

(* Recording an element adds that element at most. *)
LEMMA RememberedAddsOne ==
    ASSUME NEW r \in Seq(Elements), NEW e \in Elements
    PROVE  Remembered(r, e) \in Seq(Elements) /\ ToSet(Remembered(r, e)) \subseteq ToSet(r) \cup {e}
<1>1. Newest(r, e) \in Seq(Elements) /\ ToSet(Newest(r, e)) \subseteq ToSet(r)
  BY NewestIsSuffix
<1> DEFINE n == Newest(r, e)
<1>2. Append(n, e) \in Seq(Elements) /\ ToSet(Append(n, e)) \subseteq ToSet(n) \cup {e}
  <2> HIDE DEF n
  <2> QED  BY <1>1 DEF ToSet, n
<1>3. QED
  BY <1>1, <1>2 DEF Remembered

-----------------------------------------------------------------------------
(* A body judged clean afresh is cleared, given that the record is public. *)
LEMMA FreshVerdictClears ==
    ASSUME NEW b \in Body, NEW c, RecordIsPublic, policy # "closed", FullVerdict(b, c)
    PROVE  Cleared(b)
<1>1. b.replay \subseteq said
  BY DEF FullVerdict, StructureClean, Known, RecordIsPublic
<1>2. ~b.odd /\ b.added # "opaque" /\ b.provider # "other"
  BY DEF FullVerdict, StructureClean, ControlsClean
<1>3. ASSUME policy = "scan"  PROVE ~b.match /\ 1 + b.nodes + AddedNodes(b) + VaryingNodes(b) <= Budget
  BY <1>3, ComplianceAssumption DEF FullVerdict, TextClean, AddedNodes, VaryingNodes, Body
<1>4. QED
  BY <1>1, <1>2, <1>3 DEF Cleared

(* So is a body judged from the memo, of the object the memo speaks of.    *)
LEMMA MemoVerdictClears ==
    ASSUME NEW b \in Body, NEW c, Typed, MemoIsTrue, memo.active, policy # "closed",
           b.match = asked.match, b.odd = asked.odd, b.nodes = asked.nodes,
           b.replay = asked.replay, MemoMatches(b), MemoVerdict(b, c)
    PROVE  Cleared(b)
<1>1. policy = "scan" /\ memo.nodes = 1 + asked.nodes /\ ~b.odd /\ b.replay \subseteq said /\ ~b.match
  BY DEF MemoIsTrue, MemoVerdict
<1>2. b.added # "opaque" /\ b.provider # "other"
  BY DEF MemoVerdict, ControlsClean
<1>3. 1 + b.nodes + AddedNodes(b) + VaryingNodes(b) <= Budget
  BY <1>1, ComplianceAssumption DEF MemoVerdict, MemoMatches, Resumed, AddedNodes, VaryingNodes, Body
<1>4. QED
  BY <1>1, <1>2, <1>3 DEF Cleared

(* What the gate lets out to a public candidate is cleared, whether it     *)
(* judged from the memo or afresh.                                         *)
LEMMA GateClears ==
    ASSUME NEW b \in Body, NEW c \in Candidates, Typed, RecordIsPublic, MemoIsTrue,
           memo.active => /\ b.match = asked.match /\ b.odd = asked.odd
                          /\ b.nodes = asked.nodes /\ b.replay = asked.replay
    PROVE  /\ Gate(b, c).to \in Candidates /\ Gate(b, c).body \in Body
           /\ Gate(b, c).to \in Public => Cleared(Gate(b, c).body) /\ Cleared(b)
<1> DEFINE d == Decorated(b, c)
           u == Restored(b, c)
<1>1. /\ d \in Body
      /\ d.match = b.match /\ d.odd = b.odd /\ d.nodes = b.nodes /\ d.replay = b.replay
      /\ u \in Body
  BY DEF Decorated, Restored, Body
<1>2. ASSUME NEW x \in {b, d}, policy # "closed", Verdict(x, c)  PROVE Cleared(x)
  <2>1. x \in Body
    BY <1>1
  <2>2. CASE MemoMatches(x)
    <3>1. MemoVerdict(x, c)
      BY <1>2, <2>2 DEF Verdict
    <3>2. x.match = asked.match /\ x.odd = asked.odd /\ x.nodes = asked.nodes /\ x.replay = asked.replay
      BY <1>1, <2>2 DEF MemoMatches
    <3>3. QED
      BY <1>2, <2>1, <2>2, <3>1, <3>2, MemoVerdictClears DEF MemoMatches
  <2>3. CASE ~MemoMatches(x)
    BY <1>2, <2>1, <2>3, FreshVerdictClears DEF Verdict
  <2>4. QED
    BY <2>2, <2>3
<1>3. PrivateModel \in Candidates /\ PrivateModel \notin Public
  BY ComplianceAssumption
<1> HIDE DEF d, u
<1>4. QED
  BY <1>1, <1>2, <1>3 DEF Gate, d, u

-----------------------------------------------------------------------------
(* The invariant holds initially. *)
LEMMA InvInit == Init => Inv
<1> SUFFICES ASSUME Init PROVE Inv
  OBVIOUS
<1>1. Typed
  BY ComplianceAssumption DEF Init, Typed, Body, Nothing, Memo, NoMemo
<1>2. RecordIsPublic
  BY DEF Init, RecordIsPublic, ToSet
<1>3. MemoIsTrue /\ PublicIsCleared
  BY DEF Init, MemoIsTrue, NoMemo, PublicIsCleared, Exposed
<1>4. QED
  BY <1>1, <1>2, <1>3 DEF Inv

(* Recording more public reasoning only ever widens what is cleared. *)
LEMMA RecordStep ==
    ASSUME Inv, NEW e \in Elements, ring' = Remembered(ring, e), said' = said \cup {e}
    PROVE  ring' \in Seq(Elements) /\ RecordIsPublic'
BY RememberedAddsOne DEF Inv, Typed, RecordIsPublic

(* At the end of a request nothing is exposed and no memo is left. *)
LEMMA OverStep ==
    ASSUME Inv, Over, policy' = policy, ring' \in Seq(Elements), RecordIsPublic'
    PROVE  Inv'
<1>1. Typed'
  BY ComplianceAssumption DEF Inv, Typed, Over, Body, Nothing, Memo, NoMemo
<1>2. MemoIsTrue' /\ PublicIsCleared'
  BY DEF Over, MemoIsTrue, NoMemo, PublicIsCleared, Exposed
<1>3. QED
  BY <1>1, <1>2 DEF Inv

(* Every step of the request, and of the others, keeps the invariant. *)
LEMMA InvStep == Inv /\ [Next]_vars => Inv'
<1> SUFFICES ASSUME Inv, [Next]_vars  PROVE Inv'
  OBVIOUS
<1> USE DEF Inv
<1>1. CASE UNCHANGED vars
  BY <1>1 DEF vars, Typed, RecordIsPublic, MemoIsTrue, PublicIsCleared, Exposed, AddedNodes, VaryingNodes
<1>2. ASSUME NEW b \in Body, Ask(b)  PROVE Inv'
  <2>1. Typed' /\ RecordIsPublic'
    BY <1>2 DEF Ask, Typed, RecordIsPublic
  <2>2. MemoIsTrue'
    <3>1. memo' = NoMemo /\ phase' = "asked"
      BY <1>2 DEF Ask, MemoIsTrue
    <3>2. QED
      BY <3>1 DEF MemoIsTrue, NoMemo
  <2>3. PublicIsCleared'
    BY <1>2 DEF Ask, PublicIsCleared, Exposed
  <2>4. QED
    BY <2>1, <2>2, <2>3
<1>3. CASE MemoContent
  <2> DEFINE t == TextClean(asked) /\ 1 + asked.nodes <= Budget
             n == 1 + asked.nodes
  <2>1. Typed' /\ RecordIsPublic'
    <3>1. t \in BOOLEAN
      BY Zenon DEF TextClean
    <3>2. n \in Nat
      BY ComplianceAssumption DEF Typed, Body
    <3>3. NoMemo \in Memo
      BY DEF NoMemo, Memo
    <3>4. memo' \in Memo
      <4>1. memo' = IF policy = "scan" THEN [NoMemo EXCEPT !.content = t, !.nodes = n] ELSE NoMemo
        BY <1>3, Zenon DEF MemoContent
      <4> HIDE DEF t, n
      <4>2. QED
        BY <3>1, <3>2, <3>3, <4>1 DEF Memo
    <3>5. QED
      BY <1>3, <3>4 DEF MemoContent, Typed, RecordIsPublic
  <2>2. MemoIsTrue' /\ PublicIsCleared'
    BY <1>3 DEF MemoContent, Typed, MemoIsTrue, NoMemo, TextClean, PublicIsCleared, Exposed
  <2>3. QED
    BY <2>1, <2>2
<1>4. CASE MemoStructure
  <2> DEFINE t == StructureClean(asked)
  <2>1. Typed' /\ RecordIsPublic'
    <3>1. t \in BOOLEAN
      BY Zenon DEF StructureClean
    <3>2. NoMemo \in Memo
      BY DEF NoMemo, Memo
    <3>3. memo' \in Memo
      <4>1. memo' = IF policy = "scan" THEN [memo EXCEPT !.structure = t, !.active = TRUE] ELSE NoMemo
        BY <1>4, Zenon DEF MemoStructure
      <4> HIDE DEF t
      <4>2. QED
        BY <3>1, <3>2, <4>1 DEF Memo, Typed
    <3>4. QED
      BY <1>4, <3>3 DEF MemoStructure, Typed, RecordIsPublic
  <2>2. t => ~asked.odd /\ asked.replay \subseteq said
    BY DEF StructureClean, Known, RecordIsPublic
  <2>3. MemoIsTrue'
    <3>1. CASE policy = "scan"
      <4>1. /\ memo'.active /\ memo'.structure = t /\ memo'.content = memo.content
            /\ memo'.nodes = memo.nodes
        <5> HIDE DEF t
        <5> QED  BY <1>4, <3>1 DEF MemoStructure, Typed, Memo, t
      <4> HIDE DEF t
      <4>2. QED
        BY <1>4, <2>2, <3>1, <4>1 DEF MemoStructure, MemoIsTrue
    <3>2. CASE policy # "scan"
      BY <1>4, <3>2 DEF MemoStructure, MemoIsTrue, NoMemo
    <3>3. QED
      BY <3>1, <3>2
  <2>4. PublicIsCleared'
    BY <1>4 DEF MemoStructure, PublicIsCleared, Exposed
  <2>5. QED
    BY <2>1, <2>3, <2>4
<1>5. CASE Dispatch
  <2>1. PICK c \in Candidates, added \in {"none", "plain", "opaque"} :
          LET g == Gate([asked EXCEPT !.added = added], c) IN to' = g.to /\ body' = g.body
    BY <1>5 DEF Dispatch
  <2> DEFINE b == [asked EXCEPT !.added = added]
  <2>2. /\ b \in Body /\ b.match = asked.match /\ b.odd = asked.odd
        /\ b.nodes = asked.nodes /\ b.replay = asked.replay
    BY DEF Typed, Body
  <2>3. /\ to' \in Candidates /\ body' \in Body
        /\ to' \in Public => Cleared(body')
    <3> HIDE DEF b
    <3> QED  BY <2>1, <2>2, GateClears DEF b
  <2>4. Typed' /\ RecordIsPublic' /\ MemoIsTrue'
    BY <1>5, <2>3 DEF Dispatch, Typed, RecordIsPublic, MemoIsTrue, Memo, NoMemo
  <2>5. PublicIsCleared'
    BY <1>5, <2>3 DEF Dispatch, PublicIsCleared, Exposed, Cleared, AddedNodes, VaryingNodes
  <2>6. QED
    BY <2>4, <2>5
<1>6. CASE Refuse
  BY <1>6, OverStep DEF Refuse, Typed, RecordIsPublic
<1>7. CASE Failover
  <2> DEFINE b == [body EXCEPT !.added = "none"]
  <2>1. PICK c \in Candidates : Permits(b, c) /\ to' = c /\ body' = b
    BY <1>7 DEF Failover
  <2>2. ~memo.active /\ b \in Body
    BY <1>7 DEF Failover, MemoIsTrue, Typed, Body
  <2>3. c \in Public => Cleared(b)
    <3> HIDE DEF b
    <3> QED  BY <2>1, <2>2, GateClears DEF Permits
  <2>4. Typed' /\ RecordIsPublic' /\ MemoIsTrue'
    BY <1>7, <2>1, <2>2 DEF Failover, Typed, RecordIsPublic, MemoIsTrue
  <2>5. PublicIsCleared'
    <3> HIDE DEF b
    <3> QED  BY <1>7, <2>1, <2>3 DEF Failover, PublicIsCleared, Exposed, Cleared, AddedNodes, VaryingNodes
  <2>6. QED
    BY <2>4, <2>5
<1>8. CASE Finish
  <2>1. ring' \in Seq(Elements) /\ RecordIsPublic'
    BY <1>8, RecordStep DEF Finish, Typed, RecordIsPublic
  <2>2. QED
    BY <1>8, <2>1, OverStep DEF Finish
<1>9. CASE Others
  <2>1. ring' \in Seq(Elements) /\ RecordIsPublic' /\ said \subseteq said'
    BY <1>9, RecordStep DEF Others
  <2>2. Typed' /\ MemoIsTrue'
    BY <1>9, <2>1 DEF Others, Typed, MemoIsTrue
  <2>3. PublicIsCleared'
    BY <1>9, <2>1 DEF Others, PublicIsCleared, Exposed, AddedNodes, VaryingNodes
  <2>4. QED
    BY <2>1, <2>2, <2>3
<1>10. QED
  BY <1>1, <1>2, <1>3, <1>4, <1>5, <1>6, <1>7, <1>8, <1>9 DEF Next

(* Whatever the record has learnt and forgotten, whichever destination is  *)
(* tried and however often a request fails over, what is with a public     *)
(* provider was cleared for it (classifier.c, rc_compliance_gate).         *)
THEOREM Clearance == Spec => []PublicIsCleared
<1>1. Inv => PublicIsCleared
  BY DEF Inv
<1>2. QED
  BY InvInit, InvStep, <1>1, PTL DEF Spec

(* The record holds public reasoning only, so replaying one of its values  *)
(* to a public destination discloses nothing new (provenance.h).           *)
THEOREM RecordHoldsPublic == Spec => []RecordIsPublic
<1>1. Inv => RecordIsPublic
  BY DEF Inv
<1>2. QED
  BY InvInit, InvStep, <1>1, PTL DEF Spec

-----------------------------------------------------------------------------
(* What the memo says of an object without replayed reasoning, exactly.    *)
MemoIsExact ==
    /\ asked.added = "none" /\ asked.cache # "set"
    /\ asked.replay = {} =>
        /\ (phase = "scanned" /\ policy = "scan") \/ memo.active =>
              (memo.content <=> ~asked.match /\ 1 + asked.nodes <= Budget)
        /\ memo.active => (memo.structure <=> ~asked.odd)

(* Without replayed reasoning the record decides nothing.                  *)
LEMMA NoReplay ==
    ASSUME NEW b, b.replay = {}
    PROVE  (TextClean(b) <=> ~b.match) /\ (StructureClean(b) <=> ~b.odd)
BY DEF TextClean, StructureClean, Known

LEMMA OverIsExact == Over => MemoIsExact'
BY DEF Over, MemoIsExact, Nothing, NoMemo

LEMMA ExactStep == Inv /\ MemoIsExact /\ [Next]_vars => MemoIsExact'
<1> SUFFICES ASSUME Inv, MemoIsExact, [Next]_vars  PROVE MemoIsExact'
  OBVIOUS
<1>1. ASSUME UNCHANGED <<policy, phase, asked, memo>>  PROVE MemoIsExact'
  BY <1>1 DEF MemoIsExact
<1>2. ASSUME NEW b \in {x \in Body : x.added = "none" /\ x.cache # "set"}, Ask(b)
      PROVE  MemoIsExact'
  BY <1>2 DEF Ask, MemoIsExact, Inv, MemoIsTrue, NoMemo
<1>3. CASE MemoContent
  <2> DEFINE t == TextClean(asked) /\ 1 + asked.nodes <= Budget
             n == 1 + asked.nodes
  <2>1. /\ memo' = IF policy = "scan" THEN [NoMemo EXCEPT !.content = t, !.nodes = n] ELSE NoMemo
        /\ UNCHANGED <<policy, asked>>
    BY <1>3, Zenon DEF MemoContent
  <2>2. asked.replay = {} => (t <=> ~asked.match /\ 1 + asked.nodes <= Budget)
    BY NoReplay
  <2>3. t \in BOOLEAN
    BY Zenon DEF TextClean
  <2> HIDE DEF t, n
  <2>4. ~memo'.active /\ (policy = "scan" => memo'.content = t)
    BY <2>1, <2>3 DEF NoMemo
  <2> QED  BY <2>1, <2>2, <2>4 DEF MemoIsExact
<1>4. CASE MemoStructure
  <2> DEFINE t == StructureClean(asked)
  <2>1. /\ memo' = IF policy = "scan" THEN [memo EXCEPT !.structure = t, !.active = TRUE] ELSE NoMemo
        /\ phase = "scanned" /\ phase' = "ready" /\ UNCHANGED <<policy, asked>>
    BY <1>4, Zenon DEF MemoStructure
  <2>2. asked.replay = {} => (t <=> ~asked.odd)
    BY NoReplay
  <2> HIDE DEF t
  <2>3. memo \in Memo
    BY DEF Inv, Typed
  <2>4. /\ policy = "scan" => memo'.structure = t /\ memo'.content = memo.content
        /\ policy # "scan" => ~memo'.active
    BY <2>1, <2>3 DEF Memo, NoMemo
  <2> QED  BY <2>1, <2>2, <2>4 DEF MemoIsExact
<1>5. CASE Dispatch
  BY <1>5 DEF Dispatch, MemoIsExact, NoMemo
<1>6. CASE Refuse \/ Finish
  BY <1>6, OverIsExact DEF Refuse, Finish
<1>7. CASE Failover \/ Others
  BY <1>1, <1>7 DEF Failover, Others
<1>8. CASE UNCHANGED vars
  BY <1>1, <1>8 DEF vars
<1> QED  BY <1>2, <1>3, <1>4, <1>5, <1>6, <1>7, <1>8 DEF Next

(* Judging from the memo and judging afresh agree on an object that        *)
(* replays no reasoning, to the last node of the scan's budget: what the   *)
(* memo leaves out of its count and adds again cancels (rc_compliance_gate *)
(* with an active memo, classifier.c).                                     *)
THEOREM MemoAgrees == Spec => []MemoIsFaithful
<1>1. Init => MemoIsExact
  BY DEF Init, MemoIsExact, Nothing, NoMemo
<1>2. Inv /\ MemoIsExact => MemoIsFaithful
  <2> SUFFICES ASSUME Inv, MemoIsExact, memo.active, asked.replay = {}, NEW c \in Candidates,
                      NEW b \in {asked, Decorated(asked, c)}, MemoMatches(b)
               PROVE  MemoVerdict(b, c) <=> FullVerdict(b, c)
    BY DEF MemoIsFaithful
  <2>1. /\ b.match = asked.match /\ b.odd = asked.odd /\ b.nodes = asked.nodes
        /\ b.replay = {}
    BY DEF Decorated, Inv, Typed, Body
  <2>2. asked.nodes \in Nat /\ Budget \in Nat /\ VaryingNodes(b) \in {0, 1} /\ AddedNodes(b) = 0
    BY ComplianceAssumption DEF Inv, Typed, Body, VaryingNodes, AddedNodes, MemoMatches
  <2>3. (TextClean(b) <=> ~asked.match) /\ (StructureClean(b) <=> ~asked.odd)
    BY <2>1, NoReplay
  <2>4. /\ policy = "scan" /\ memo.nodes = 1 + asked.nodes
        /\ memo.content <=> ~asked.match /\ 1 + asked.nodes <= Budget
        /\ memo.structure <=> ~asked.odd
    BY DEF Inv, MemoIsTrue, MemoIsExact
  <2>5. Resumed + 1 + VaryingNodes(b) = 1 + b.nodes + AddedNodes(b) + VaryingNodes(b)
    BY <2>1, <2>2, <2>4 DEF Resumed
  <2>6. 1 + b.nodes + AddedNodes(b) + VaryingNodes(b) <= Budget => 1 + asked.nodes <= Budget
    BY <2>1, <2>2
  <2> QED  BY <2>3, <2>4, <2>5, <2>6 DEF MemoVerdict, FullVerdict
<1> QED  BY InvInit, InvStep, ExactStep, <1>1, <1>2, PTL DEF Spec
=============================================================================
