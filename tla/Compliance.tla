------------------------------ MODULE Compliance ------------------------------
(***************************************************************************)
(* The M2 gate: core/src/compliance/classifier.c, the record of public     *)
(* reasoning it consults (provenance.c) and the request decoration of a    *)
(* destination's adapter (providers/adapters.c), along the path of one     *)
(* request through the gateway: scanned once before the gateway's lock,    *)
(* gated under it, dispatched, perhaps failed over, finished.  The other   *)
(* requests meanwhile add public reasoning to the record, which forgets    *)
(* the oldest.                                                             *)
(*                                                                         *)
(* Abstracted: a body's text is whether a rule matches it and how much of  *)
(* the scan budget it takes; its structure, whether M2 can inspect it; the *)
(* order of the scan.  Which candidate is tried is a free choice.          *)
(***************************************************************************)
EXTENDS Naturals, Sequences, FiniteSets, SequencesExt

CONSTANTS
    Elements,      \* values of reasoning_details elements
    Marked,        \* those whose text a rule matches
    Bytes,         \* their sizes
    Entries,       \* PROVENANCE_ENTRIES
    MaxBytes,      \* PROVENANCE_BYTES
    Budget,        \* MAX_NODES, the scan's budget
    Candidates,
    Public,        \* candidates in the public trust class
    Decorating,    \* candidates behind the OpenRouter adapter
    Caching,       \* those of an Anthropic model
    PrivateModel,
    MaxRetries     \* bound: failovers of one request

ASSUME ComplianceAssumption ==
    /\ IsFiniteSet(Elements) /\ Marked \subseteq Elements /\ Bytes \in [Elements -> Nat]
    /\ Entries \in Nat \ {0} /\ MaxBytes \in Nat /\ Budget \in Nat /\ MaxRetries \in Nat
    /\ Public \subseteq Candidates /\ Caching \subseteq Decorating
    /\ Decorating \subseteq Candidates
    /\ PrivateModel \in Candidates \ Public

VARIABLES
    policy,   \* "closed": nothing public; "structure": content scanning off; "scan"
    ring,     \* the record of public reasoning, oldest first
    said,     \* history: every element a public candidate has put out
    phase,
    asked,    \* the request as the client sent it
    memo,     \* the thread's memo of its scan
    to, body, \* the destination and the object as dispatched
    attempt

vars == <<policy, ring, said, phase, asked, memo, to, body, attempt>>

(* provider: the client's provider controls, absent, only allow_fallbacks  *)
(* (true: "open", false: "pinned"), or anything else.  added: the effort   *)
(* field the router adds for a step, inspectable or not.  cache: the       *)
(* breakpoint decoration may add to a conversation that continues without  *)
(* one of its own.                                                         *)
Body ==
    [match: BOOLEAN, odd: BOOLEAN, nodes: 0..Budget, replay: SUBSET Elements,
     provider: {"absent", "open", "pinned", "other"}, added: {"none", "plain", "opaque"},
     cache: {"no", "may", "set"}]

Nothing == [match |-> FALSE, odd |-> FALSE, nodes |-> 0, replay |-> {},
            provider |-> "absent", added |-> "none", cache |-> "no"]

NoMemo == [active |-> FALSE, content |-> FALSE, structure |-> FALSE, nodes |-> 0]

Load(r) == FoldSeq(LAMBDA e, acc : Bytes[e] + acc, 0, r)

TypeOK ==
    /\ policy \in {"closed", "structure", "scan"}
    /\ Len(ring) <= Entries /\ Load(ring) <= MaxBytes /\ IsInjective(ring)
    /\ said \subseteq Elements
    /\ phase \in {"idle", "asked", "scanned", "ready", "sent"}
    /\ asked \in Body /\ body \in Body
    /\ memo \in [active: BOOLEAN, content: BOOLEAN, structure: BOOLEAN, nodes: 0..(Budget + 1)]
    /\ to \in Candidates
    /\ attempt \in 0..MaxRetries

-----------------------------------------------------------------------------
(* The record. *)

Fits(r, e) == Len(r) < Entries /\ Load(r) + Bytes[e] <= MaxBytes

(* What is left of the record when the oldest are forgotten until e fits,  *)
(* or none is left.                                                        *)
Newest(r, e) ==
    LET Enough(k) == k = Len(r) + 1 \/ Fits(SubSeq(r, k, Len(r)), e)
        from == CHOOSE k \in 1..(Len(r) + 1) :
                  Enough(k) /\ \A j \in 1..(Len(r) + 1) : Enough(j) => k <= j
    IN SubSeq(r, from, Len(r))

Remembered(r, e) ==
    IF Bytes[e] > MaxBytes \/ e \in ToSet(r) THEN r ELSE Append(Newest(r, e), e)

(* Every element of a replayed array is recorded. *)
Known(elements) == elements \subseteq ToSet(ring)

-----------------------------------------------------------------------------
(* The verdicts. *)

(* Nodes a scan visits besides the body's own: the controls, the fields    *)
(* added.                                                                  *)
VaryingNodes(b) == IF b.provider = "absent" THEN 0 ELSE 1

AddedNodes(b) == (IF b.added = "none" THEN 0 ELSE 1) + (IF b.cache = "set" THEN 1 ELSE 0)

TextClean(b) == ~b.match /\ (Known(b.replay) \/ b.replay \cap Marked = {})

StructureClean(b) == ~b.odd /\ Known(b.replay)

ControlsClean(b, c) ==
    /\ b.added # "opaque"
    /\ \/ b.provider = "absent"
       \/ b.provider \in {"open", "pinned"} /\ c \in Decorating

FullVerdict(b, c) ==
    /\ policy = "scan" => TextClean(b) /\ 1 + b.nodes + AddedNodes(b) + VaryingNodes(b) <= Budget
    /\ StructureClean(b) /\ ControlsClean(b, c)

MutResumed == memo.nodes

(* A scan that goes on from the memo counts the object's node again. *)
Resumed == memo.nodes - 1

MemoVerdict(b, c) ==
    /\ memo.content /\ Resumed + 1 + VaryingNodes(b) <= Budget
    /\ memo.structure /\ ControlsClean(b, c)

(* The memo holds for a body that differs from the scanned one in nothing  *)
(* but its model and provider.                                             *)
MemoMatches(b) == memo.active /\ b.added = "none" /\ b.cache # "set"

Verdict(b, c) == IF MemoMatches(b) THEN MemoVerdict(b, c) ELSE FullVerdict(b, c)

Decorated(b, c) ==
    [b EXCEPT !.provider = "pinned",
              !.cache = IF @ = "may" /\ c \in Caching THEN "set" ELSE @]

(* Decoration undone: the client's provider controls return, a breakpoint  *)
(* that was added stays.                                                   *)
Restored(b, c) == [Decorated(b, c) EXCEPT !.provider = b.provider]

(* The gate.  A public destination needs a clean object, clean again once  *)
(* decorated; otherwise the object goes to the private model.              *)
Gate(b, c) ==
    IF c \in Public /\ (policy = "closed" \/ ~Verdict(b, c)) THEN [to |-> PrivateModel, body |-> b]
    ELSE IF c \in Public \cap Decorating
         THEN IF Verdict(Decorated(b, c), c) THEN [to |-> c, body |-> Decorated(b, c)]
              ELSE [to |-> PrivateModel, body |-> Restored(b, c)]
         ELSE [to |-> c, body |-> b]

Permits(b, c) == Gate(b, c).to = c

-----------------------------------------------------------------------------
(* One request. *)

Ask(b) ==
    /\ phase = "idle"
    /\ asked' = b /\ phase' = "asked"
    /\ UNCHANGED <<policy, ring, said, memo, to, body, attempt>>

(* The memo's two readings of the record are outside the gateway's lock. *)
MemoContent ==
    /\ phase = "asked"
    /\ memo' = IF policy = "scan"
               THEN [NoMemo EXCEPT !.content = TextClean(asked) /\ 1 + asked.nodes <= Budget,
                                   !.nodes = 1 + asked.nodes]
               ELSE NoMemo
    /\ phase' = "scanned"
    /\ UNCHANGED <<policy, ring, said, asked, to, body, attempt>>

MemoStructure ==
    /\ phase = "scanned"
    /\ memo' = IF policy = "scan"
               THEN [memo EXCEPT !.structure = StructureClean(asked), !.active = TRUE] ELSE NoMemo
    /\ phase' = "ready"
    /\ UNCHANGED <<policy, ring, said, asked, to, body, attempt>>

(* Under the lock: a destination is chosen, perhaps a field added for it,  *)
(* and the object gated; then the memo ends.                               *)
Dispatch ==
    /\ phase = "ready"
    /\ \E c \in Candidates, added \in {"none", "plain", "opaque"} :
         LET g == Gate([asked EXCEPT !.added = added], c) IN to' = g.to /\ body' = g.body
    /\ memo' = NoMemo /\ phase' = "sent"
    /\ UNCHANGED <<policy, ring, said, asked, attempt>>

(* The request is freed, and the memo ended with prepare. *)
Over ==
    /\ phase' = "idle" /\ asked' = Nothing /\ body' = Nothing /\ memo' = NoMemo
    /\ to' = PrivateModel /\ attempt' = 0

(* Refused by another of prepare's checks. *)
Refuse ==
    /\ phase = "ready"
    /\ Over
    /\ UNCHANGED <<policy, ring, said>>

(* A failed exchange moves to a target the gate permits; what the gate     *)
(* looked at was a copy.  The field added for a step goes, what a          *)
(* decoration put in stays.                                                *)
Failover ==
    /\ phase = "sent" /\ attempt < MaxRetries
    /\ LET b == [body EXCEPT !.added = "none"] IN
         \E c \in Candidates \ {to} : Permits(b, c) /\ to' = c /\ body' = b
    /\ attempt' = attempt + 1
    /\ UNCHANGED <<policy, ring, said, phase, asked, memo>>

MutFinish ==
    /\ phase = "sent" /\ Over
    /\ \/ UNCHANGED <<ring, said>>
       \/ \E e \in Elements :
            /\ ring' = Remembered(ring, e)
            /\ said' = IF to \in Public THEN said \cup {e} ELSE said
    /\ UNCHANGED policy

(* The exchange ends.  Reasoning of a public destination is recorded; a    *)
(* private destination's never is.                                         *)
Finish ==
    /\ phase = "sent" /\ Over
    /\ \/ UNCHANGED <<ring, said>>
       \/ /\ to \in Public
          /\ \E e \in Elements : ring' = Remembered(ring, e) /\ said' = said \cup {e}
    /\ UNCHANGED policy

(* Another request ends likewise. *)
Others ==
    /\ \E e \in Elements : ring' = Remembered(ring, e) /\ said' = said \cup {e}
    /\ UNCHANGED <<policy, phase, asked, memo, to, body, attempt>>

Init ==
    /\ policy \in {"closed", "structure", "scan"}
    /\ ring = <<>> /\ said = {} /\ phase = "idle"
    /\ asked = Nothing /\ body = Nothing /\ memo = NoMemo
    /\ to = PrivateModel /\ attempt = 0

Next ==
    \/ \E b \in {x \in Body : x.added = "none" /\ x.cache # "set"} : Ask(b)
    \/ MemoContent \/ MemoStructure \/ Dispatch \/ Refuse
    \/ Failover \/ Finish \/ Others

Spec == Init /\ [][Next]_vars

-----------------------------------------------------------------------------
Exposed == phase = "sent" /\ to \in Public

(* Whatever is with a public provider was cleared: the policy grants it,   *)
(* no rule matches its text, M2 can inspect all of it within its budget,   *)
(* it carries no restriction M2 does not know, and reasoning replayed in   *)
(* it once came from a public provider, however the record changed between *)
(* the memo's readings, the gate and a failover.                           *)
PublicIsCleared ==
    Exposed =>
        /\ policy # "closed" /\ ~body.odd
        /\ body.replay \subseteq said
        /\ body.provider # "other" /\ body.added # "opaque"
        /\ policy = "scan" =>
              ~body.match /\ 1 + body.nodes + AddedNodes(body) + VaryingNodes(body) <= Budget

(* The memo changes no verdict: for a request that replays no reasoning,   *)
(* whose verdict does not depend on the record, judging from the memo and  *)
(* judging afresh agree on every destination, to the last node of budget,  *)
(* before and, where the memo still matches, after decoration.             *)
MemoIsFaithful ==
    phase = "ready" /\ memo.active /\ asked.replay = {} =>
        \A c \in Candidates : \A b \in {asked, Decorated(asked, c)} :
            MemoMatches(b) => (MemoVerdict(b, c) <=> FullVerdict(b, c))

(* "OpenRouter: forbid silent fallback to other upstreams" (adapters.c):   *)
(* everything sent there carries allow_fallbacks=false.                    *)
EgressDecorated ==
    Exposed /\ to \in Decorating => body.provider = "pinned"
=============================================================================
