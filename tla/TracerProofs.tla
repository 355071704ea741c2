----------------------------- MODULE TracerProofs -----------------------------
(***************************************************************************)
(* Theorems about the tracer's counter, what it starts with and the        *)
(* answers it relays, for any number of connections, any cap on them, any  *)
(* documents and limits, requests and answers.                             *)
(***************************************************************************)
EXTENDS Tracer, FiniteSetTheorems, TLAPS

Busy == {c \in Conns : conn[c].phase # "free"}

Shaped == DOMAIN conn = Conns /\ \A c \in Conns : {"phase", "admitted"} \subseteq DOMAIN conn[c]

(* The counter is the number of connections whose thread has not ended.    *)
CounterIsExact == g_active = Cardinality(Busy)

(* Nothing is accepted before the policy is set, and only what is counted  *)
(* is admitted.                                                            *)
Inv ==
    /\ Shaped
    /\ CounterIsExact
    /\ Admitted \subseteq Busy
    /\ running = "starting" => Busy = {}
    /\ running # "starting" => policy.inflight \in Int
    /\ AdmittedWithinLimit

(* What the process was started with stays until Boot has read it.         *)
Started ==
    running = "starting" => start \in [document : Documents, env : Environments, args : Arguments]

-----------------------------------------------------------------------------
(* There are finitely many connections, so their number is a number.       *)
LEMMA BusyIsFinite ==
    /\ IsFiniteSet(Busy) /\ Cardinality(Busy) \in Nat
    /\ \A S \in SUBSET Busy : IsFiniteSet(S) /\ Cardinality(S) \in Nat /\ Cardinality(S) <= Cardinality(Busy)
<1>1. Busy \in SUBSET Conns
  BY DEF Busy
<1>2. IsFiniteSet(Busy)
  BY <1>1, ConnsAssumption, FS_Subset
<1> QED  BY <1>2, FS_Subset, FS_CardinalityType

(* A step of a thread that neither begins nor ends a connection and admits *)
(* nothing.                                                                *)
Steady(c) ==
    /\ Shaped'
    /\ \A d \in Conns \ {c} : conn'[d] = conn[d]
    /\ conn[c].phase # "free" /\ conn'[c].phase # "free"
    /\ conn'[c].admitted = conn[c].admitted
    /\ UNCHANGED <<shared, g_active>>

(* Such a step changes neither count.                                      *)
LEMMA SteadyKeeps ==
    ASSUME Inv, NEW c \in Conns, Steady(c)
    PROVE  Inv'
<1>1. Busy' = Busy
  BY DEF Steady, Busy
<1>2. Admitted' = Admitted
  BY DEF Steady, Admitted
<1>3. UNCHANGED <<auth, policy, running, g_active>> /\ Shaped'
  BY DEF Steady, shared
<1> QED  BY <1>1, <1>2, <1>3 DEF Inv, CounterIsExact, AdmittedWithinLimit

(* A connection ends and gives its slot back.                              *)
LEMMA FreedKeeps ==
    ASSUME Inv, NEW c \in Conns, conn[c].phase # "free", Freed(c), UNCHANGED shared
    PROVE  Inv'
<1>1. /\ DOMAIN conn' = Conns
      /\ conn'[c].phase = "free" /\ conn'[c].admitted = FALSE
      /\ {"phase", "admitted"} \subseteq DOMAIN conn'[c]
      /\ \A d \in Conns \ {c} : conn'[d] = conn[d]
  BY DEF Inv, Shaped, Freed, Idle
<1>2. Shaped'
  BY <1>1 DEF Inv, Shaped
<1>3. Busy' = Busy \ {c} /\ c \in Busy
  BY <1>1 DEF Busy
<1>4. Admitted' = Admitted \ {c}
  BY <1>1 DEF Admitted
<1>5. g_active' = Cardinality(Busy')
  BY <1>3, BusyIsFinite, FS_RemoveElement DEF Inv, CounterIsExact, Freed
<1>6. Cardinality(Admitted') <= Cardinality(Admitted) /\ Cardinality(Admitted) \in Nat /\ Cardinality(Admitted') \in Nat
  <2>1. IsFiniteSet(Admitted)
    BY BusyIsFinite DEF Inv
  <2> QED  BY <2>1, <1>4, FS_Subset, FS_CardinalityType
<1>7. UNCHANGED <<auth, policy, running>>
  BY DEF shared
<1>8. AdmittedWithinLimit'
  <2> SUFFICES ASSUME auth # None, Admitted' # {}  PROVE Cardinality(Admitted') <= policy.inflight
    BY <1>7 DEF AdmittedWithinLimit
  <2>1. Admitted # {}
    BY <1>4
  <2>2. Cardinality(Admitted) <= policy.inflight
    BY <2>1 DEF Inv, AdmittedWithinLimit
  <2>3. policy.inflight \in Int
    BY <1>3 DEF Inv
  <2> QED  BY <1>6, <2>2, <2>3
<1> QED  BY <1>2, <1>3, <1>4, <1>5, <1>7, <1>8 DEF Inv, CounterIsExact

(* A place becomes a connection and the counter goes up with it.           *)
LEMMA AcceptKeeps ==
    ASSUME Inv, NEW c \in Conns, Accept(c)
    PROVE  Inv'
<1>1. Shaped' /\ Admitted' = Admitted
  BY DEF Inv, Shaped, Accept, Admitted
<1>2. Busy' = Busy \cup {c} /\ c \notin Busy
  BY DEF Inv, Shaped, Accept, Busy
<1>3. g_active' = Cardinality(Busy')
  BY <1>2, BusyIsFinite, FS_AddElement DEF Inv, CounterIsExact, Accept
<1>4. UNCHANGED <<auth, policy, running>> /\ running = "up"
  BY DEF Accept, shared
<1> QED  BY <1>1, <1>2, <1>3, <1>4 DEF Inv, CounterIsExact, AdmittedWithinLimit

(* Who is admitted found fewer other connections than the policy allows.   *)
LEMMA AdmissionLeavesRoom ==
    ASSUME Inv, running # "starting", auth # None, NEW q, Admits(q) = "ok"
    PROVE  g_active <= policy.inflight
<1>1. g_active \in Int /\ policy.inflight \in Int
  BY BusyIsFinite DEF Inv, CounterIsExact
<1>2. ~(g_active - 1 >= policy.inflight)
  BY DEF Admits, rc_admit_request
<1> QED  BY <1>1, <1>2

(* A request is refused, or admitted beside the others the counter knows.  *)
LEMMA HandleKeeps ==
    ASSUME Inv, NEW c \in Conns, NEW q, Handle(c, q)
    PROVE  Inv'
<1>1. CASE Refusal(q) # 0
  <2>1. Steady(c)
    BY <1>1 DEF Handle, Ends, Inv, Shaped, Steady
  <2> QED  BY <2>1, SteadyKeeps
<1>2. CASE Refusal(q) = 0
  <2>1. /\ conn' = [conn EXCEPT ![c].phase = "connect", ![c].admitted = TRUE,
                                ![c].left = Length(q), ![c].held = Carried(q)]
        /\ conn[c].phase = "head"
        /\ UNCHANGED <<auth, policy, running, g_active>>
    BY <1>2 DEF Handle, shared
  <2>2. Shaped' /\ Busy' = Busy /\ c \in Busy
    BY <2>1 DEF Inv, Shaped, Busy
  <2>3. Admitted' = Admitted \cup {c}
    BY <2>1 DEF Inv, Shaped, Admitted
  <2>4. Admitted' \subseteq Busy
    BY <2>2, <2>3 DEF Inv
  <2>5. running # "starting"
    BY <2>2 DEF Inv
  <2>6. ASSUME auth # None  PROVE Cardinality(Admitted') <= policy.inflight
    <3>1. Admits(q) = "ok"
      BY <1>2, <2>6 DEF Refusal, DeniedCode
    <3>2. g_active <= policy.inflight
      BY <3>1, <2>5, <2>6, AdmissionLeavesRoom
    <3>3. Cardinality(Admitted') <= g_active /\ Cardinality(Admitted') \in Nat /\ g_active \in Nat
      BY <2>4, BusyIsFinite DEF Inv, CounterIsExact
    <3> QED  BY <3>2, <3>3, <2>5 DEF Inv
  <2> QED  BY <2>1, <2>2, <2>4, <2>5, <2>6 DEF Inv, CounterIsExact, AdmittedWithinLimit
<1> QED  BY <1>1, <1>2

(* The policy is numbers, from the arguments, the document or the build.   *)
LEMMA BootKeeps ==
    ASSUME Inv, start \in [document : Documents, env : Environments, args : Arguments], Boot
    PROVE  Inv'
<1>1. running = "starting" /\ Busy = {} /\ Admitted = {}
  BY DEF Boot, Inv
<1>2. UNCHANGED <<g_active, conn>> /\ running' # "starting"
  BY DEF Boot
<1>3. Shaped' /\ Busy' = {} /\ Admitted' = {}
  BY <1>1, <1>2 DEF Inv, Shaped, Busy, Admitted
<1>4. policy'.inflight \in Int
  <2>1. start.args \in Arguments /\ start.document \in Documents
    OBVIOUS
  <2>2. start.args.inflight = None \/ start.args.inflight \in Int
    BY <2>1, NumbersAssumption
  <2>3. Given(start.args.inflight, DefaultInflight) \in Int
    BY <2>2, NumbersAssumption DEF Given
  <2>4. ASSUME start.document # None, rc_config_load(start.document) # None
        PROVE  Given(start.args.inflight, rc_config_load(start.document).inflight) \in Int
    <3> DEFINE d == start.document
    <3>1. "inflight" \in DOMAIN d /\ (d.inflight = None \/ d.inflight \in Int)
      BY <2>1, <2>4, NumbersAssumption
    <3>2. rc_config_load(d) = bind_root(d)
      BY <2>4 DEF rc_config_load
    <3>3. bind_root(d).inflight = Limit(d.inflight, DefaultInflight)
      BY <3>1 DEF bind_root
    <3>4. Limit(d.inflight, DefaultInflight) \in Int
      BY <3>1, NumbersAssumption DEF Limit
    <3> QED  BY <2>2, <3>2, <3>3, <3>4 DEF Given
  <2> QED  BY <2>3, <2>4 DEF Boot
<1> QED  BY <1>1, <1>2, <1>3, <1>4 DEF Inv, CounterIsExact, AdmittedWithinLimit

-----------------------------------------------------------------------------
(* Every step keeps the counter exact and the admitted within the limit.   *)
LEMMA StepKeeps ==
    ASSUME Inv, Started, [Next]_vars
    PROVE  Inv'
<1>1. CASE Boot
  BY <1>1, BootKeeps DEF Started, Boot
<1>2. ASSUME NEW c \in Conns, Accept(c)  PROVE Inv'
  BY <1>2, AcceptKeeps
<1>3. ASSUME NEW c \in Conns, NEW q \in Requests, Handle(c, q)  PROVE Inv'
  BY <1>3, HandleKeeps
<1>4. ASSUME NEW c \in Conns, NoThread(c) \/ Finish(c)  PROVE Inv'
  BY <1>4, FreedKeeps DEF NoThread, Finish
<1>5. ASSUME NEW c \in Conns, Thread(c) \/ HeadLost(c) \/ Connect(c) \/ Receive(c)
                              \/ UpstreamTakes(c) \/ BodyLost(c) \/ UploadFails(c)
      PROVE  Inv'
  <2>1. Steady(c)
    <3>1. DOMAIN conn = Conns /\ {"phase", "admitted"} \subseteq DOMAIN conn[c]
      BY DEF Inv, Shaped
    <3>2. CASE Thread(c) \/ HeadLost(c)
      BY <3>1, <3>2 DEF Inv, Shaped, Steady, Thread, HeadLost, Ends
    <3>3. CASE Connect(c)
      BY <3>1, <3>3 DEF Inv, Shaped, Steady, Connect, Above, Ends
    <3>4. CASE Receive(c)
      BY <3>1, <3>4 DEF Inv, Shaped, Steady, Receive
    <3>5. CASE UpstreamTakes(c)
      BY <3>1, <3>5 DEF Inv, Shaped, Steady, UpstreamTakes, Above
    <3>6. CASE BodyLost(c) \/ UploadFails(c)
      BY <3>1, <3>6 DEF Inv, Shaped, Steady, BodyLost, UploadFails, Ends
    <3> QED  BY <1>5, <3>2, <3>3, <3>4, <3>5, <3>6
  <2> QED  BY <2>1, SteadyKeeps
<1>6. ASSUME NEW c \in Conns, NoAnswer(c) \/ (\E a \in Answers : AnswerHead(c, a)) \/ Read(c)
                              \/ ClientTakes(c) \/ ClientLost(c) \/ Probe(c)
                              \/ UpstreamEof(c) \/ UpstreamFails(c)
      PROVE  Inv'
  <2>1. Steady(c)
    <3>1. DOMAIN conn = Conns /\ {"phase", "admitted"} \subseteq DOMAIN conn[c]
      BY DEF Inv, Shaped
    <3>2. CASE NoAnswer(c)
      BY <3>1, <3>2 DEF Inv, Shaped, Steady, NoAnswer, Ends
    <3>3. CASE \E a \in Answers : AnswerHead(c, a)
      BY <3>1, <3>3 DEF Inv, Shaped, Steady, AnswerHead, Ends
    <3>4. CASE Read(c)
      BY <3>1, <3>4 DEF Inv, Shaped, Steady, Read, Cut
    <3>5. CASE ClientTakes(c)
      BY <3>1, <3>5 DEF Inv, Shaped, Steady, ClientTakes
    <3>6. CASE ClientLost(c) \/ Probe(c)
      BY <3>1, <3>6 DEF Inv, Shaped, Steady, ClientLost, Probe, Cut
    <3>7. CASE UpstreamEof(c) \/ UpstreamFails(c)
      BY <3>1, <3>7 DEF Inv, Shaped, Steady, UpstreamEof, UpstreamFails, Cut
    <3> QED  BY <1>6, <3>2, <3>3, <3>4, <3>5, <3>6, <3>7
  <2> QED  BY <2>1, SteadyKeeps
<1>7. CASE UNCHANGED <<shared, g_active, conn>>
  BY <1>7 DEF Inv, Shaped, CounterIsExact, Busy, Admitted, AdmittedWithinLimit, shared
<1> QED
  BY <1>1, <1>2, <1>3, <1>4, <1>5, <1>6, <1>7 DEF Next, vars, Leave

(* The state is the counter's, the admissions' and the start's.            *)
LEMMA InitKeeps == Init => Inv /\ Started
<1> SUFFICES ASSUME Init  PROVE Inv /\ Started
  OBVIOUS
<1>1. Shaped /\ Busy = {} /\ Admitted = {}
  BY DEF Init, Idle, Shaped, Busy, Admitted
<1> QED
  BY <1>1, FS_EmptySet DEF Init, Inv, Started, CounterIsExact, AdmittedWithinLimit

(* Only Boot touches what the threads share besides the counter.           *)
LEMMA OthersLeaveShared == [Next]_vars => Boot \/ UNCHANGED shared
<1> SUFFICES ASSUME [Next]_vars, ~Boot  PROVE UNCHANGED shared
  OBVIOUS
<1>1. ASSUME NEW c \in Conns,
             \/ Accept(c) \/ NoThread(c) \/ Thread(c) \/ HeadLost(c)
             \/ \E q \in Requests : Handle(c, q)
             \/ Connect(c) \/ Receive(c) \/ UpstreamTakes(c) \/ BodyLost(c) \/ UploadFails(c)
      PROVE  UNCHANGED shared
  BY <1>1 DEF Accept, NoThread, Thread, HeadLost, Handle, Connect, Receive, UpstreamTakes, BodyLost, UploadFails
<1>2. ASSUME NEW c \in Conns,
             \/ NoAnswer(c) \/ \E a \in Answers : AnswerHead(c, a)
             \/ Read(c) \/ ClientTakes(c) \/ ClientLost(c) \/ Probe(c)
             \/ UpstreamEof(c) \/ UpstreamFails(c) \/ Finish(c) \/ Leave(c)
      PROVE  UNCHANGED shared
  BY <1>2 DEF NoAnswer, AnswerHead, Read, ClientTakes, ClientLost, Probe, UpstreamEof, UpstreamFails,
              Finish, Leave
<1>3. UNCHANGED vars => UNCHANGED shared
  BY DEF vars
<1> QED  BY <1>1, <1>2, <1>3 DEF Next

(* Only Boot ends the start.                                               *)
LEMMA StartedKeeps ==
    ASSUME Started, [Next]_vars
    PROVE  Started'
<1>1. CASE Boot
  <2>1. running' \in {"up", "refused"}
    BY <1>1 DEF Boot
  <2> QED  BY <2>1 DEF Started
<1>2. CASE UNCHANGED shared
  BY <1>2 DEF Started, shared
<1> QED  BY <1>1, <1>2, OthersLeaveShared

(* g_active is the number of connections being served in every state, so   *)
(* a slot is neither lost nor given back twice (finish, tracer.c:530).     *)
THEOREM SlotsAreExact == Spec => []CounterIsExact
<1>1. Init => Inv /\ Started
  BY InitKeeps
<1>2. Inv /\ Started /\ [Next]_vars => (Inv /\ Started)'
  BY StepKeeps, StartedKeeps
<1>3. Inv => CounterIsExact
  BY DEF Inv
<1> QED  BY <1>1, <1>2, <1>3, PTL DEF Spec

(* Once there is an admission policy, the admitted connections never pass  *)
(* its limit, however many arrive at once (admission of tracer.c:566-585). *)
THEOREM AdmissionBound == Spec => []AdmittedWithinLimit
<1>1. Init => Inv /\ Started
  BY InitKeeps
<1>2. Inv /\ Started /\ [Next]_vars => (Inv /\ Started)'
  BY StepKeeps, StartedKeeps
<1>3. Inv => AdmittedWithinLimit
  BY DEF Inv
<1> QED  BY <1>1, <1>2, <1>3, PTL DEF Spec

-----------------------------------------------------------------------------
(* What the validator clears, rc_auth_table_init finds: the secrets it     *)
(* looks up with the names of the endpoints' keys are the environment's.   *)
LEMMA ClearedHasTokens ==
    ASSUME NEW d \in Documents \ {None}, NEW env \in Environments, recursant_validate(d, env)
    PROVE  LET c == rc_config_load(d) IN
           c # None /\ rc_config_validate(c) /\ rc_auth_table_init(c, env) # None
<1> DEFINE c == rc_config_load(d)
<1>1. c # None /\ rc_config_validate(c) /\ rc_config_check_secrets(c, env_lookup(c, env))
  BY Zenon DEF recursant_validate
<1>2. c = bind_root(d)
  BY <1>1 DEF rc_config_load
<1>3. c.projects = d.projects
  BY <1>2, SecretsAssumption DEF bind_root
<1> HIDE DEF c
<1>4. ASSUME NEW p \in ToSet(c.projects)  PROVE env[p.token_env] # None
  <2>1. p.token_env # None /\ p.token_env \in DOMAIN env
    BY <1>3, SecretsAssumption
  <2>2. env_lookup(c, env)[p.token_env] # None
    BY <1>1, <2>1 DEF rc_config_check_secrets, secret_present
  <2> QED  BY <2>1, <2>2 DEF env_lookup
<1>5. rc_auth_table_init(c, env) = [i \in DOMAIN d.projects |-> env[d.projects[i].token_env]]
  BY <1>3, <1>4 DEF rc_auth_table_init
<1> QED  BY <1>1, <1>5, SecretsAssumption DEF c

(* What recursant-validate accepts, the tracer starts with, for every      *)
(* document and environment: the two find the projects' secrets in code of *)
(* their own (rc_config_check_secrets, validate.c; rc_auth_table_init,     *)
(* auth.c).                                                                *)
THEOREM ValidStarts == Spec => []CheckedStarts
<1>1. Init => Started /\ CheckedStarts
  BY DEF Init, Started, CheckedStarts
<1>2. ASSUME Started, CheckedStarts, [Next]_vars
      PROVE  CheckedStarts'
  <2>1. CASE Boot
    <3>1. start \in [document : Documents, env : Environments, args : Arguments]
      BY <1>2, <2>1 DEF Started, Boot
    <3>2. ASSUME running' = "refused"
          PROVE  start' = start /\ ~recursant_validate(start.document, start.env)
      <4>1. start' = start /\ start.document # None
        BY <2>1, <3>2 DEF Boot
      <4>2. LET d == rc_config_load(start.document) IN
            ~(d # None /\ rc_config_validate(d) /\ rc_auth_table_init(d, start.env) # None)
        BY <2>1, <3>2, <4>1 DEF Boot
      <4>3. start.document \in Documents \ {None} /\ start.env \in Environments
        BY <3>1, <4>1
      <4> QED  BY <4>1, <4>2, <4>3, ClearedHasTokens
    <3> QED  BY <3>2 DEF CheckedStarts
  <2>2. CASE UNCHANGED shared
    BY <1>2, <2>2 DEF CheckedStarts, shared
  <2> QED  BY <1>2, <2>1, <2>2, OthersLeaveShared
<1> QED  BY StartedKeeps, <1>1, <1>2, PTL DEF Spec

-----------------------------------------------------------------------------
(* A set of numbers that is not empty has a least one.                     *)
LEMMA SmallestIs ==
    ASSUME NEW T \in SUBSET Nat, T # {}
    PROVE  \E m \in T : \A n \in T : m <= n
<1>1. \E m \in T : \A n \in T : ~(<<n, m>> \in OpToRel(<, Nat))
  BY WFMin, NatLessThanWellFounded
<1>2. PICK m \in T : \A n \in T : ~(<<n, m>> \in OpToRel(<, Nat))
  BY <1>1
<1>3. ASSUME NEW n \in T  PROVE m <= n
  <2>1. n \in Nat /\ m \in Nat
    OBVIOUS
  <2>2. n < m => <<n, m>> \in OpToRel(<, Nat)
    BY <2>1 DEF OpToRel
  <2>3. ~(n < m)
    BY <1>2, <2>2
  <2> QED  BY <2>1, <2>3
<1> QED  BY <1>3

(* The states the tracker passes through from base over s.                 *)
IsRun(base, s, e) ==
    /\ e[0] = base
    /\ \A i \in 1..Len(s) : e[i] = chunked_step(e[i - 1], s[i])

(* There is one run from a base over a sequence.                           *)
LEMMA RunsAgree ==
    ASSUME NEW base, NEW s \in Seq(Tokens), NEW e, NEW f, IsRun(base, s, e), IsRun(base, s, f)
    PROVE  \A i \in 0..Len(s) : e[i] = f[i]
<1> DEFINE wrong == {i \in 0..Len(s) : e[i] # f[i]}
<1>1. ASSUME wrong # {}  PROVE FALSE
  <2>1. PICK i \in wrong : \A j \in wrong : i <= j
    <3>1. wrong \in SUBSET Nat
      OBVIOUS
    <3> HIDE DEF wrong
    <3> QED  BY <1>1, <3>1, SmallestIs
  <2>2. i # 0
    BY <2>1 DEF IsRun
  <2>3. i \in 1..Len(s) /\ i - 1 \in 0..Len(s) /\ i - 1 < i
    BY <2>1, <2>2
  <2>4. e[i - 1] = f[i - 1]
    BY <2>1, <2>3
  <2> QED  BY <2>1, <2>3, <2>4 DEF IsRun
<1> QED  BY <1>1

(* What FoldLeft computes by: a state for every set of places. *)
Fills(base, s, n, f) ==
    f = [t \in SUBSET (1..n) |->
            IF t = {} THEN base ELSE chunked_step(f[t \ {Max(t)}], s[Max(t)])]

(* What FoldLeft stands for, with its helpers expanded.                    *)
LEMMA FoldUnfolds ==
    ASSUME NEW base, NEW s \in Seq(Tokens)
    PROVE  FoldLeft(chunked_step, base, s) = (CHOOSE f : Fills(base, s, Len(s), f))[1..Len(s)]
<1>1. DOMAIN s = 1..Len(s)
  OBVIOUS
<1>2. FoldLeft(chunked_step, base, s) =
        (CHOOSE f : f = [t \in SUBSET (DOMAIN s) |->
            IF t = {} THEN base ELSE chunked_step(f[t \ {Max(t)}], s[Max(t)])])[DOMAIN s]
  BY DEF FoldLeft, MapThenFoldSet
<1> QED  BY <1>1, <1>2 DEF Fills

(* The last of the places up to n.                                         *)
LEMMA TopIs ==
    ASSUME NEW n \in Nat, NEW t \in SUBSET (1..n), n \in t
    PROVE  Max(t) = n
<1>1. n \in t /\ \A y \in t : y \in Nat /\ n >= y
  OBVIOUS
<1>2. Max(t) \in t /\ \A y \in t : Max(t) >= y
  BY <1>1 DEF Max
<1>3. Max(t) \in Nat /\ n >= Max(t)
  BY <1>1, <1>2
<1> QED  BY <1>2, <1>3

(* A function that fills the places up to n can be carried one place on.   *)
LEMMA FillsOne ==
    ASSUME NEW base, NEW s, NEW n \in Nat, NEW f, Fills(base, s, n, f)
    PROVE  \E g : Fills(base, s, n + 1, g)
<1> DEFINE New(t) == IF t \in SUBSET (1..n) THEN f[t] ELSE chunked_step(f[t \ {n + 1}], s[n + 1])
           g == [t \in SUBSET (1..(n + 1)) |-> New(t)]
<1>1. ASSUME NEW t \in SUBSET (1..n), t # {}
      PROVE  f[t] = chunked_step(f[t \ {Max(t)}], s[Max(t)])
  BY <1>1 DEF Fills
<1>2. f[{}] = base
  <2>1. {} \in SUBSET (1..n)
    OBVIOUS
  <2> QED  BY <2>1 DEF Fills
<1>3. ASSUME NEW t \in SUBSET (1..(n + 1)), t # {}
      PROVE  g[t] = chunked_step(g[t \ {Max(t)}], s[Max(t)])
  <2>1. CASE t \in SUBSET (1..n)
    <3>1. t \ {Max(t)} \in SUBSET (1..n)
      BY <2>1
    <3>2. g[t] = f[t] /\ g[t \ {Max(t)}] = f[t \ {Max(t)}]
      <4>1. \A u \in SUBSET (1..n) : u \in SUBSET (1..(n + 1))
        OBVIOUS
      <4> QED  BY <2>1, <3>1, <4>1
    <3> QED  BY <1>1, <1>3, <2>1, <3>2
  <2>2. CASE t \notin SUBSET (1..n)
    <3>1. n + 1 \in t
      BY <2>2
    <3>2. Max(t) = n + 1
      BY <3>1, TopIs
    <3>3. t \ {n + 1} \in SUBSET (1..n)
      OBVIOUS
    <3>4. g[t] = chunked_step(f[t \ {n + 1}], s[n + 1]) /\ g[t \ {n + 1}] = f[t \ {n + 1}]
      BY <2>2, <3>3
    <3> QED  BY <3>2, <3>4
  <2> QED  BY <2>1, <2>2
<1>4. g[{}] = base
  BY <1>2
<1>5. Fills(base, s, n + 1, g)
  <2> DEFINE h == [t \in SUBSET (1..(n + 1)) |->
                     IF t = {} THEN base ELSE chunked_step(g[t \ {Max(t)}], s[Max(t)])]
  <2>1. \A t \in SUBSET (1..(n + 1)) : g[t] = h[t]
    BY <1>3, <1>4
  <2>2. g = h
    BY <2>1
  <2> QED  BY <2>2 DEF Fills
<1> QED  BY <1>5

(* So there is one for every n, by the least for which there were none.    *)
LEMMA FillsExist ==
    ASSUME NEW base, NEW s, NEW n \in Nat
    PROVE  \E f : Fills(base, s, n, f)
<1> DEFINE wrong == {m \in Nat : ~ \E f : Fills(base, s, m, f)}
<1>1. ASSUME wrong # {}  PROVE FALSE
  <2>1. PICK m \in wrong : \A j \in wrong : m <= j
    <3>1. wrong \in SUBSET Nat
      OBVIOUS
    <3> HIDE DEF wrong
    <3> QED  BY <1>1, <3>1, SmallestIs
  <2>2. CASE m = 0
    <3> DEFINE f == [t \in SUBSET (1..0) |-> base]
    <3>1. \A t \in SUBSET (1..0) : t = {}
      OBVIOUS
    <3>2. f = [t \in SUBSET (1..0) |->
                 IF t = {} THEN base ELSE chunked_step(f[t \ {Max(t)}], s[Max(t)])]
      BY <3>1
    <3> QED  BY <2>1, <2>2, <3>2 DEF Fills
  <2>3. CASE m # 0
    <3>1. m - 1 \in Nat /\ m - 1 < m /\ m \in Nat /\ (m - 1) + 1 = m
      BY <2>1, <2>3
    <3>2. m - 1 \notin wrong
      BY <2>1, <3>1
    <3>3. PICK f : Fills(base, s, m - 1, f)
      BY <3>1, <3>2
    <3>4. \E g : Fills(base, s, (m - 1) + 1, g)
      BY <3>1, <3>3, FillsOne
    <3> QED  BY <2>1, <3>1, <3>4
  <2> QED  BY <2>2, <2>3
<1> QED  BY <1>1

(* FoldLeft computes by a run, and its result is where the run ends.       *)
LEMMA FoldIsRun ==
    ASSUME NEW base, NEW s \in Seq(Tokens)
    PROVE  \E e : IsRun(base, s, e) /\ e[Len(s)] = FoldLeft(chunked_step, base, s)
<1> DEFINE f == CHOOSE g : Fills(base, s, Len(s), g)
           e == [i \in 0..Len(s) |-> f[1..i]]
<1>1. Len(s) \in Nat
  OBVIOUS
<1>2. Fills(base, s, Len(s), f)
  <2>1. \E g : Fills(base, s, Len(s), g)
    BY <1>1, FillsExist
  <2> QED  BY <2>1
<1> HIDE DEF f
<1>3. e[0] = base
  <2>1. {} \in SUBSET (1..Len(s)) /\ 1..0 = {}
    OBVIOUS
  <2>2. f[{}] = base
    BY <1>2, <2>1 DEF Fills
  <2> QED  BY <1>1, <2>1, <2>2
<1>4. ASSUME NEW i \in 1..Len(s)
      PROVE  e[i] = chunked_step(e[i - 1], s[i])
  <2>1. 1..i \in SUBSET (1..Len(s)) /\ 1..i # {} /\ i \in 1..i
    <3>1. i \in 1..i
      OBVIOUS
    <3>2. 1..i \subseteq 1..Len(s)
      BY <1>1
    <3> QED  BY <3>1, <3>2
  <2>2. Max(1..i) = i
    BY <2>1, TopIs
  <2>3. (1..i) \ {i} = 1..(i - 1)
    OBVIOUS
  <2>4. f[1..i] = chunked_step(f[1..(i - 1)], s[i])
    <3>1. f[1..i] = chunked_step(f[(1..i) \ {Max(1..i)}], s[Max(1..i)])
      BY <1>2, <2>1 DEF Fills
    <3> QED  BY <2>2, <2>3, <3>1
  <2>5. i \in 0..Len(s) /\ i - 1 \in 0..Len(s)
    OBVIOUS
  <2> QED  BY <2>4, <2>5
<1>5. e[Len(s)] = FoldLeft(chunked_step, base, s)
  BY <1>1, FoldUnfolds DEF f
<1> HIDE DEF e
<1>6. IsRun(base, s, e)
  BY <1>3, <1>4 DEF IsRun
<1> QED  BY <1>5, <1>6

(* Whatever run there is ends in what FoldLeft computes.                   *)
LEMMA RunIsFold ==
    ASSUME NEW base, NEW s \in Seq(Tokens), NEW e, IsRun(base, s, e)
    PROVE  FoldLeft(chunked_step, base, s) = e[Len(s)]
<1>1. PICK f : IsRun(base, s, f) /\ f[Len(s)] = FoldLeft(chunked_step, base, s)
  BY FoldIsRun
<1>2. Len(s) \in 0..Len(s)
  OBVIOUS
<1> QED  BY <1>1, <1>2, RunsAgree

(* A run over a sequence passes through the folds of its beginnings.       *)
LEMMA RunOfPrefix ==
    ASSUME NEW base, NEW s \in Seq(Tokens), NEW e, IsRun(base, s, e), NEW n \in 0..Len(s)
    PROVE  FoldLeft(chunked_step, base, SubSeq(s, 1, n)) = e[n]
<1>1. SubSeq(s, 1, n) \in Seq(Tokens) /\ Len(SubSeq(s, 1, n)) = n
  OBVIOUS
<1>2. \A i \in 1..n : SubSeq(s, 1, n)[i] = s[i] /\ i \in 1..Len(s)
  OBVIOUS
<1>3. IsRun(base, SubSeq(s, 1, n), e)
  BY <1>1, <1>2 DEF IsRun
<1> QED  BY <1>1, <1>3, RunIsFold

(* Fed in two pieces, the tracker ends as it does fed at once.             *)
LEMMA FedInPieces ==
    ASSUME NEW base, NEW s \in Seq(Tokens), NEW r \in 0..Len(s), NEW n \in r..Len(s)
    PROVE  FoldLeft(chunked_step, FoldLeft(chunked_step, base, SubSeq(s, 1, r)), SubSeq(s, r + 1, n))
             = FoldLeft(chunked_step, base, SubSeq(s, 1, n))
<1>1. PICK e : IsRun(base, s, e)
  BY FoldIsRun
<1> DEFINE rest == SubSeq(s, r + 1, n)
           later == [i \in 0..(n - r) |-> e[r + i]]
<1>2. rest \in Seq(Tokens) /\ Len(rest) = n - r /\ n \in 0..Len(s)
  OBVIOUS
<1>3. FoldLeft(chunked_step, base, SubSeq(s, 1, r)) = e[r] /\ FoldLeft(chunked_step, base, SubSeq(s, 1, n)) = e[n]
  BY <1>1, <1>2, RunOfPrefix
<1>4. IsRun(e[r], rest, later)
  <2>1. later[0] = e[r]
    BY <1>2
  <2>2. ASSUME NEW i \in 1..(n - r)
        PROVE  later[i] = chunked_step(later[i - 1], rest[i])
    <3>1. rest[i] = s[r + i] /\ r + i \in 1..Len(s)
      OBVIOUS
    <3>2. e[r + i] = chunked_step(e[r + i - 1], s[r + i])
      BY <1>1, <3>1 DEF IsRun
    <3>3. later[i] = e[r + i] /\ later[i - 1] = e[r + i - 1]
      OBVIOUS
    <3> QED  BY <3>1, <3>2, <3>3
  <2> HIDE DEF later, rest
  <2> QED  BY <1>2, <2>1, <2>2 DEF IsRun
<1>5. later[n - r] = e[n]
  BY <1>2
<1> HIDE DEF later, rest
<1>6. FoldLeft(chunked_step, e[r], rest) = e[n]
  BY <1>2, <1>4, <1>5, RunIsFold
<1> QED  BY <1>3, <1>6 DEF rest

-----------------------------------------------------------------------------
(* The tracker in a state, with so many bytes of its chunk to come.        *)
At(state, n) == [state |-> state, remaining |-> n]

Calm(k) == k.state \notin {"ERROR", "DONE"}

(* Fed s, the tracker goes from x to y and neither ends nor errs.          *)
Leads(x, s, y) ==
    \E e : IsRun(x, s, e) /\ e[Len(s)] = y /\ \A i \in 0..Len(s) : Calm(e[i])

(* A run over b that starts where one over a ends makes one over both.     *)
LEMMA RunsJoin ==
    ASSUME NEW x, NEW a \in Seq(Tokens), NEW b \in Seq(Tokens), NEW e, NEW f,
           IsRun(x, a, e), IsRun(e[Len(a)], b, f)
    PROVE  IsRun(x, a \o b, [i \in 0..Len(a \o b) |-> IF i <= Len(a) THEN e[i] ELSE f[i - Len(a)]])
<1> DEFINE s == a \o b
           g == [i \in 0..Len(s) |-> IF i <= Len(a) THEN e[i] ELSE f[i - Len(a)]]
<1>1. Len(s) = Len(a) + Len(b) /\ Len(a) \in Nat /\ Len(b) \in Nat
  OBVIOUS
<1>2. g[0] = x
  BY <1>1 DEF IsRun
<1>3. ASSUME NEW i \in 1..Len(s)
      PROVE  g[i] = chunked_step(g[i - 1], s[i])
  <2>1. CASE i <= Len(a)
    <3>1. i \in 1..Len(a) /\ s[i] = a[i]
      BY <2>1
    <3>2. e[i] = chunked_step(e[i - 1], a[i])
      BY <3>1 DEF IsRun
    <3>3. g[i] = e[i] /\ g[i - 1] = e[i - 1]
      BY <1>1, <2>1
    <3> HIDE DEF g, s
    <3> QED  BY <3>1, <3>2, <3>3
  <2>2. CASE i > Len(a)
    <3> DEFINE j == i - Len(a)
    <3>1. j \in 1..Len(b) /\ s[i] = b[j]
      BY <1>1, <2>2
    <3>2. f[j] = chunked_step(f[j - 1], b[j])
      BY <3>1 DEF IsRun
    <3>3. g[i] = f[j]
      BY <1>1, <2>2
    <3>4. g[i - 1] = f[j - 1]
      <4>1. CASE j = 1
        <5>1. i - 1 = Len(a) /\ i - 1 \in 0..Len(s)
          BY <1>1, <4>1
        <5>2. g[i - 1] = e[Len(a)]
          BY <1>1, <5>1
        <5>3. f[0] = e[Len(a)]
          BY DEF IsRun
        <5> HIDE DEF g
        <5> QED  BY <4>1, <5>2, <5>3
      <4>2. CASE j # 1
        <5>1. ~(i - 1 <= Len(a)) /\ i - 1 \in 0..Len(s) /\ (i - 1) - Len(a) = j - 1
          BY <1>1, <3>1, <4>2
        <5> QED  BY <5>1
      <4> QED  BY <4>1, <4>2
    <3> HIDE DEF g, s, j
    <3> QED  BY <3>1, <3>2, <3>3, <3>4
  <2> QED  BY <1>1, <2>1, <2>2
<1> HIDE DEF g, s
<1>4. IsRun(x, s, g)
  BY <1>2, <1>3 DEF IsRun
<1> QED  BY <1>4 DEF g, s

(* What leads from x to y and on to z leads from x to z.                   *)
LEMMA LeadsJoin ==
    ASSUME NEW x, NEW y, NEW z, NEW a \in Seq(Tokens), NEW b \in Seq(Tokens),
           Leads(x, a, y), Leads(y, b, z)
    PROVE  Leads(x, a \o b, z)
<1>1. PICK e : IsRun(x, a, e) /\ e[Len(a)] = y /\ \A i \in 0..Len(a) : Calm(e[i])
  BY DEF Leads
<1>2. PICK f : IsRun(y, b, f) /\ f[Len(b)] = z /\ \A i \in 0..Len(b) : Calm(f[i])
  BY DEF Leads
<1> DEFINE g == [i \in 0..Len(a \o b) |-> IF i <= Len(a) THEN e[i] ELSE f[i - Len(a)]]
<1>3. IsRun(x, a \o b, g)
  BY <1>1, <1>2, RunsJoin
<1>4. Len(a \o b) = Len(a) + Len(b) /\ Len(a) \in Nat /\ Len(b) \in Nat
  OBVIOUS
<1>5. ASSUME NEW i \in 0..Len(a \o b)  PROVE Calm(g[i])
  <2>1. CASE i <= Len(a)
    <3>1. i \in 0..Len(a) /\ g[i] = e[i]
      BY <1>4, <2>1
    <3> QED  BY <1>1, <3>1
  <2>2. CASE ~(i <= Len(a))
    <3>1. i - Len(a) \in 0..Len(b) /\ g[i] = f[i - Len(a)]
      BY <1>4, <2>2
    <3> QED  BY <1>2, <3>1
  <2> QED  BY <2>1, <2>2
<1>6. g[Len(a \o b)] = z
  <2>1. CASE Len(b) = 0
    <3>1. g[Len(a \o b)] = y
      BY <1>1, <1>4, <2>1
    <3>2. f[0] = y
      BY <1>2 DEF IsRun
    <3> QED  BY <1>2, <2>1, <3>1, <3>2
  <2>2. CASE Len(b) # 0
    BY <1>2, <1>4, <2>2
  <2> QED  BY <2>1, <2>2
<1> HIDE DEF g
<1> QED  BY <1>3, <1>5, <1>6 DEF Leads

(* No token.                                                               *)
LEMMA LeadsNone ==
    ASSUME NEW x, Calm(x)
    PROVE  Leads(x, <<>>, x)
<1> DEFINE e == [i \in 0..0 |-> x]
<1>1. e[0] = x /\ Len(<<>>) = 0
  OBVIOUS
<1> HIDE DEF e
<1> QED  BY <1>1 DEF Leads, IsRun

(* Two tokens.                                                             *)
LEMMA LeadsTwo ==
    ASSUME NEW x, NEW t \in Tokens, NEW u \in Tokens, NEW y, NEW z,
           Calm(x), Calm(y), Calm(z), chunked_step(x, t) = y, chunked_step(y, u) = z
    PROVE  Leads(x, <<t, u>>, z)
<1> DEFINE e == [i \in 0..2 |-> IF i = 0 THEN x ELSE IF i = 1 THEN y ELSE z]
<1>1. e[0] = x /\ e[1] = y /\ e[2] = z
  OBVIOUS
<1> HIDE DEF e
<1>2. Len(<<t, u>>) = 2
  OBVIOUS
<1>5. <<t, u>>[1] = t /\ <<t, u>>[2] = u
  OBVIOUS
<1>3. IsRun(x, <<t, u>>, e)
  <2>1. ASSUME NEW i \in 1..2  PROVE e[i] = chunked_step(e[i - 1], <<t, u>>[i])
    <3>1. CASE i = 1
      <4>1. i - 1 = 0
        BY <3>1
      <4>2. e[i] = y /\ e[i - 1] = x /\ <<t, u>>[i] = t
        BY <1>1, <1>5, <3>1, <4>1
      <4> QED  BY <4>2
    <3>2. CASE i = 2
      <4>1. i - 1 = 1
        BY <3>2
      <4>2. e[i] = z /\ e[i - 1] = y /\ <<t, u>>[i] = u
        BY <1>1, <1>5, <3>2, <4>1
      <4> QED  BY <4>2
    <3> QED  BY <3>1, <3>2
  <2> QED  BY <1>1, <1>2, <2>1 DEF IsRun
<1>4. \A i \in 0..2 : Calm(e[i])
  <2>1. \A i \in 0..2 : i = 0 \/ i = 1 \/ i = 2
    OBVIOUS
  <2> QED  BY <1>1, <2>1
<1> QED  BY <1>1, <1>2, <1>3, <1>4 DEF Leads

(* The digits are the sixteen, and their values are numbers.               *)
LEMMA Digits ==
    /\ isxdigit("0") /\ Hex["0"] = 0
    /\ ~isxdigit("SEMI") /\ ~isxdigit("CR") /\ ~isxdigit("LF") /\ ~isxdigit("x")
    /\ \A h \in DOMAIN Hex : Hex[h] \in Nat
<1>1. DOMAIN HexDigits = 1..16 /\ Len(HexDigits) = 16
  BY DEF HexDigits
<1>2. \A t : t \in ToSet(HexDigits) <=> \E i \in 1..16 : HexDigits[i] = t
  BY <1>1 DEF ToSet
<1>3. HexDigits[1] = "0" /\ 1 \in 1..16
  BY DEF HexDigits
<1>4. \A i \in 1..16 : HexDigits[i] \notin {"SEMI", "CR", "LF", "x"}
  BY DEF HexDigits
<1>5. \A i \in 1..16 : HexDigits[i] = "0" => i = 1
  BY DEF HexDigits
<1>6. {i \in 1..16 : HexDigits[i] = "0"} = {1}
  BY <1>3, <1>5
<1>7. Min({1}) = 1
  BY DEF Min
<1>8. SelectInSeq(HexDigits, LAMBDA h : h = "0") = 1
  BY <1>1, <1>6, <1>7 DEF SelectInSeq
<1>9. DOMAIN Hex = ToSet(HexDigits)
  BY DEF Hex
<1>10. "0" \in ToSet(HexDigits)
  BY <1>2, <1>3
<1>11. Hex["0"] = 0
  BY <1>8, <1>10 DEF Hex
<1>12. ASSUME NEW t \in DOMAIN Hex  PROVE Hex[t] \in Nat
  <2> DEFINE places == {i \in 1..16 : HexDigits[i] = t}
  <2>1. places # {} /\ places \in SUBSET Nat
    BY <1>2, <1>9
  <2>2. Min(places) \in places
    <3>1. \E m \in places : \A n \in places : m <= n
      <4> HIDE DEF places
      <4> QED  BY <2>1, SmallestIs
    <3> HIDE DEF places
    <3> QED  BY <3>1 DEF Min
  <2>3. SelectInSeq(HexDigits, LAMBDA h : h = t) = Min(places)
    BY <1>1, <2>1 DEF SelectInSeq
  <2>4. Hex[t] = Min(places) - 1
    BY <1>9, <2>3 DEF Hex
  <2> QED  BY <2>2, <2>4
<1> QED  BY <1>2, <1>4, <1>9, <1>10, <1>11, <1>12 DEF isxdigit

(* What encodings are made of are tokens.                                  *)
LEMMA KnownTokens == {"0", "SEMI", "CR", "LF", "x"} \subseteq Tokens /\ DOMAIN Hex \subseteq Tokens
BY Digits DEF Tokens, isxdigit

(* What the tracker does with a digit ...                                  *)
LEMMA DigitSteps ==
    ASSUME NEW h \in DOMAIN Hex
    PROVE  /\ chunked_step(At("SIZE_START", 0), h) = At("SIZE", Hex[h])
           /\ \A n \in Nat : chunked_step(At("SIZE", n), h) = At("SIZE", n * 16 + Hex[h])
BY DEF chunked_step, At, isxdigit

(* ... with what ends a size, and the rest of its line ...                 *)
LEMMA LineSteps ==
    ASSUME NEW n \in Nat
    PROVE  /\ chunked_step(At("SIZE", n), "CR") = At("SIZE_CR", n)
           /\ chunked_step(At("SIZE", n), "SEMI") = At("EXT", n)
           /\ chunked_step(At("EXT", n), "x") = At("EXT", n)
           /\ chunked_step(At("EXT", n), "CR") = At("EXT", n)
           /\ n > 0 => /\ chunked_step(At("EXT", n), "LF") = At("DATA", n)
                       /\ chunked_step(At("SIZE_CR", n), "LF") = At("DATA", n)
           /\ chunked_step(At("SIZE_CR", 0), "LF") = At("TRAILER_CR", 0)
BY Digits DEF chunked_step, At, AfterSize

(* ... and with data and the end of the answer.                            *)
LEMMA DataSteps ==
    /\ chunked_step(At("DATA", 1), "x") = At("DATA_CR", 0)
    /\ \A n \in Nat : n > 1 => chunked_step(At("DATA", n), "x") = At("DATA", n - 1)
    /\ chunked_step(At("DATA_CR", 0), "CR") = At("DATA_LF", 0)
    /\ chunked_step(At("DATA_LF", 0), "LF") = At("SIZE_START", 0)
    /\ chunked_step(At("TRAILER_CR", 0), "CR") = At("DONE", 0)
    /\ chunked_step(At("DONE", 0), "LF") = At("DONE", 0)
BY DEF chunked_step, At

(* The states a chunk leads through.                                       *)
LEMMA CalmStates ==
    \A n : /\ Calm(At("SIZE_START", n)) /\ Calm(At("SIZE", n)) /\ Calm(At("EXT", n))
           /\ Calm(At("SIZE_CR", n)) /\ Calm(At("DATA", n)) /\ Calm(At("DATA_CR", n))
           /\ Calm(At("DATA_LF", n))
BY DEF Calm, At

-----------------------------------------------------------------------------
(* What SizeOf computes by, up to the n-th digit.                          *)
Counts(digits, n, v) ==
    v = [i \in 0..n |-> IF i = 0 THEN 0 ELSE v[i - 1] * 16 + Hex[digits[i]]]

(* It can be carried one digit on ...                                      *)
LEMMA CountsOne ==
    ASSUME NEW digits, NEW n \in Nat, NEW v, Counts(digits, n, v)
    PROVE  \E w : Counts(digits, n + 1, w)
<1> DEFINE next == v[n] * 16 + Hex[digits[n + 1]]
           w == [i \in 0..(n + 1) |-> IF i <= n THEN v[i] ELSE next]
<1>1. DOMAIN w = 0..(n + 1)
  OBVIOUS
<1>2. ASSUME NEW i \in 0..(n + 1)
      PROVE  w[i] = IF i = 0 THEN 0 ELSE w[i - 1] * 16 + Hex[digits[i]]
  <2>1. CASE i <= n
    <3>1. i \in 0..n
      BY <2>1
    <3>2. v[i] = IF i = 0 THEN 0 ELSE v[i - 1] * 16 + Hex[digits[i]]
      BY <3>1 DEF Counts
    <3>3. w[i] = v[i] /\ (i # 0 => w[i - 1] = v[i - 1])
      BY <2>1
    <3> HIDE DEF w, next
    <3> QED  BY <3>2, <3>3
  <2>2. CASE ~(i <= n)
    <3>1. i = n + 1 /\ i - 1 = n /\ i # 0
      BY <2>2
    <3>2. w[i] = next /\ w[i - 1] = v[n]
      BY <2>2, <3>1
    <3> HIDE DEF w
    <3> QED  BY <3>1, <3>2
  <2> QED  BY <2>1, <2>2
<1>3. w = [i \in 0..(n + 1) |-> w[i]]
  BY <1>1
<1>4. Counts(digits, n + 1, w)
  <2> HIDE DEF w, next
  <2> QED  BY <1>2, <1>3 DEF Counts
<1> HIDE DEF w, next
<1> QED  BY <1>4

(* ... so there is one for every number of digits.                         *)
LEMMA CountsExist ==
    ASSUME NEW digits, NEW n \in Nat
    PROVE  \E v : Counts(digits, n, v)
<1> DEFINE wrong == {m \in Nat : \A v : ~Counts(digits, m, v)}
<1>1. ASSUME wrong # {}  PROVE FALSE
  <2>1. PICK m \in wrong : \A j \in wrong : m <= j
    <3>1. wrong \in SUBSET Nat
      OBVIOUS
    <3> HIDE DEF wrong
    <3> QED  BY <1>1, <3>1, SmallestIs
  <2>2. m # 0
    <3> DEFINE v == [i \in 0..0 |-> 0]
    <3>1. v = [i \in 0..0 |-> IF i = 0 THEN 0 ELSE v[i - 1] * 16 + Hex[digits[i]]]
      OBVIOUS
    <3>2. Counts(digits, 0, v)
      <4> HIDE DEF v
      <4> QED  BY <3>1 DEF Counts
    <3> QED  BY <2>1, <3>2
  <2>3. m - 1 \in Nat /\ m - 1 < m /\ (m - 1) + 1 = m
    BY <2>1, <2>2
  <2>4. PICK v : Counts(digits, m - 1, v)
    BY <2>1, <2>3
  <2>5. \E w : Counts(digits, (m - 1) + 1, w)
    BY <2>3, <2>4, CountsOne
  <2> QED  BY <2>1, <2>3, <2>5
<1> QED  BY <1>1

(* A size is what its digits count up to, and every count is a number.     *)
LEMMA SizeCounts ==
    ASSUME NEW digits \in Seq(DOMAIN Hex)
    PROVE  \E v : /\ SizeOf(digits) = v[Len(digits)] /\ v[0] = 0
                  /\ \A i \in 0..Len(digits) : v[i] \in Nat
                  /\ \A i \in 1..Len(digits) : v[i] = v[i - 1] * 16 + Hex[digits[i]]
<1> DEFINE n == Len(digits)
           v == CHOOSE w : Counts(digits, n, w)
<1>1. n \in Nat
  OBVIOUS
<1>2. Counts(digits, n, v)
  <2>1. \E w : Counts(digits, n, w)
    BY <1>1, CountsExist
  <2> QED  BY <2>1
<1>3. SizeOf(digits) = v[n]
  BY DEF SizeOf, Counts
<1> HIDE DEF v
<1>4. v[0] = 0 /\ \A i \in 1..n : v[i] = v[i - 1] * 16 + Hex[digits[i]]
  <2>1. 0 \in 0..n /\ \A i \in 1..n : i \in 0..n /\ i # 0
    BY <1>1
  <2>2. \A i \in 0..n : v[i] = IF i = 0 THEN 0 ELSE v[i - 1] * 16 + Hex[digits[i]]
    BY <1>2 DEF Counts
  <2> QED  BY <2>1, <2>2
<1> DEFINE wrong == {i \in 0..n : v[i] \notin Nat}
<1>5. ASSUME wrong # {}  PROVE FALSE
  <2>1. PICK i \in wrong : \A j \in wrong : i <= j
    <3>1. wrong \in SUBSET Nat
      OBVIOUS
    <3> HIDE DEF wrong
    <3> QED  BY <1>5, <3>1, SmallestIs
  <2>2. i \in 0..n /\ i # 0
    BY <1>4, <2>1
  <2>3. i \in 1..n /\ i - 1 \in 0..n /\ i - 1 < i
    BY <1>1, <2>2
  <2>4. v[i - 1] \in Nat
    BY <2>1, <2>3
  <2>5. Hex[digits[i]] \in Nat
    BY <2>3, Digits
  <2>6. v[i] = v[i - 1] * 16 + Hex[digits[i]]
    BY <1>4, <2>3
  <2>7. v[i] \in Nat
    BY <2>4, <2>5, <2>6
  <2> QED  BY <2>1, <2>7
<1>6. \A i \in 0..n : v[i] \in Nat
  BY <1>5
<1> QED  BY <1>3, <1>4, <1>6

(* The digits of a size lead to it.                                        *)
LEMMA SizeLeads ==
    ASSUME NEW digits \in Seq(DOMAIN Hex), Len(digits) # 0
    PROVE  Leads(At("SIZE_START", 0), digits, At("SIZE", SizeOf(digits)))
<1> DEFINE n == Len(digits)
<1>1. PICK v : /\ SizeOf(digits) = v[n] /\ v[0] = 0
               /\ \A i \in 0..n : v[i] \in Nat
               /\ \A i \in 1..n : v[i] = v[i - 1] * 16 + Hex[digits[i]]
  BY SizeCounts
<1> DEFINE e == [i \in 0..n |-> IF i = 0 THEN At("SIZE_START", 0) ELSE At("SIZE", v[i])]
<1>2. n \in Nat /\ n # 0
  OBVIOUS
<1>3. e[0] = At("SIZE_START", 0) /\ \A i \in 1..n : e[i] = At("SIZE", v[i])
  BY <1>2
<1>4. ASSUME NEW i \in 0..n  PROVE Calm(e[i])
  <2>1. i = 0 \/ i \in 1..n
    BY <1>2
  <2> HIDE DEF e
  <2> QED  BY <1>3, <2>1, CalmStates
<1> HIDE DEF e
<1>5. ASSUME NEW i \in 1..n  PROVE e[i] = chunked_step(e[i - 1], digits[i])
  <2>1. digits[i] \in DOMAIN Hex /\ i - 1 \in 0..n
    BY <1>2
  <2>2. e[i] = At("SIZE", v[i - 1] * 16 + Hex[digits[i]])
    BY <1>1, <1>3
  <2>3. CASE i - 1 = 0
    <3>1. v[i - 1] * 16 + Hex[digits[i]] = Hex[digits[i]]
      BY <1>1, <2>1, <2>3, Digits
    <3>2. e[i - 1] = At("SIZE_START", 0)
      BY <1>3, <2>3
    <3> QED  BY <2>1, <2>2, <3>1, <3>2, DigitSteps
  <2>4. CASE i - 1 # 0
    <3>1. i - 1 \in 1..n /\ v[i - 1] \in Nat
      BY <1>1, <2>1, <2>4
    <3>2. e[i - 1] = At("SIZE", v[i - 1])
      BY <1>3, <3>1
    <3> QED  BY <2>1, <2>2, <3>1, <3>2, DigitSteps
  <2> QED  BY <2>3, <2>4
<1>6. IsRun(At("SIZE_START", 0), digits, e)
  BY <1>3, <1>5 DEF IsRun
<1>7. e[n] = At("SIZE", SizeOf(digits))
  BY <1>1, <1>2, <1>3
<1> QED  BY <1>4, <1>6, <1>7 DEF Leads

(* So many bytes of data lead to their end.                                *)
LEMMA DataLeads ==
    ASSUME NEW n \in Nat, n > 0
    PROVE  Leads(At("DATA", n), [i \in 1..n |-> "x"], At("DATA_CR", 0))
<1> DEFINE data == [i \in 1..n |-> "x"]
           e == [i \in 0..n |-> IF i < n THEN At("DATA", n - i) ELSE At("DATA_CR", 0)]
<1>1. Len(data) = n /\ \A i \in 1..n : data[i] = "x"
  OBVIOUS
<1>2. e[n] = At("DATA_CR", 0) /\ \A i \in 0..n : i < n => e[i] = At("DATA", n - i)
  OBVIOUS
<1> HIDE DEF e, data
<1>3. ASSUME NEW i \in 0..n  PROVE Calm(e[i])
  <2>1. i < n \/ i = n
    OBVIOUS
  <2> QED  BY <1>2, <2>1, CalmStates
<1>4. ASSUME NEW i \in 1..n  PROVE e[i] = chunked_step(e[i - 1], data[i])
  <2>1. i - 1 \in 0..n /\ i - 1 < n /\ n - (i - 1) \in Nat
    OBVIOUS
  <2>2. e[i - 1] = At("DATA", n - (i - 1)) /\ data[i] = "x"
    BY <1>1, <1>2, <2>1
  <2>3. CASE i = n
    <3>1. n - (i - 1) = 1
      BY <2>3
    <3> QED  BY <1>2, <2>2, <2>3, <3>1, DataSteps
  <2>4. CASE i # n
    <3>1. n - (i - 1) > 1 /\ (n - (i - 1)) - 1 = n - i /\ i < n /\ i \in 0..n
      BY <2>4
    <3>2. e[i] = At("DATA", n - i)
      BY <1>2, <3>1
    <3> QED  BY <2>1, <2>2, <3>1, <3>2, DataSteps
  <2> QED  BY <2>3, <2>4
<1>5. e[0] = At("DATA", n)
  <2>1. 0 \in 0..n /\ 0 < n /\ n - 0 = n
    OBVIOUS
  <2> QED  BY <1>2, <2>1
<1>6. IsRun(At("DATA", n), data, e)
  BY <1>1, <1>4, <1>5 DEF IsRun
<1>7. Leads(At("DATA", n), data, At("DATA_CR", 0))
  BY <1>1, <1>2, <1>3, <1>6 DEF Leads
<1> QED  BY <1>7 DEF data

(* The rest of a size line and what follows the data.                      *)
LEMMA PartsLead ==
    ASSUME NEW n \in Nat, n > 0
    PROVE  /\ Leads(At("SIZE", n), <<>>, At("SIZE", n))
           /\ Leads(At("SIZE", n), <<"SEMI", "x">>, At("EXT", n))
           /\ Leads(At("SIZE", n), <<"CR", "LF">>, At("DATA", n))
           /\ Leads(At("EXT", n), <<"CR", "LF">>, At("DATA", n))
           /\ Leads(At("DATA_CR", 0), <<"CR", "LF">>, At("SIZE_START", 0))
<1>1. "SEMI" \in Tokens /\ "x" \in Tokens /\ "CR" \in Tokens /\ "LF" \in Tokens
  BY KnownTokens
<1>2. /\ Calm(At("SIZE", n)) /\ Calm(At("EXT", n)) /\ Calm(At("SIZE_CR", n)) /\ Calm(At("DATA", n))
      /\ Calm(At("DATA_CR", 0)) /\ Calm(At("DATA_LF", 0)) /\ Calm(At("SIZE_START", 0))
  BY CalmStates
<1>3. Leads(At("SIZE", n), <<>>, At("SIZE", n))
  BY <1>2, LeadsNone
<1>4. Leads(At("SIZE", n), <<"SEMI", "x">>, At("EXT", n))
  BY <1>1, <1>2, LineSteps, LeadsTwo
<1>5. Leads(At("SIZE", n), <<"CR", "LF">>, At("DATA", n))
  BY <1>1, <1>2, LineSteps, LeadsTwo
<1>6. Leads(At("EXT", n), <<"CR", "LF">>, At("DATA", n))
  BY <1>1, <1>2, LineSteps, LeadsTwo
<1>7. Leads(At("DATA_CR", 0), <<"CR", "LF">>, At("SIZE_START", 0))
  BY <1>1, <1>2, DataSteps, LeadsTwo
<1> QED  BY <1>3, <1>4, <1>5, <1>6, <1>7

(* One whole chunk takes the tracker from its start to its start.          *)
LEMMA ChunkLeads ==
    ASSUME NEW k \in Chunks
    PROVE  Encoded(k) \in Seq(Tokens) /\ Leads(TrackerStart, Encoded(k), TrackerStart)
<1> DEFINE n == SizeOf(k.digits)
           ext == IF k.ext THEN <<"SEMI", "x">> ELSE <<>>
           line == IF k.ext THEN At("EXT", n) ELSE At("SIZE", n)
           crlf == <<"CR", "LF">>
           data == [i \in 1..n |-> "x"]
           S == At("SIZE_START", 0)
<1>1. k.digits \in Seq(DOMAIN Hex) /\ n > 0
  BY ChunksAssumption DEF Chunks
<1>2. n \in Nat /\ Len(k.digits) # 0
  <2>1. PICK v : n = v[Len(k.digits)] /\ v[0] = 0 /\ \A i \in 0..Len(k.digits) : v[i] \in Nat
    BY <1>1, SizeCounts
  <2>2. Len(k.digits) \in Nat
    BY <1>1
  <2>3. Len(k.digits) \in 0..Len(k.digits)
    BY <2>2
  <2>4. n \in Nat
    BY <2>1, <2>3
  <2>5. Len(k.digits) = 0 => n = 0
    BY <2>1
  <2> HIDE DEF n
  <2> QED  BY <1>1, <2>4, <2>5
<1>3. k.digits \in Seq(Tokens)
  BY <1>1, KnownTokens
<1>4. Leads(S, k.digits, At("SIZE", n))
  BY <1>1, <1>2, SizeLeads
<1>5. Encoded(k) = (((k.digits \o ext) \o crlf) \o data) \o crlf
  BY DEF Encoded
<1>6. data \in Seq(Tokens)
  <2>1. "x" \in Tokens
    BY KnownTokens
  <2> HIDE DEF n
  <2> QED  BY <1>2, <2>1
<1> HIDE DEF n
<1>7. Leads(At("SIZE", n), ext, line)
  <2>1. CASE k.ext
    BY <1>1, <1>2, <2>1, PartsLead
  <2>2. CASE ~k.ext
    BY <1>1, <1>2, <2>2, PartsLead
  <2> QED  BY <2>1, <2>2
<1>8. ext \in Seq(Tokens)
  <2>1. <<"SEMI", "x">> \in Seq(Tokens)
    BY KnownTokens
  <2>2. <<>> \in Seq(Tokens)
    OBVIOUS
  <2> QED  BY <2>1, <2>2
<1>9. Leads(line, crlf, At("DATA", n))
  <2>1. CASE k.ext
    BY <1>1, <1>2, <2>1, PartsLead
  <2>2. CASE ~k.ext
    BY <1>1, <1>2, <2>2, PartsLead
  <2> QED  BY <2>1, <2>2
<1>10. crlf \in Seq(Tokens)
  BY KnownTokens
<1>11. Leads(At("DATA", n), data, At("DATA_CR", 0))
  BY <1>1, <1>2, DataLeads
<1>12. Leads(At("DATA_CR", 0), crlf, S)
  BY <1>1, <1>2, PartsLead
<1> HIDE DEF ext, line, crlf, data, S
<1>14. k.digits \o ext \in Seq(Tokens)
  BY <1>3, <1>8
<1>15. Leads(S, k.digits \o ext, line)
  BY <1>3, <1>4, <1>7, <1>8, LeadsJoin
<1>16. (k.digits \o ext) \o crlf \in Seq(Tokens)
  BY <1>10, <1>14
<1>17. Leads(S, (k.digits \o ext) \o crlf, At("DATA", n))
  BY <1>9, <1>10, <1>14, <1>15, LeadsJoin
<1>18. ((k.digits \o ext) \o crlf) \o data \in Seq(Tokens)
  BY <1>6, <1>16
<1>19. Leads(S, ((k.digits \o ext) \o crlf) \o data, At("DATA_CR", 0))
  BY <1>6, <1>11, <1>16, <1>17, LeadsJoin
<1>20. Encoded(k) \in Seq(Tokens)
  BY <1>5, <1>10, <1>18
<1>21. Leads(S, Encoded(k), S)
  BY <1>5, <1>10, <1>12, <1>18, <1>19, LeadsJoin
<1>22. S = TrackerStart
  BY DEF S, At, TrackerStart
<1> QED  BY <1>20, <1>21, <1>22
(* Fed s, the tracker never errs, and it is content with all but the last  *)
(* token, not before.                                                      *)
Frames(s) ==
    \E e : /\ IsRun(TrackerStart, s, e)
           /\ \A i \in 0..Len(s) :
                  e[i].state # "ERROR" /\ (e[i].state = "DONE" <=> i >= Len(s) - 1)

(* The last chunk frames an answer without data.                           *)
LEMMA LastFrames == Frames(LastChunk) /\ LastChunk \in Seq(Tokens) /\ Len(LastChunk) = 5
<1> DEFINE T == <<At("SIZE_START", 0), At("SIZE", 0), At("SIZE_CR", 0), At("TRAILER_CR", 0),
                  At("DONE", 0), At("DONE", 0)>>
           e == [i \in 0..5 |-> T[i + 1]]
<1>1. /\ e[0] = At("SIZE_START", 0) /\ e[1] = At("SIZE", 0) /\ e[2] = At("SIZE_CR", 0)
      /\ e[3] = At("TRAILER_CR", 0) /\ e[4] = At("DONE", 0) /\ e[5] = At("DONE", 0)
  OBVIOUS
<1> HIDE DEF e
<1>2. LastChunk \in Seq(Tokens) /\ Len(LastChunk) = 5
  <2>1. Len(LastChunk) = 5
    BY DEF LastChunk
  <2>2. LastChunk \in Seq(Tokens)
    BY KnownTokens DEF LastChunk
  <2> QED  BY <2>1, <2>2
<1>3. /\ LastChunk[1] = "0" /\ LastChunk[2] = "CR" /\ LastChunk[3] = "LF" /\ LastChunk[4] = "CR"
      /\ LastChunk[5] = "LF"
  BY DEF LastChunk
<1>4. ASSUME NEW i \in 1..5  PROVE e[i] = chunked_step(e[i - 1], LastChunk[i])
  <2>1. CASE i = 1
    <3>1. chunked_step(At("SIZE_START", 0), "0") = At("SIZE", 0)
      <4>1. "0" \in DOMAIN Hex
        BY Digits DEF isxdigit
      <4>2. chunked_step(At("SIZE_START", 0), "0") = At("SIZE", Hex["0"])
        BY <4>1, DigitSteps
      <4> QED  BY <4>2, Digits
    <3> QED  BY <1>1, <1>3, <2>1, <3>1
  <2>2. CASE i = 2
    BY <1>1, <1>3, <2>2, LineSteps
  <2>3. CASE i = 3
    BY <1>1, <1>3, <2>3, LineSteps
  <2>4. CASE i = 4
    BY <1>1, <1>3, <2>4, DataSteps
  <2>5. CASE i = 5
    BY <1>1, <1>3, <2>5, DataSteps
  <2> QED  BY <2>1, <2>2, <2>3, <2>4, <2>5
<1>5. IsRun(TrackerStart, LastChunk, e)
  BY <1>1, <1>2, <1>4 DEF IsRun, At, TrackerStart
<1>6. ASSUME NEW i \in 0..5  PROVE e[i].state # "ERROR" /\ (e[i].state = "DONE" <=> i >= 4)
  BY <1>1 DEF At
<1> QED  BY <1>2, <1>5, <1>6 DEF Frames

(* Chunks before an answer leave it framed.                                *)
LEMMA FramesJoin ==
    ASSUME NEW a \in Seq(Tokens), NEW b \in Seq(Tokens), Len(b) > 1,
           Leads(TrackerStart, a, TrackerStart), Frames(b)
    PROVE  Frames(a \o b)
<1>1. PICK e : /\ IsRun(TrackerStart, a, e) /\ e[Len(a)] = TrackerStart
               /\ \A i \in 0..Len(a) : Calm(e[i])
  BY DEF Leads
<1>2. PICK f : /\ IsRun(TrackerStart, b, f)
               /\ \A i \in 0..Len(b) : f[i].state # "ERROR" /\ (f[i].state = "DONE" <=> i >= Len(b) - 1)
  BY DEF Frames
<1> DEFINE g == [i \in 0..Len(a \o b) |-> IF i <= Len(a) THEN e[i] ELSE f[i - Len(a)]]
<1>3. IsRun(TrackerStart, a \o b, g)
  BY <1>1, <1>2, RunsJoin
<1>4. Len(a \o b) = Len(a) + Len(b) /\ Len(a) \in Nat /\ Len(b) \in Nat
  OBVIOUS
<1>5. ASSUME NEW i \in 0..Len(a \o b)
      PROVE  g[i].state # "ERROR" /\ (g[i].state = "DONE" <=> i >= Len(a \o b) - 1)
  <2>1. CASE i <= Len(a)
    <3>1. i \in 0..Len(a) /\ g[i] = e[i] /\ ~(i >= Len(a \o b) - 1)
      BY <1>4, <2>1
    <3> QED  BY <1>1, <3>1 DEF Calm
  <2>2. CASE ~(i <= Len(a))
    <3>1. i - Len(a) \in 0..Len(b) /\ g[i] = f[i - Len(a)]
      BY <1>4, <2>2
    <3>2. i >= Len(a \o b) - 1 <=> i - Len(a) >= Len(b) - 1
      BY <1>4
    <3> QED  BY <1>2, <3>1, <3>2
  <2> QED  BY <2>1, <2>2
<1> HIDE DEF g
<1> QED  BY <1>3, <1>5 DEF Frames

Joins(seqs, n, f) == f = [i \in 1..n |-> IF i = 1 THEN seqs[i] ELSE f[i - 1] \o seqs[i]]

(* What FlattenSeq computes by can be carried one part on.                 *)
LEMMA JoinsOne ==
    ASSUME NEW seqs, NEW n \in Nat, NEW f, Joins(seqs, n, f)
    PROVE  \E g : Joins(seqs, n + 1, g)
<1> DEFINE next == IF n = 0 THEN seqs[1] ELSE f[n] \o seqs[n + 1]
           g == [i \in 1..(n + 1) |-> IF i <= n THEN f[i] ELSE next]
<1>1. DOMAIN g = 1..(n + 1)
  OBVIOUS
<1>2. ASSUME NEW i \in 1..(n + 1)
      PROVE  g[i] = IF i = 1 THEN seqs[i] ELSE g[i - 1] \o seqs[i]
  <2>0. f = [j \in 1..n |-> IF j = 1 THEN seqs[j] ELSE f[j - 1] \o seqs[j]]
    BY DEF Joins
  <2>1. CASE i <= n
    <3>1. i \in 1..n
      BY <2>1
    <3>2. f[i] = IF i = 1 THEN seqs[i] ELSE f[i - 1] \o seqs[i]
      BY <2>0, <3>1
    <3>3. g[i] = f[i]
      BY <2>1
    <3>4. i # 1 => g[i - 1] = f[i - 1]
      BY <2>1
    <3> HIDE DEF g, next
    <3> QED  BY <3>2, <3>3, <3>4
  <2>2. CASE ~(i <= n)
    <3>1. i = n + 1 /\ i - 1 = n
      BY <2>2
    <3>2. g[i] = next
      BY <2>2
    <3>3. i # 1 => g[i - 1] = f[n] /\ n # 0
      BY <3>1
    <3>4. i = 1 => n = 0
      BY <3>1
    <3>5. CASE i = 1
      <4>1. next = seqs[1]
        BY <3>4, <3>5
      <4> HIDE DEF g, next
      <4> QED  BY <3>2, <3>5, <4>1
    <3>6. CASE i # 1
      <4>1. next = f[n] \o seqs[n + 1]
        BY <3>3, <3>6
      <4> HIDE DEF g, next
      <4> QED  BY <3>1, <3>2, <3>3, <3>6, <4>1
    <3> QED  BY <3>5, <3>6
  <2> QED  BY <2>1, <2>2
<1>3. g = [i \in 1..(n + 1) |-> g[i]]
  BY <1>1
<1>4. g = [i \in 1..(n + 1) |-> IF i = 1 THEN seqs[i] ELSE g[i - 1] \o seqs[i]]
  <2> HIDE DEF g, next
  <2> QED  BY <1>2, <1>3
<1>5. Joins(seqs, n + 1, g)
  <2> HIDE DEF g, next
  <2> QED  BY <1>4 DEF Joins
<1> HIDE DEF g, next
<1> QED  BY <1>5

(* So there is a function that joins n parts, for every n.                 *)
LEMMA JoinsExist ==
    ASSUME NEW seqs, NEW n \in Nat
    PROVE  \E f : Joins(seqs, n, f)
<1> DEFINE wrong == {m \in Nat : \A f : ~Joins(seqs, m, f)}
<1>1. ASSUME wrong # {}  PROVE FALSE
  <2>1. PICK m \in wrong : \A j \in wrong : m <= j
    <3>1. wrong \in SUBSET Nat
      OBVIOUS
    <3> HIDE DEF wrong
    <3> QED  BY <1>1, <3>1, SmallestIs
  <2>2. m # 0
    <3>1. Joins(seqs, 0, <<>>)
      <4>1. <<>> = [i \in 1..0 |-> IF i = 1 THEN seqs[i] ELSE <<>>[i - 1] \o seqs[i]]
        OBVIOUS
      <4> QED  BY <4>1 DEF Joins
    <3> QED  BY <2>1, <3>1
  <2>3. m - 1 \in Nat /\ m - 1 < m /\ (m - 1) + 1 = m
    BY <2>1, <2>2
  <2>4. PICK f : Joins(seqs, m - 1, f)
    BY <2>1, <2>3
  <2>5. \E g : Joins(seqs, (m - 1) + 1, g)
    BY <2>3, <2>4, JoinsOne
  <2> QED  BY <2>1, <2>3, <2>5
<1> QED  BY <1>1

(* FlattenSeq is where such a function ends.                               *)
LEMMA FlattensTo ==
    ASSUME NEW seqs, Len(seqs) \in Nat, Len(seqs) # 0
    PROVE  \E f : Joins(seqs, Len(seqs), f) /\ FlattenSeq(seqs) = f[Len(seqs)]
<1> DEFINE f == CHOOSE g : Joins(seqs, Len(seqs), g)
<1>1. Joins(seqs, Len(seqs), f)
  <2>1. \E g : Joins(seqs, Len(seqs), g)
    BY JoinsExist
  <2> QED  BY <2>1
<1>2. FlattenSeq(seqs) = f[Len(seqs)]
  BY DEF FlattenSeq, Joins
<1> QED  BY <1>1, <1>2

(* However many chunks an answer has, they take the tracker from its start *)
(* to its start.                                                           *)
LEMMA ChunksLead ==
    ASSUME NEW s \in Seq(Chunks)
    PROVE  LET body == FlattenSeq([i \in DOMAIN s |-> Encoded(s[i])])
           IN  body \in Seq(Tokens) /\ Leads(TrackerStart, body, TrackerStart)
<1> DEFINE parts == [i \in DOMAIN s |-> Encoded(s[i])]
           n == Len(parts)
<1>1. \A i \in 1..n : parts[i] \in Seq(Tokens) /\ Leads(TrackerStart, parts[i], TrackerStart)
  <2>1. n = Len(s) /\ DOMAIN s = 1..Len(s)
    OBVIOUS
  <2>2. \A i \in 1..n : s[i] \in Chunks /\ parts[i] = Encoded(s[i])
    BY <2>1
  <2> HIDE DEF parts
  <2> QED  BY <2>2, ChunkLeads
<1>2. n \in Nat
  OBVIOUS
<1> DEFINE Good(b) == b \in Seq(Tokens) /\ Leads(TrackerStart, b, TrackerStart)
<1>3. ASSUME n = 0  PROVE Good(FlattenSeq(parts))
  <2>1. FlattenSeq(parts) = parts
    BY <1>3 DEF FlattenSeq
  <2>2. parts = <<>>
    BY <1>3
  <2>3. Leads(TrackerStart, <<>>, TrackerStart)
    BY LeadsNone DEF Calm, TrackerStart
  <2>4. <<>> \in Seq(Tokens)
    OBVIOUS
  <2> QED  BY <2>1, <2>2, <2>3, <2>4
<1>4. ASSUME n # 0  PROVE Good(FlattenSeq(parts))
  <2> HIDE DEF parts
  <2>1. PICK f : Joins(parts, n, f) /\ FlattenSeq(parts) = f[n]
    BY <1>2, <1>4, FlattensTo
  <2>2. \A i \in 1..n : f[i] = IF i = 1 THEN parts[i] ELSE f[i - 1] \o parts[i]
    BY <2>1 DEF Joins
  <2> DEFINE wrong == {i \in 1..n : ~Good(f[i])}
  <2>3. ASSUME wrong # {}  PROVE FALSE
    <3>1. PICK i \in wrong : \A j \in wrong : i <= j
      <4>1. wrong \in SUBSET Nat
        OBVIOUS
      <4> HIDE DEF wrong
      <4> QED  BY <2>3, <4>1, SmallestIs
    <3>2. i # 1
      BY <1>1, <2>2, <3>1
    <3>3. i - 1 \in 1..n /\ i - 1 < i /\ i \in 1..n
      BY <1>2, <3>1, <3>2
    <3>4. Good(f[i - 1])
      BY <3>1, <3>3
    <3>5. f[i] = f[i - 1] \o parts[i]
      BY <2>2, <3>2, <3>3
    <3>6. Good(parts[i])
      BY <1>1, <3>3
    <3>7. f[i - 1] \o parts[i] \in Seq(Tokens)
      BY <3>4, <3>6
    <3>8. Leads(TrackerStart, f[i - 1] \o parts[i], TrackerStart)
      BY <3>4, <3>6, LeadsJoin
    <3> QED  BY <3>1, <3>5, <3>7, <3>8
  <2>4. Good(f[n])
    BY <1>2, <1>4, <2>3
  <2> QED  BY <2>1, <2>4
<1>5. Good(FlattenSeq(parts))
  BY <1>3, <1>4
<1> QED  BY <1>5

(* The length of two sequences joined.                                     *)
LEMMA LengthsAdd ==
    ASSUME NEW a \in Seq(Tokens), NEW b \in Seq(Tokens)
    PROVE  Len(a \o b) = Len(a) + Len(b) /\ Len(a) \in Nat
OBVIOUS

(* Every encoding of at most MaxChunks chunks frames an answer.            *)
LEMMA EncodingFrames ==
    ASSUME NEW body \in Encodings
    PROVE  Frames(body) /\ body \in Seq(Tokens) /\ Len(body) > 1
<1>1. PICK s \in BoundedSeq(Chunks, MaxChunks) : body = Encoding(s)
  BY DEF Encodings
<1>2. s \in Seq(Chunks)
  <2>1. PICK m \in 0..MaxChunks : s \in [1..m -> Chunks]
    BY <1>1 DEF BoundedSeq, SeqOf
  <2>2. m \in Nat
    BY ChunksAssumption
  <2> QED  BY <2>1, <2>2
<1> DEFINE first == FlattenSeq([i \in DOMAIN s |-> Encoded(s[i])])
<1>3. first \in Seq(Tokens) /\ Leads(TrackerStart, first, TrackerStart)
  BY <1>2, ChunksLead
<1>4. body = first \o LastChunk
  BY <1>1 DEF Encoding
<1> HIDE DEF first
<1>5. body \in Seq(Tokens)
  BY <1>3, <1>4, LastFrames
<1>8. Len(LastChunk) = 5 /\ LastChunk \in Seq(Tokens)
  BY LastFrames
<1>9. Len(LastChunk) > 1
  BY <1>8
<1>6. Frames(body)
  <2>1. Frames(first \o LastChunk)
    BY <1>3, <1>8, <1>9, LastFrames, FramesJoin
  <2> QED  BY <1>4, <2>1
<1>7. Len(body) > 1
  <2>1. Len(first) \in Nat
    BY <1>3
  <2>2. Len(first \o LastChunk) = Len(first) + Len(LastChunk)
    BY <1>3, <1>8, LengthsAdd
  <2> QED  BY <1>4, <1>8, <2>1, <2>2
<1> QED  BY <1>5, <1>6, <1>7

-----------------------------------------------------------------------------
(* The tracker after the first n tokens of an answer fed at once, and      *)
(* whether the answer is over by then.                                     *)
Fed(a, n) == FoldLeft(chunked_step, TrackerStart, SubSeq(a.body, 1, n))

CompleteAt(a, n) ==
    \/ a.length # None /\ Remaining(a, n) = 0
    \/ a.chunked /\ Fed(a, n).state = "DONE"

(* The property of one connection.                                         *)
EndsWhole(k) ==
    k.end # None /\ WellFormed(k.answer) =>
        /\ k.end # "broken"
        /\ k.answer.chunked \/ k.answer.length # None =>
              /\ k.end = "whole" => k.out >= Needed(k.answer)
              /\ k.out >= Needed(k.answer) =>
                    k.end = "whole" \/ (Needed(k.answer) = 0 /\ k.end = "client")

Fields == {"phase", "answer", "tracker", "read", "out", "end"}

Under(k) ==
    /\ k.end = None /\ k.answer \in Answers
    /\ k.read \in 0..Len(k.answer.body) /\ k.out \in 0..k.read
    /\ k.answer.chunked => k.tracker = Fed(k.answer, k.read)

(* Where a relay stands: while it is under way the tracker is where        *)
(* feeding it all at once had left it, the client has what was read or all *)
(* but the last of it, and what it has is no whole answer.                 *)
Relays(k) ==
    /\ Fields \subseteq DOMAIN k
    /\ k.phase \in {"sending", "relay"} => Under(k)
    /\ k.phase = "relay" => k.out = k.read /\ ~CompleteAt(k.answer, k.read)
    /\ k.phase = "sending" => k.read = 0 \/ ~CompleteAt(k.answer, k.out)
    /\ k.phase \notin {"sending", "relay", "closing"} => k.end = None /\ k.read = 0 /\ k.out = 0
    /\ EndsWhole(k)

Relaying == DOMAIN conn = Conns /\ \A c \in Conns : Relays(conn[c])

(* An answer's body is a sequence of tokens.                               *)
LEMMA BodyIsTokens ==
    ASSUME NEW a \in Answers
    PROVE  a.body \in Seq(Tokens) /\ Len(a.body) \in Nat
BY AnswersAssumption

(* A well-formed answer is over when what it needs is there, not before.   *)
LEMMA NeededIsEnough ==
    ASSUME NEW a \in Answers, WellFormed(a), a.chunked \/ a.length # None, NEW n \in 0..Len(a.body)
    PROVE  /\ CompleteAt(a, n) <=> n >= Needed(a)
           /\ Needed(a) \in Nat
           /\ a.chunked => Needed(a) > 0 /\ Fed(a, n).state # "ERROR"
<1>1. CASE a.chunked
  <2>1. a.length = None /\ a.body \in Encodings
    BY <1>1 DEF WellFormed
  <2>2. a.body \in Seq(Tokens) /\ Frames(a.body) /\ Len(a.body) > 1 /\ Len(a.body) \in Nat
    BY <2>1, EncodingFrames, BodyIsTokens
  <2>3. PICK e : /\ IsRun(TrackerStart, a.body, e)
                 /\ \A i \in 0..Len(a.body) :
                        e[i].state # "ERROR" /\ (e[i].state = "DONE" <=> i >= Len(a.body) - 1)
    BY <2>2 DEF Frames
  <2>4. Fed(a, n) = e[n]
    BY <2>2, <2>3, RunOfPrefix DEF Fed
  <2>5. Needed(a) = Len(a.body) - 1
    BY <1>1 DEF Needed
  <2>6. CompleteAt(a, n) <=> n >= Needed(a)
    BY <1>1, <2>1, <2>3, <2>4, <2>5 DEF CompleteAt
  <2>7. Fed(a, n).state # "ERROR"
    BY <2>3, <2>4
  <2> QED  BY <2>2, <2>5, <2>6, <2>7
<1>2. CASE ~a.chunked
  <2>1. a.length = Len(a.body) /\ a.length # None /\ Len(a.body) \in Nat
    BY <1>2, BodyIsTokens DEF WellFormed
  <2>2. Needed(a) = a.length /\ Remaining(a, n) = a.length - n
    BY <1>2 DEF Needed, Remaining
  <2> QED  BY <1>2, <2>1, <2>2 DEF CompleteAt
<1> QED  BY <1>1, <1>2

(* A relay that stops where the answer is not over stops short of it.      *)
LEMMA StopsShort ==
    ASSUME NEW k, Under(k), k.read = 0 \/ ~CompleteAt(k.answer, k.out), NEW k2, Fields \subseteq DOMAIN k2,
           k2.phase = "closing", k2.answer = k.answer, k2.out = k.out,
           \/ k2.end = "client"
           \/ k2.end = "short" /\ ~CompleteAt(k.answer, k.out)
    PROVE  Relays(k2)
<1> SUFFICES ASSUME WellFormed(k.answer), k.answer.chunked \/ k.answer.length # None, k.out >= Needed(k.answer)
             PROVE  Needed(k.answer) = 0 /\ k2.end = "client"
  BY DEF Relays, EndsWhole
<1> DEFINE a == k.answer
<1>1. a \in Answers /\ k.read \in 0..Len(a.body) /\ k.out \in 0..k.read /\ Len(a.body) \in Nat
  BY BodyIsTokens DEF Under
<1>2. k.out \in 0..Len(a.body)
  BY <1>1
<1>3. Needed(a) \in Nat /\ (CompleteAt(a, k.out) <=> k.out >= Needed(a))
  BY <1>1, <1>2, NeededIsEnough
<1>4. k.read = 0 /\ k2.end = "client"
  BY <1>3
<1> QED  BY <1>1, <1>3, <1>4

(* The answer's head goes out and nothing is read yet.                     *)
LEMMA HeadRelays ==
    ASSUME Relaying, NEW c \in Conns, NEW a \in Answers, AnswerHead(c, a)
    PROVE  Relays(conn'[c])
<1>1. CASE a.head = "bad"
  BY <1>1 DEF Relaying, Relays, AnswerHead, Ends, Fields, EndsWhole
<1>2. CASE a.head # "bad"
  <2> DEFINE k2 == conn'[c]
  <2>1. /\ Fields \subseteq DOMAIN k2 /\ k2.phase = "sending" /\ k2.answer = a /\ k2.tracker = TrackerStart
        /\ k2.read = 0 /\ k2.out = 0 /\ k2.end = None
    BY <1>2 DEF Relaying, Relays, AnswerHead, Fields
  <2>2. Len(a.body) \in Nat
    BY BodyIsTokens
  <2>3. Fed(a, 0) = TrackerStart
    <3>1. SubSeq(a.body, 1, 0) = <<>>
      BY BodyIsTokens
    <3> DEFINE e == [i \in 0..0 |-> TrackerStart]
    <3>2. <<>> \in Seq(Tokens) /\ Len(<<>>) = 0 /\ e[0] = TrackerStart
      OBVIOUS
    <3> HIDE DEF e
    <3>3. IsRun(TrackerStart, <<>>, e)
      BY <3>2 DEF IsRun
    <3>4. FoldLeft(chunked_step, TrackerStart, <<>>) = TrackerStart
      BY <3>2, <3>3, RunIsFold
    <3> QED  BY <3>1, <3>4 DEF Fed
  <2>4. Relays(k2)
    <3> HIDE DEF k2
    <3>1. Under(k2)
      BY <2>1, <2>2, <2>3 DEF Under
    <3> QED  BY <2>1, <3>1 DEF Relays, EndsWhole
  <2> QED  BY <2>4
<1> QED  BY <1>1, <1>2

(* However the reads cut the answer, a read leaves the tracker where feeding *)
(* it all at once had left it.                                             *)
LEMMA TrackedIsFed ==
    ASSUME NEW k, Under(k), k.answer.chunked, NEW n \in k.read + 1..Len(k.answer.body)
    PROVE  Tracked(k, n) = Fed(k.answer, n)
<1> DEFINE s == k.answer.body
<1>1. s \in Seq(Tokens) /\ Len(s) \in Nat
  BY BodyIsTokens DEF Under
<1>2. k.read \in 0..Len(s) /\ n \in k.read..Len(s)
  BY <1>1 DEF Under
<1>3. FoldLeft(chunked_step, FoldLeft(chunked_step, TrackerStart, SubSeq(s, 1, k.read)), SubSeq(s, k.read + 1, n))
        = FoldLeft(chunked_step, TrackerStart, SubSeq(s, 1, n))
  BY <1>1, <1>2, FedInPieces
<1>4. k.tracker = FoldLeft(chunked_step, TrackerStart, SubSeq(s, 1, k.read))
  BY DEF Under, Fed
<1> QED  BY <1>3, <1>4 DEF Tracked, Fed

(* A read is passed on to be sent, unless it breaks the framing.           *)
LEMMA ReadRelays ==
    ASSUME Relaying, NEW c \in Conns, Read(c)
    PROVE  Relays(conn'[c])
<1> DEFINE k == conn[c]
           a == k.answer
           k2 == conn'[c]
<1>1. k.phase = "relay" /\ Relays(k)
  BY DEF Read, Relaying
<1>2. Under(k) /\ k.out = k.read /\ ~CompleteAt(a, k.out) /\ Fields \subseteq DOMAIN k
  BY <1>1 DEF Relays
<1>3. a \in Answers /\ a.body \in Seq(Tokens) /\ Len(a.body) \in Nat /\ k.read \in 0..Len(a.body)
  BY <1>2, BodyIsTokens DEF Under
<1>4. PICK n \in k.read + 1..Len(a.body) :
          IF Overrun(k, n) THEN Cut(c, "broken")
          ELSE conn' = [conn EXCEPT ![c].phase = "sending", ![c].read = n, ![c].tracker = Tracked(k, n)]
  BY DEF Read
<1>5. n \in 0..Len(a.body) /\ n > k.read /\ n \in Nat
  BY <1>3, <1>4
<1>6. a.chunked => Tracked(k, n) = Fed(a, n)
  BY <1>2, <1>4, TrackedIsFed
<1>7. CASE Overrun(k, n)
  <2>1. /\ Fields \subseteq DOMAIN k2 /\ k2.phase = "closing" /\ k2.end = "broken"
        /\ k2.answer = a
    BY <1>2, <1>4, <1>7 DEF Cut, Relaying, Fields
  <2>2. ~WellFormed(a)
    <3> SUFFICES ASSUME WellFormed(a)  PROVE FALSE
      OBVIOUS
    <3>1. CASE a.chunked
      <4>1. Fed(a, n).state = "ERROR"
        BY <1>6, <1>7, <3>1 DEF Overrun
      <4> QED  BY <1>3, <1>5, <3>1, <4>1, NeededIsEnough
    <3>2. CASE ~a.chunked
      BY <1>3, <1>5, <1>7, <3>2 DEF Overrun, WellFormed
    <3> QED  BY <3>1, <3>2
  <2>3. Relays(k2)
    <3> HIDE DEF k2, k
    <3> QED  BY <2>1, <2>2 DEF Relays, EndsWhole
  <2> QED  BY <2>3
<1>8. CASE ~Overrun(k, n)
  <2>1. /\ Fields \subseteq DOMAIN k2 /\ k2.phase = "sending" /\ k2.end = k.end /\ k2.answer = a
        /\ k2.read = n /\ k2.out = k.out /\ k2.tracker = Tracked(k, n)
    BY <1>2, <1>4, <1>8 DEF Relaying, Fields
  <2>2. Relays(k2)
    <3> HIDE DEF k2, k
    <3>1. Under(k2)
      BY <1>2, <1>3, <1>5, <1>6, <2>1 DEF Under
    <3> QED  BY <1>2, <2>1, <3>1 DEF Relays, EndsWhole, Under
  <2> QED  BY <2>2
<1> QED  BY <1>7, <1>8

(* The client takes what was read, and the relay is over or reads on.      *)
LEMMA TakesRelays ==
    ASSUME Relaying, NEW c \in Conns, ClientTakes(c)
    PROVE  Relays(conn'[c])
<1> DEFINE k == conn[c]
           a == k.answer
           k2 == conn'[c]
<1>1. k.phase = "sending" /\ Relays(k)
  BY DEF ClientTakes, Relaying
<1>2. Under(k) /\ Fields \subseteq DOMAIN k
  BY <1>1 DEF Relays
<1>3. a \in Answers /\ Len(a.body) \in Nat /\ k.read \in 0..Len(a.body)
  BY <1>2, BodyIsTokens DEF Under
<1>4. Complete(k) <=> CompleteAt(a, k.read)
  BY <1>2 DEF Complete, CompleteAt, Under
<1>5. CASE Complete(k)
  <2>1. /\ Fields \subseteq DOMAIN k2 /\ k2.phase = "closing" /\ k2.end = "whole"
        /\ k2.answer = a /\ k2.out = k.read
    BY <1>2, <1>5 DEF ClientTakes, Relaying, Fields
  <2>2. ASSUME WellFormed(a), a.chunked \/ a.length # None  PROVE k.read >= Needed(a)
    BY <1>3, <1>4, <1>5, <2>2, NeededIsEnough
  <2>3. Relays(k2)
    <3> HIDE DEF k2, k
    <3> QED  BY <2>1, <2>2 DEF Relays, EndsWhole
  <2> QED  BY <2>3
<1>6. CASE ~Complete(k)
  <2>1. /\ Fields \subseteq DOMAIN k2 /\ k2.phase = "relay" /\ k2.end = k.end /\ k2.answer = a
        /\ k2.read = k.read /\ k2.out = k.read /\ k2.tracker = k.tracker
    BY <1>2, <1>6 DEF ClientTakes, Relaying, Fields
  <2>2. Relays(k2)
    <3> HIDE DEF k2, k
    <3>1. Under(k2)
      BY <1>2, <1>3, <2>1 DEF Under
    <3> QED  BY <1>2, <1>4, <1>6, <2>1, <3>1 DEF Relays, EndsWhole, Under
  <2> QED  BY <2>2
<1> QED  BY <1>5, <1>6

(* A peer goes.                                                            *)
LEMMA StopRelays ==
    ASSUME Relaying, NEW c \in Conns, ClientLost(c) \/ Probe(c) \/ UpstreamEof(c) \/ UpstreamFails(c)
    PROVE  Relays(conn'[c])
<1> DEFINE k == conn[c]
           a == k.answer
           k2 == conn'[c]
<1>1. k.phase \in {"sending", "relay"} /\ Relays(k)
  BY DEF ClientLost, Probe, UpstreamEof, UpstreamFails, Relaying
<1>2. Under(k) /\ Fields \subseteq DOMAIN k
  BY <1>1 DEF Relays
<1>3. k.read = 0 \/ ~CompleteAt(a, k.out)
  BY <1>1 DEF Relays
<1>4. PICK why : Cut(c, why)
  BY DEF ClientLost, Probe, UpstreamEof, UpstreamFails
<1>5. /\ Fields \subseteq DOMAIN k2 /\ k2.phase = "closing" /\ k2.answer = a /\ k2.out = k.out
      /\ k2.end = why
  BY <1>2, <1>4 DEF Cut, Relaying, Fields
<1>6. CASE ClientLost(c) \/ Probe(c)
  <2>1. k2.end = "client"
    BY <1>2, <1>6 DEF ClientLost, Probe, Cut, Relaying, Fields
  <2>2. Relays(k2)
    <3> HIDE DEF k2, k
    <3> QED  BY <1>2, <1>3, <1>5, <2>1, StopsShort
  <2> QED  BY <2>2
<1>7. CASE UpstreamEof(c) \/ UpstreamFails(c)
  <2>1. k.phase = "relay"
    BY <1>7 DEF UpstreamEof, UpstreamFails
  <2>2. k.out = k.read /\ ~CompleteAt(a, k.out)
    BY <1>1, <2>1 DEF Relays
  <2>3. \/ k2.end = "short"
        \/ k2.end = "whole" /\ ~((a.length # None /\ Remaining(a, k.read) > 0) \/ a.chunked)
    BY <1>2, <1>7 DEF UpstreamEof, UpstreamFails, Cut, Relaying, Fields
  <2>4. CASE k2.end = "short"
    <3>1. Relays(k2)
      <4> HIDE DEF k2, k
      <4> QED  BY <1>2, <1>3, <1>5, <2>2, <2>4, StopsShort
    <3> QED  BY <3>1
  <2>5. CASE k2.end = "whole" /\ ~((a.length # None /\ Remaining(a, k.read) > 0) \/ a.chunked)
    <3>1. ASSUME WellFormed(a), a.length # None  PROVE FALSE
      <4>1. a \in Answers /\ Len(a.body) \in Nat /\ k.read \in 0..Len(a.body)
        BY <1>2, BodyIsTokens DEF Under
      <4>2. a.length = Len(a.body) /\ Remaining(a, k.read) = a.length - k.read
        BY <2>5, <3>1 DEF WellFormed, Remaining
      <4>3. Remaining(a, k.read) = 0
        BY <2>5, <3>1, <4>1, <4>2
      <4> QED  BY <2>2, <3>1, <4>3 DEF CompleteAt
    <3>2. Relays(k2)
      <4> HIDE DEF k2, k
      <4> QED  BY <1>5, <2>5, <3>1 DEF Relays, EndsWhole
    <3> QED  BY <3>2
  <2> QED  BY <2>3, <2>4, <2>5
<1> QED  BY <1>6, <1>7

(* Before there is an answer nothing is relayed, and steps that stay       *)
(* before it or end the connection leave it so.                            *)
LEMMA EarlyRelays ==
    ASSUME NEW k, Relays(k), NEW k2, Fields \subseteq DOMAIN k2,
           k.phase \notin {"sending", "relay", "closing"}, k2.phase \notin {"sending", "relay"},
           k2.end = k.end, k2.read = k.read, k2.out = k.out
    PROVE  Relays(k2)
BY DEF Relays, EndsWhole

(* The place is idle again.                                                *)
LEMMA FreedRelays ==
    ASSUME NEW c \in Conns, Relaying, Freed(c)
    PROVE  Relays(conn'[c])
<1>1. conn'[c] = Idle
  BY DEF Freed, Relaying
<1>2. Relays(Idle)
  BY DEF Relays, EndsWhole, Idle, Fields
<1> QED  BY <1>1, <1>2

(* The steps before the answer, and those that end without one.            *)
LEMMA EarlyStepRelays ==
    ASSUME Relaying, NEW c \in Conns,
           \/ Accept(c) \/ Thread(c) \/ HeadLost(c) \/ \E q \in Requests : Handle(c, q)
           \/ Connect(c) \/ Receive(c) \/ UpstreamTakes(c) \/ BodyLost(c) \/ UploadFails(c) \/ NoAnswer(c)
    PROVE  Relays(conn'[c])
<1> DEFINE k == conn[c]
           k2 == conn'[c]
           Early == /\ Fields \subseteq DOMAIN k2
                    /\ k.phase \notin {"sending", "relay", "closing"} /\ k2.phase \notin {"sending", "relay"}
                    /\ k2.end = k.end /\ k2.read = k.read /\ k2.out = k.out
<1>1. Relays(k) /\ Fields \subseteq DOMAIN k /\ DOMAIN conn = Conns
  BY DEF Relaying, Relays
<1>2. Early
  <2>1. CASE Accept(c) \/ Thread(c)
    BY <1>1, <2>1 DEF Accept, Thread, Fields
  <2>2. CASE HeadLost(c) \/ BodyLost(c) \/ UploadFails(c) \/ NoAnswer(c)
    BY <1>1, <2>2 DEF HeadLost, BodyLost, UploadFails, NoAnswer, Ends, Fields
  <2>3. ASSUME NEW q \in Requests, Handle(c, q)  PROVE Early
    <3>1. CASE Refusal(q) # 0
      BY <1>1, <2>3, <3>1 DEF Handle, Ends, Fields
    <3>2. CASE ~(Refusal(q) # 0)
      <4>1. /\ k.phase = "head"
            /\ conn' = [conn EXCEPT ![c].phase = "connect", ![c].admitted = TRUE,
                                    ![c].left = Length(q), ![c].held = Carried(q)]
        BY <2>3, <3>2 DEF Handle
      <4>2. k2 = [k EXCEPT !.phase = "connect", !.admitted = TRUE,
                           !.left = Length(q), !.held = Carried(q)]
        BY <1>1, <4>1
      <4> HIDE DEF k2
      <4>3. DOMAIN k2 = DOMAIN k
        BY <4>2
      <4>4. k2.phase = "connect" /\ k2.end = k.end /\ k2.read = k.read /\ k2.out = k.out
        BY <1>1, <4>2 DEF Fields
      <4> QED  BY <1>1, <4>1, <4>3, <4>4
    <3> QED  BY <3>1, <3>2
  <2>4. CASE Connect(c)
    BY <1>1, <2>4 DEF Connect, Above, Ends, Fields
  <2>5. CASE Receive(c)
    BY <1>1, <2>5 DEF Receive, Fields
  <2>6. CASE UpstreamTakes(c)
    BY <1>1, <2>6 DEF UpstreamTakes, Above, Fields
  <2> QED  BY <2>1, <2>2, <2>3, <2>4, <2>5, <2>6
<1>3. Relays(k2)
  <2> HIDE DEF k, k2
  <2> QED  BY <1>1, <1>2, EarlyRelays
<1> QED  BY <1>3

(* No connection relays at first.                                          *)
LEMMA InitRelays == Init => Relaying
BY DEF Init, Relaying, Relays, EndsWhole, Idle, Fields

(* A step is one connection's.                                             *)
LEMMA StepRelays ==
    ASSUME Relaying, [Next]_vars
    PROVE  Relaying'
<1>1. CASE UNCHANGED conn
  BY <1>1 DEF Relaying, Relays, Under, EndsWhole
<1>2. ASSUME NEW c \in Conns,
             \/ Accept(c) \/ NoThread(c) \/ Thread(c)
             \/ HeadLost(c) \/ \E q \in Requests : Handle(c, q)
             \/ Connect(c) \/ Receive(c) \/ UpstreamTakes(c) \/ BodyLost(c) \/ UploadFails(c)
             \/ NoAnswer(c) \/ \E a \in Answers : AnswerHead(c, a)
             \/ Read(c) \/ ClientTakes(c) \/ ClientLost(c) \/ Probe(c)
             \/ UpstreamEof(c) \/ UpstreamFails(c) \/ Finish(c)
      PROVE  Relaying'
  <2>1. DOMAIN conn' = Conns /\ \A d \in Conns \ {c} : conn'[d] = conn[d]
    <3>1. CASE \/ Accept(c) \/ NoThread(c) \/ Thread(c) \/ HeadLost(c) \/ Finish(c)
      BY <3>1 DEF Relaying, Accept, NoThread, Thread, HeadLost, Finish, Freed, Ends
    <3>2. CASE \E q \in Requests : Handle(c, q)
      BY <3>2 DEF Relaying, Handle, Ends
    <3>3. CASE Connect(c) \/ Receive(c) \/ UpstreamTakes(c) \/ BodyLost(c) \/ UploadFails(c) \/ NoAnswer(c)
      BY <3>3 DEF Relaying, Connect, Receive, UpstreamTakes, BodyLost, UploadFails, NoAnswer, Ends
    <3>4. CASE \E a \in Answers : AnswerHead(c, a)
      BY <3>4 DEF Relaying, AnswerHead, Ends
    <3>5. CASE Read(c) \/ ClientTakes(c)
      BY <3>5 DEF Relaying, Read, ClientTakes, Cut
    <3>6. CASE ClientLost(c) \/ Probe(c) \/ UpstreamEof(c) \/ UpstreamFails(c)
      BY <3>6 DEF Relaying, ClientLost, Probe, UpstreamEof, UpstreamFails, Cut
    <3> QED  BY <1>2, <3>1, <3>2, <3>3, <3>4, <3>5, <3>6
  <2>2. Relays(conn'[c])
    <3>1. CASE NoThread(c) \/ Finish(c)
      BY <3>1, FreedRelays DEF NoThread, Finish
    <3>2. CASE \E a \in Answers : AnswerHead(c, a)
      BY <3>2, HeadRelays
    <3>3. CASE Read(c) \/ ClientTakes(c)
      BY <3>3, ReadRelays, TakesRelays
    <3>4. CASE ClientLost(c) \/ Probe(c) \/ UpstreamEof(c) \/ UpstreamFails(c)
      BY <3>4, StopRelays
    <3> QED  BY <1>2, <3>1, <3>2, <3>3, <3>4, EarlyStepRelays
  <2>3. ASSUME NEW d \in Conns  PROVE Relays(conn'[d])
    BY <2>1, <2>2 DEF Relaying
  <2> QED  BY <2>1, <2>3 DEF Relaying, Relays, Under, EndsWhole
<1>3. ASSUME NEW c \in Conns, Leave(c)  PROVE UNCHANGED conn
  BY <1>3 DEF Leave
<1>4. Boot \/ UNCHANGED vars => UNCHANGED conn
  BY DEF Boot, vars
<1> QED  BY <1>1, <1>2, <1>3, <1>4 DEF Next

(* While an answer is relayed the tracker is where feeding it all that was *)
(* read at once had left it, wherever the reads cut the answer: between    *)
(* the digits of a size, in its line, or between CR and LF (chunked_step,  *)
(* tracer.c:278).                                                          *)
FedAtOnce ==
    \A c \in Conns :
        conn[c].phase \in {"sending", "relay"} /\ conn[c].answer.chunked =>
            conn[c].tracker = Fed(conn[c].answer, conn[c].read)

THEOREM CutsDoNotMatter == Spec => []FedAtOnce
<1>1. Init => Relaying
  BY InitRelays
<1>2. Relaying /\ [Next]_vars => Relaying'
  BY StepRelays
<1>3. Relaying => FedAtOnce
  BY DEF Relaying, Relays, Under, FedAtOnce
<1> QED  BY <1>1, <1>2, <1>3, PTL DEF Spec

(* An answer framed as HTTP/1.1 frames it, of however many chunks, is      *)
(* relayed to its end unless a peer goes first, and one that is cut short  *)
(* is not taken for whole (relay_response, tracer.c:417-524).              *)
THEOREM WholeAnswers == Spec => []WholeAnswerRelayed
<1>1. Init => Relaying
  BY InitRelays
<1>2. Relaying /\ [Next]_vars => Relaying'
  BY StepRelays
<1>3. Relaying => WholeAnswerRelayed
  BY DEF Relaying, Relays, EndsWhole, WholeAnswerRelayed
<1> QED  BY <1>1, <1>2, <1>3, PTL DEF Spec
=============================================================================
