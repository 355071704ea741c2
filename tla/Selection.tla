------------------------------ MODULE Selection ------------------------------
(***************************************************************************)
(* Which candidate serves an unpinned automatic turn: the selector         *)
(* (core/src/context/selector.c), the estimated cost of a turn (cost.c)    *)
(* and the order in which rc_gateway_prepare consults them, the budget,    *)
(* the context limit and the compliance gate                               *)
(* (gateway_context.c:1410-1557).                                          *)
(*                                                                         *)
(* Prices are natural numbers: only sums and comparisons matter.  Token    *)
(* counts keep their width, MaxWord standing for UINT64_MAX.               *)
(***************************************************************************)
EXTENDS Naturals, Sequences, SequencesExt, FiniteSets

CONSTANTS
    MaxWord,        \* UINT64_MAX
    DefaultOutput   \* RC_COST_DEFAULT_OUTPUT_TOKENS

ASSUME SelectionAssumption == MaxWord \in Nat /\ DefaultOutput \in 1..MaxWord

-----------------------------------------------------------------------------
(* cost.c *)
add(a, b) == IF a > MaxWord - b THEN MaxWord ELSE a + b

quarter(bytes) == bytes \div 4 + (IF bytes % 4 # 0 THEN 1 ELSE 0)

(* last: what the provider reported for the previous exchange.             *)
rc_estimate_prompt_tokens(last, appended, request) ==
    IF last.known THEN add(add(last.prompt, last.completion), quarter(appended)) ELSE quarter(request)

rc_estimate_output_tokens(max, expected) ==
    LET e == IF expected = 0 THEN DefaultOutput ELSE expected IN IF max < e THEN max ELSE e

rc_cached_input_tokens(owner, last, prompt) ==
    IF ~owner \/ ~last.known \/ last.cached = 0 THEN 0
    ELSE IF last.prompt < prompt THEN last.prompt ELSE prompt

rc_turn_cost(price, prompt, cached, output) ==
    LET c == IF cached > prompt THEN prompt ELSE cached
    IN (prompt - c) * price.input + c * price.cached + output * price.output

zero_price(price) == price.input = 0 /\ price.output = 0

-----------------------------------------------------------------------------
(* selector.c.  r: the registry, a sequence of candidates in insertion     *)
(* order; quotes: what the caller allows and expects each to cost.         *)
eligible(c, quote, q) == quote.permitted /\ c.limit >= q.tokens /\ q.capabilities \subseteq c.capabilities

Eligible(r, quotes, q) == {i \in DOMAIN r : eligible(r[i], quotes[i], q)}

(* One pass over the registry that keeps the best of the able candidates   *)
(* seen so far, starting from first (0: from none).                        *)
BetterFirst(r, quotes, first, i, best) ==  \* mutant: ties go to the first one configured
    best = 0 \/ quotes[i].cost < quotes[best].cost

Better(r, quotes, first, i, best) ==
    \/ best = 0
    \/ quotes[i].cost < quotes[best].cost
    \/ best # first /\ quotes[i].cost = quotes[best].cost /\ r[i].alias < r[best].alias

Pass(r, quotes, first, able) ==
    FoldLeft(LAMBDA best, i : IF i \in able /\ Better(r, quotes, first, i, best) THEN i ELSE best,
             first, [i \in DOMAIN r |-> i])

Fresh(q) == q.usable /\ q.observed <= q.now /\ q.now < q.expires

TaskClasses(q) == {q.signal} \cup (IF Fresh(q) THEN {q.task} ELSE {})

Qualified(r, class) == {i \in DOMAIN r : class # "none" /\ class \in r[i].qualified}

Downshift(r, quotes, q, baseline) ==
    LET able == (UNION {Qualified(r, c) : c \in TaskClasses(q)}) \cap Eligible(r, quotes, q)
        best == Pass(r, quotes, baseline, able)
    IN IF quotes[baseline].cost - quotes[best].cost <= q.saving THEN baseline ELSE best

rc_select(r, quotes, q) ==
    LET ok == Eligible(r, quotes, q)
        pin == {i \in ok : r[i].alias = q.pinned}
        base == {i \in ok : r[i].alias = q.baseline}
        up == Pass(r, quotes, 0, Qualified(r, q.escalation) \cap ok)
        blocked == [status |-> "blocked", at |-> 0, reason |-> "none"]
        Took(i, reason) == [status |-> "ok", at |-> i, reason |-> IF i \in base THEN "baseline" ELSE reason]
    IN IF q.tokens = 0 THEN [blocked EXCEPT !.status = "invalid"]
       ELSE CASE q.continuity = "pinned" /\ pin # {} ->
                     [status |-> "ok", at |-> CHOOSE i \in pin : TRUE, reason |-> "pin"]
              [] q.continuity = "replayable" /\ base # {} ->
                     IF up # 0 THEN Took(up, "escalate")
                     ELSE Took(Downshift(r, quotes, q, CHOOSE i \in base : TRUE), "cheapest")
              [] OTHER -> blocked

-----------------------------------------------------------------------------
(* The contract of selector.h: out is what rc_select may answer.           *)
Least(r, quotes, S, i) ==
    /\ i \in S
    /\ \A j \in S \ {i} : \/ quotes[i].cost < quotes[j].cost
                          \/ quotes[i].cost = quotes[j].cost /\ r[i].alias < r[j].alias

Meets(r, quotes, q, out) ==
    LET ok == Eligible(r, quotes, q)
        base == {i \in ok : r[i].alias = q.baseline}
        up == Qualified(r, q.escalation) \cap ok
        cheaper == {i \in ok : /\ \E c \in TaskClasses(q) : i \in Qualified(r, c)
                               /\ \A b \in base : quotes[i].cost + q.saving < quotes[b].cost}
    IN CASE q.continuity = "unknown" \/ (q.continuity = "replayable" /\ base = {}) -> out.status = "blocked"
         [] q.continuity = "pinned" ->
                IF \E i \in ok : r[i].alias = q.pinned
                THEN out.status = "ok" /\ out.reason = "pin" /\ r[out.at].alias = q.pinned /\ out.at \in ok
                ELSE out.status = "blocked"
         [] OTHER ->
                /\ out.status = "ok"
                /\ IF up # {} THEN Least(r, quotes, up, out.at)
                   ELSE IF cheaper # {} THEN Least(r, quotes, cheaper, out.at) ELSE out.at \in base
                /\ out.reason = IF out.at \in base THEN "baseline" ELSE IF up # {} THEN "escalate" ELSE "cheapest"

-----------------------------------------------------------------------------
(* gateway_context.c, prepare: the class of the turn after the advisors    *)
(* have spoken.  t: the facts of the turn; structural: neither a retry nor *)
(* unbounded; routine: the judge was asked and calls the step routine;     *)
(* veto, push: the efficiency model is under or over its thresholds;       *)
(* simple: the prompt classifier expects an easy question.                 *)
Judged(t, signal) ==
    IF t.routine /\ signal = "none" /\ t.turns # 0 /\ ~t.privateOnly THEN "tool_followup_ok" ELSE signal

Weighed(t, signal) ==
    IF t.privateOnly THEN signal
    ELSE IF signal # "none" THEN IF t.veto THEN "none" ELSE signal
    ELSE IF t.push /\ t.turns # 0 THEN "tool_followup_ok" ELSE "none"

Prompted(t, signal) ==
    IF t.simple /\ signal = "none" /\ ~t.privateOnly THEN "simple_prompt" ELSE signal

Delegated(t, signal) ==
    IF signal = "none" /\ t.turns = 0 /\ t.delegated THEN "delegated_start" ELSE signal

Held(t, signal) == IF t.awaiting /\ signal # "delegated_start" THEN "none" ELSE signal

Signal(t) ==
    IF ~t.structural \/ t.class = "recovery" THEN "none"
    ELSE Held(t, Delegated(t, Prompted(t, Weighed(t, Judged(t, t.class)))))

Escalation(t) == IF t.structural /\ t.class = "recovery" THEN "recovery" ELSE "none"

-----------------------------------------------------------------------------
(* The tokens a candidate must hold, and what the turn would cost on each. *)
(* The current owner alone keeps a warm cache.                             *)
Prompt(t) == rc_estimate_prompt_tokens(t.last, t.appended, t.bytes)

Demand(t) ==
    LET tokens == IF t.bounded THEN add(Prompt(t), t.max) ELSE Prompt(t)
    IN IF t.floor # 0 /\ tokens <= t.floor THEN t.floor + 1 ELSE tokens

Quote(r, t, i) ==
    [cost |-> rc_turn_cost(r[i].price, Prompt(t), rc_cached_input_tokens(i = t.owner, t.last, Prompt(t)),
                           rc_estimate_output_tokens(IF t.bounded THEN t.max ELSE 0, 0)),
     permitted |-> i \in t.permits /\ (t.privateOnly => r[i].private)
                   /\ (r[i].alias # t.baseline => i \notin t.full /\ i \in t.declares)]

Query(t) ==
    [continuity |-> "replayable", pinned |-> 0, baseline |-> t.baseline, usable |-> t.usable,
     now |-> t.now, observed |-> t.observed, expires |-> t.expires, task |-> t.task,
     signal |-> Signal(t), escalation |-> Escalation(t), saving |-> 0, capabilities |-> {},
     tokens |-> IF Demand(t) = 0 THEN 1 ELSE Demand(t)]

(* The first of the cheapest, 0 when there is none.                        *)
Cheapest(cost, able, n) ==
    FoldLeft(LAMBDA best, i : IF i \in able /\ (best = 0 \/ cost[i] < cost[best]) THEN i ELSE best,
             0, [i \in 1..n |-> i])

(* Where the turn goes.  spend: 0, "near" its cap or "over" it.            *)
place(r, t) ==
    LET n == Len(r)
        quotes == [i \in 1..n |-> Quote(r, t, i)]
        allowed == {i \in 1..n : quotes[i].permitted}
        fits == {i \in 1..n : r[i].limit >= Demand(t)}
        base == CHOOSE i \in 1..n : r[i].alias = t.baseline
        costs == [i \in 1..n |-> quotes[i].cost]
        saver == Cheapest(costs, {i \in allowed \cap fits : t.spend = "near" \/ zero_price(r[i].price)}, n)
        larger == Cheapest(costs, (Qualified(r, "recovery") \cap allowed \cap fits) \ {base}, n)
        cleared == Cheapest([i \in 1..n |-> r[i].price.input],
                            {i \in t.permits \cap t.declares \cap fits : t.privateOnly => r[i].private}, n)
        chosen == rc_select(r, quotes, Query(t))
        At(i, reason) == [status |-> "ok", at |-> i, reason |-> reason]
    IN IF t.spend # "low" /\ saver # 0 THEN At(saver, "budget")
       ELSE IF base \notin allowed THEN IF cleared # 0 THEN At(cleared, "compliance") ELSE At(base, "baseline")
       ELSE IF base \notin fits /\ larger # 0 THEN At(larger, "context")
       ELSE chosen
=============================================================================
