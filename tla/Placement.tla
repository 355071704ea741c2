------------------------------ MODULE Placement ------------------------------
(***************************************************************************)
(* Automatic requests between their arrival and their dispatch, and what   *)
(* they share on the way: the judge and its breaker, the session's budget, *)
(* the per-minute cap and the shadow sampler                               *)
(* (core/src/context/gateway_context.c).                                   *)
(*                                                                         *)
(* Signals says what a history means and Selection which candidate serves  *)
(* it; here they are steps of several HTTP threads, each lock region one   *)
(* action.  The judge is asked, and the shadow runs, outside the lock.     *)
(* Slots, pins, cooldowns and loads are the subject of GatewaySessions: a  *)
(* session here is one unpinned scope of the request stream, which exists, *)
(* and any candidate may be cooling or full when a request would move.     *)
(***************************************************************************)
EXTENDS Signals, Selection

CONSTANTS
    Threads,         \* HTTP threads
    Sessions,
    Baseline,        \* alias of context.baseline_alias
    Shadow,          \* place of context.shadow's candidate in the registry
    JudgeOn,         \* context.judge is configured
    BreakerFailures, \* JUDGE_BREAKER_FAILURES
    BreakerMs,       \* context.judge breaker_ms
    SessionCap,      \* budgets.session_usd, 0: no budget
    NearCap,         \* downshift_at * session_usd
    Rpm,             \* budgets.requests_per_minute, 0: no cap
    Minute,          \* 60000 ms
    SampleEvery,     \* 1 / shadow.sample
    ShadowCap,       \* shadow.usd_cap
    ShadowInflight,  \* shadow.max_inflight
    MaxRetries,      \* context.health max_retries, 0: health off
    Loads,           \* bound: per kind of load the registries, the kinds of request, how
                     \* many requests come and the last reading of the clock
    MaxCost          \* bound: what one answer costs

ASSUME PlacementAssumption ==
    /\ {BreakerFailures, SampleEvery, ShadowInflight} \subseteq Nat \ {0}
    /\ {SessionCap, NearCap, Rpm, Minute, BreakerMs, ShadowCap, MaxRetries, MaxCost} \subseteq Nat
    /\ NearCap <= SessionCap

(* What the configuration and the parser leave: no alias is given twice,   *)
(* prices and token counts are numbers, a history is a sequence.           *)
ASSUME LoadsAssumption ==
    \A l \in DOMAIN Loads :
        /\ \A r \in Loads[l].registries :
              /\ Len(r) \in Nat /\ DOMAIN r = 1..Len(r)
              /\ \A i \in DOMAIN r :
                    r[i].alias \in Nat /\ r[i].price \in [input: Nat, cached: Nat, output: Nat]
              /\ \A i, j \in DOMAIN r : r[i].alias = r[j].alias => i = j
        /\ \A k \in Loads[l].kinds :
              /\ Len(k.messages) \in Nat /\ DOMAIN k.messages = 1..Len(k.messages)
              /\ {"last", "appended", "bytes", "max", "bounded"} \subseteq DOMAIN k.turn
              /\ {k.turn.appended, k.turn.bytes, k.turn.max} \subseteq Nat
              /\ k.turn.last \in [known: BOOLEAN, prompt: Nat, completion: Nat, cached: Nat]

VARIABLES
    load,      \* which of Loads this is
    registry,  \* the candidates, in the order of the configuration
    left,      \* how many requests are still to come
    now,
    thread,    \* the request each thread has
    session,   \* spend, and whether an exchange is in progress
    floor,     \* of a session: a limit its context overflowed, 0: none
    label,     \* sessions a harness labelled restricted
    breaker,   \* judge_failures and judge_open_until
    minute,    \* rpm_window and rpm_count
    shadow     \* the sampler: acc, spent and inflight

vars == <<load, registry, left, now, thread, session, floor, label, breaker, minute, shadow>>

Idle == [pc |-> "idle"]

Init ==
    /\ load \in DOMAIN Loads
    /\ registry \in Loads[load].registries
    /\ left = Loads[load].requests
    /\ now = 1
    /\ thread = [t \in Threads |-> Idle]
    /\ session = [s \in Sessions |-> [spent |-> 0, inflight |-> FALSE]]
    /\ floor = [s \in Sessions |-> 0]
    /\ label = {}
    /\ breaker = [failures |-> 0, until |-> 0]
    /\ minute = [window |-> 0, count |-> 0]
    /\ shadow = [acc |-> 0, spent |-> 0, inflight |-> 0]

-----------------------------------------------------------------------------
Class(q) == rc_signals_classify(q.messages, q.facts)

BaselineAt == CHOOSE i \in DOMAIN registry : registry[i].alias = Baseline

(* The judge is consulted on an unclassified step that did not fail and    *)
(* that the gate lets out.                                                 *)
Judgeable(q) ==
    /\ JudgeOn /\ rc_signals_classify(q.messages, [q.facts EXCEPT !.turns = 1, !.repeat = FALSE, !.phase = FALSE]) = "none"
    /\ ~rc_signals_recent_failure(q.messages, q.facts)
    /\ BaselineAt \in q.turn.permits /\ ~registry[BaselineAt].private

Arrive(t, s) ==
    /\ thread[t].pc = "idle" /\ left > 0
    /\ left' = left - 1
    /\ \E q \in Loads[load].kinds :
           thread' = [thread EXCEPT ![t] =
               [pc |-> IF Judgeable(q) THEN "judge" ELSE "prepare", session |-> s, request |-> q,
                early |-> s \in label, routine |-> FALSE, answer |-> "none"]]
    /\ UNCHANGED <<load, registry, now, session, floor, label, breaker, minute, shadow>>

(* Two lock regions: the label, then the breaker.                          *)
AskLabel(t) ==
    /\ thread[t].pc = "judge"
    /\ thread' = [thread EXCEPT ![t].pc = IF thread[t].session \in label THEN "prepare" ELSE "breaker"]
    /\ UNCHANGED <<load, registry, left, now, session, floor, label, breaker, minute, shadow>>

AskBreaker(t) ==
    /\ thread[t].pc = "breaker"
    /\ thread' = [thread EXCEPT ![t].pc =
           IF breaker.until > now \/ ~rc_judge_request(thread[t].request.messages) THEN "prepare" ELSE "asking"]
    /\ UNCHANGED <<load, registry, left, now, session, floor, label, breaker, minute, shadow>>

(* A routine or hard verdict, or nothing usable in time.                   *)
Answer(t) ==
    /\ thread[t].pc = "asking"
    /\ \E a \in {"routine", "hard", "unusable"} :
           thread' = [thread EXCEPT ![t].pc = "answered", ![t].answer = a, ![t].routine = a = "routine"]
    /\ UNCHANGED <<load, registry, left, now, session, floor, label, breaker, minute, shadow>>

Count(t) ==
    /\ thread[t].pc = "answered"
    /\ thread' = [thread EXCEPT ![t].pc = "prepare"]
    /\ breaker' =
           IF thread[t].answer # "unusable" THEN [breaker EXCEPT !.failures = 0]
           ELSE IF breaker.failures + 1 >= BreakerFailures
                THEN [failures |-> 0, until |-> now + BreakerMs]
                ELSE [breaker EXCEPT !.failures = @ + 1]
    /\ UNCHANGED <<load, registry, left, now, session, floor, label, minute, shadow>>

-----------------------------------------------------------------------------
(* The rest of prepare, under the lock.                                    *)
SpendPast(s) ==                        \* mutant: the cap itself may still be spent from
    IF SessionCap = 0 \/ session[s].spent < NearCap THEN "low"
    ELSE IF session[s].spent <= SessionCap THEN "near" ELSE "over"

Spend(s) ==
    IF SessionCap = 0 \/ session[s].spent < NearCap THEN "low"
    ELSE IF session[s].spent < SessionCap THEN "near" ELSE "over"

Turn(t) ==
    [thread[t].request.turn EXCEPT
        !.class = Class(thread[t].request), !.routine = thread[t].routine, !.now = now,
        !.turns = thread[t].request.facts.turns, !.baseline = Baseline,
        !.spend = Spend(thread[t].session), !.floor = floor[thread[t].session],
        !.privateOnly = thread[t].session \in label]

(* requests_per_minute counts every request, also those refused later.     *)
OpenMinute == IF minute.count = 0 \/ now - minute.window >= Minute THEN [window |-> now, count |-> 0] ELSE minute

Refused(t) == thread' = [thread EXCEPT ![t] = Idle]

(* A restricted request goes to a private model whatever was chosen.  A    *)
(* session over its cap is served free or not at all.                      *)
Restricted(t) == thread[t].session \in label

ReachScoped(t, at) ==                  \* mutant: without a session the label is forgotten
    {i \in DOMAIN registry :
        /\ i \in thread[t].request.turn.permits
        /\ IF Restricted(t) /\ ~session[thread[t].session].inflight THEN registry[i].private ELSE i = at}

Reach(t, at) ==
    {i \in DOMAIN registry :
        /\ i \in thread[t].request.turn.permits
        /\ IF Restricted(t) THEN registry[i].private ELSE i = at}

(* A session with an exchange in progress is not given to a second         *)
(* request: that one goes to the baseline, without a session.              *)
Busy(t) == session[thread[t].session].inflight

Exchange(t, i) ==
    [pc |-> "shadow", session |-> thread[t].session, early |-> thread[t].early, at |-> i,
     scoped |-> ~Busy(t), tries |-> 0, permits |-> thread[t].request.turn.permits,
     declares |-> thread[t].request.turn.declares]

(* Where exchange x may go from a candidate that cools or failed: from the *)
(* baseline to a candidate qualified for recovery, from any other to the   *)
(* baseline; on a context overflow to either, if it holds more.  The price *)
(* only orders the targets.                                                *)
failover_target(x, overflow) ==
    LET Base(i) == registry[i].alias = Baseline
        Recovers(i) == "recovery" \in registry[i].qualified
    IN {i \in DOMAIN registry \ {x.at} :
          /\ i \in x.permits
          /\ IF overflow THEN registry[i].limit > registry[x.at].limit /\ (Base(i) \/ Recovers(i))
             ELSE IF Base(x.at) THEN Recovers(i) ELSE Base(i)
          /\ x.session \in label => registry[i].private
          /\ x.scoped /\ ~Base(i) => i \in x.declares}

Chosen(t) ==
    IF Busy(t) THEN {BaselineAt}
    ELSE LET p == place(registry, Turn(t)) IN IF p.status = "ok" THEN {p.at} ELSE {}

(* Health may move it before the final checks.                             *)
Healthy(t) ==
    UNION {{i} \cup IF MaxRetries = 0 THEN {} ELSE failover_target(Exchange(t, i), FALSE) : i \in Chosen(t)}

Affordable(t, i) == Busy(t) \/ Spend(thread[t].session) # "over" \/ zero_price(registry[i].price)

Offered(t) == {i \in UNION {Reach(t, h) : h \in Healthy(t)} : Affordable(t, i)}

Prepare(t) ==
    /\ thread[t].pc = "prepare"
    /\ IF Rpm # 0 /\ OpenMinute.count >= Rpm
       THEN minute' = OpenMinute /\ Refused(t) /\ UNCHANGED session
       ELSE /\ minute' = IF Rpm = 0 THEN minute ELSE [OpenMinute EXCEPT !.count = @ + 1]
            /\ IF Offered(t) = {} THEN Refused(t) /\ UNCHANGED session
               ELSE /\ \E i \in Offered(t) : thread' = [thread EXCEPT ![t] = Exchange(t, i)]
                    /\ session' = [session EXCEPT ![thread[t].session].inflight = TRUE]
    /\ UNCHANGED <<load, registry, left, now, floor, label, breaker, shadow>>

-----------------------------------------------------------------------------
(* rc_gateway_shadow: the sampler advances only for a step that could be   *)
(* copied; the copy is made if the gate lets it out.                       *)
CopiedFreely(t) ==                     \* mutant: copies in flight are not counted
    /\ Shadow # 0 /\ thread[t].scoped /\ ~Restricted(t) /\ thread[t].at # Shadow
    /\ shadow.spent < ShadowCap

Copied(t) ==
    /\ Shadow # 0 /\ thread[t].scoped /\ ~Restricted(t) /\ thread[t].at # Shadow
    /\ shadow.spent < ShadowCap /\ shadow.inflight < ShadowInflight

Mirror(t) ==
    /\ thread[t].pc = "shadow"
    /\ thread' = [thread EXCEPT ![t].pc = "sent"]
    /\ IF ~Copied(t) THEN UNCHANGED shadow
       ELSE IF shadow.acc + 1 < SampleEvery THEN shadow' = [shadow EXCEPT !.acc = @ + 1]
       ELSE \E go \in {0, 1} : shadow' = [shadow EXCEPT !.acc = 0, !.inflight = @ + go]
    /\ UNCHANGED <<load, registry, left, now, session, floor, label, breaker, minute>>

(* The detached thread has its answer, or none.                            *)
Settle ==
    /\ shadow.inflight > 0
    /\ \E cost \in 0..MaxCost :
           shadow' = [shadow EXCEPT !.spent = @ + cost, !.inflight = @ - 1]
    /\ UNCHANGED <<load, registry, left, now, thread, session, floor, label, breaker, minute>>

-----------------------------------------------------------------------------
(* rc_gateway_failover: the exchange failed before any byte of its answer  *)
(* and is sent again, under the labels of now and whatever its session has *)
(* spent.  From an overflow on, the session asks for more than the limit   *)
(* that was too small.                                                     *)
Larger(a, b) == IF a > b THEN a ELSE b

Failover(t) ==
    /\ thread[t].pc = "sent" /\ thread[t].tries < MaxRetries
    /\ \E overflow \in BOOLEAN : \E i \in failover_target(thread[t], overflow) :
           /\ thread' = [thread EXCEPT ![t].at = i, ![t].tries = @ + 1]
           /\ floor' = IF overflow /\ thread[t].scoped
                       THEN [floor EXCEPT ![thread[t].session] = Larger(@, registry[thread[t].at].limit)]
                       ELSE floor
    /\ UNCHANGED <<load, registry, left, now, session, label, breaker, minute, shadow>>

(* Spend is what the provider reports, at the price of the candidate that  *)
(* served; an exchange may report nothing.                                 *)
Finish(t) ==
    /\ thread[t].pc = "sent"
    /\ thread' = [thread EXCEPT ![t] = Idle]
    /\ IF ~thread[t].scoped THEN UNCHANGED session
       ELSE \E cost \in IF zero_price(registry[thread[t].at].price) THEN {0} ELSE 0..MaxCost :
                session' = [session EXCEPT ![thread[t].session] =
                                [spent |-> @.spent + cost, inflight |-> FALSE]]
    /\ UNCHANGED <<load, registry, left, now, floor, label, breaker, minute, shadow>>

(* A hint of the harness: it binds whatever is prepared after it.          *)
Label(s) ==
    /\ s \notin label
    /\ label' = label \cup {s}
    /\ UNCHANGED <<load, registry, left, now, thread, session, floor, breaker, minute, shadow>>

Tick ==
    /\ now < Loads[load].clock /\ now' = now + 1
    /\ UNCHANGED <<load, registry, left, thread, session, floor, label, breaker, minute, shadow>>

Next ==
    \/ \E t \in Threads :
           \/ \E s \in Sessions : Arrive(t, s)
           \/ AskLabel(t) \/ AskBreaker(t) \/ Answer(t) \/ Count(t)
           \/ Prepare(t) \/ Mirror(t) \/ Failover(t) \/ Finish(t)
    \/ \E s \in Sessions : Label(s)
    \/ Settle \/ Tick

Spec == Init /\ [][Next]_vars

-----------------------------------------------------------------------------
Arrived == {t \in Threads : thread[t].pc = "prepare"}

Requests == {thread[t].request : t \in Arrived}

(* The loop over the history finds what the taxonomy of signals.h says: a  *)
(* class for a clean window, recovery for two failures in a row or a call  *)
(* repeated too often, nothing for anything else; a refused call counts    *)
(* neither as failure nor as success.                                      *)
ClassIsContract == \A q \in Requests : Class(q) = Contract(q.messages, q.facts)

(* Whatever is asked of it, the one pass of rc_select meets the contract   *)
(* of selector.h.                                                          *)
ChoiceIsContract ==
    \A t \in Arrived :
        LET q == Query(Turn(t))
            quotes == [i \in DOMAIN registry |-> Quote(registry, Turn(t), i)]
        IN Meets(registry, quotes, q, rc_select(registry, quotes, q))

(* Shadow copies made by any number of threads overrun the cap by no more  *)
(* than what is in flight.                                                 *)
ShadowWithinCap ==
    shadow.spent + MaxCost * shadow.inflight <= ShadowCap + MaxCost * ShadowInflight

(* Past its cap a session spends on nothing that prepare placed there: of  *)
(* all the exchanges of its threads, one moved by failover alone adds to   *)
(* what is over.  So without failover it overruns by one turn at most, and *)
(* every retry that leaves a free candidate may add another ("At the cap   *)
(* only zero-price candidates", docs/m3-request-sessions.md:289, leaves    *)
(* out the retries).                                                       *)
OverrunOnlyByFailover ==
    [][\A s \in Sessions :
          SessionCap # 0 /\ session[s].spent >= SessionCap /\ session'[s].spent # session[s].spent =>
              \E t \in Threads :
                  thread[t].pc = "sent" /\ thread[t].session = s /\ thread[t].scoped /\ thread[t].tries > 0]_vars

(* A request session labelled before a request arrives is not shown to the *)
(* judge and not served in public, whether the request gets the session or *)
(* finds it busy, and whatever the budget, the limits and the gate make of *)
(* it ("A restricted session's state never goes to the public judge",      *)
(* gateway_context.c:1300).  Registered sessions are in GatewaySessions.   *)
LabelledStaysHome ==
    \A t \in Threads :
        thread[t].pc # "idle" /\ thread[t].early =>
            /\ thread[t].pc # "asking"
            /\ thread[t].pc \in {"shadow", "sent"} => registry[thread[t].at].private
=============================================================================
