--------------------------- MODULE PlacementProofs ---------------------------
(***************************************************************************)
(* Theorems about placement, for any number of threads and sessions, any   *)
(* prices, caps and requests: what it spends of a session's money, where   *)
(* it lets a labelled turn go, what its selector chooses, and what it      *)
(* reads out of a request's history.                                       *)
(***************************************************************************)
EXTENDS Placement, FiniteSetTheorems, WellFoundedInduction, TLAPS

(* A thread's request is its session's exchange in progress.               *)
Serving(t) == thread[t].pc \in {"shadow", "sent"} /\ thread[t].scoped = TRUE

Shaped ==
    /\ DOMAIN thread = Threads /\ DOMAIN session = Sessions
    /\ \A t \in Threads :
          /\ "pc" \in DOMAIN thread[t]
          /\ thread[t].pc # "idle" => "session" \in DOMAIN thread[t] /\ thread[t].session \in Sessions
          /\ thread[t].pc \in {"shadow", "sent"} =>
                {"at", "scoped", "tries"} \subseteq DOMAIN thread[t] /\ thread[t].tries \in Nat
    /\ \A s \in Sessions :
          /\ DOMAIN session[s] = {"spent", "inflight"}
          /\ session[s].spent \in Nat /\ session[s].inflight \in BOOLEAN

Free(t) == zero_price(registry[thread[t].at].price)

(* One exchange at a time; it began below the cap or costs nothing, unless *)
(* failover moved it.                                                      *)
Exclusive ==
    /\ \A t \in Threads : Serving(t) => session[thread[t].session].inflight = TRUE
    /\ \A t, u \in Threads : Serving(t) /\ Serving(u) /\ thread[t].session = thread[u].session => t = u

Funded ==
    SessionCap # 0 =>
        \A t \in Threads :
            Serving(t) => Free(t) \/ session[thread[t].session].spent < SessionCap \/ thread[t].tries > 0

Inv == Shaped /\ Exclusive /\ Funded

-----------------------------------------------------------------------------
(* A session that is not over its cap has spent less than the cap.         *)
LEMMA UnderCap ==
    ASSUME NEW s \in Sessions, session[s].spent \in Nat, SessionCap # 0, Spend(s) # "over"
    PROVE  session[s].spent < SessionCap
BY PlacementAssumption DEF Spend

(* A step that neither begins nor ends an exchange keeps the invariant.    *)
LEMMA QuietKeeps ==
    ASSUME Inv, UNCHANGED <<registry, session>>, Shaped',
           \A t \in Threads : Serving(t)' => Serving(t) /\ thread'[t].session = thread[t].session
                                                       /\ thread'[t].at = thread[t].at
                                                       /\ thread'[t].tries = thread[t].tries
    PROVE  Inv'
<1>1. Exclusive'
  BY DEF Inv, Exclusive
<1>2. Funded'
  BY DEF Inv, Funded, Free
<1> QED  BY <1>1, <1>2 DEF Inv

(* Up to prepare no thread holds an exchange.                              *)
LEMMA EarlierKeeps ==
    ASSUME Inv, NEW t \in Threads, UNCHANGED <<registry, session>>,
           DOMAIN thread' = Threads, \A u \in Threads \ {t} : thread'[u] = thread[u],
           "pc" \in DOMAIN thread'[t], thread'[t].pc \notin {"shadow", "sent"},
           thread'[t].pc # "idle" => "session" \in DOMAIN thread'[t] /\ thread'[t].session \in Sessions
    PROVE  Inv'
<1>1. Shaped'
  BY DEF Inv, Shaped
<1>2. \A u \in Threads : Serving(u)' => u # t
  BY DEF Serving
<1>3. \A u \in Threads : Serving(u)' => Serving(u) /\ thread'[u] = thread[u]
  BY <1>2 DEF Serving
<1> QED  BY <1>1, <1>3, QuietKeeps

(* prepare gives an idle session to the thread, below its cap or free.     *)
LEMMA PrepareKeeps ==
    ASSUME Inv, NEW t \in Threads, Prepare(t)
    PROVE  Inv'
<1> DEFINE s == thread[t].session
<1>1. /\ thread[t].pc = "prepare" /\ s \in Sessions /\ "session" \in DOMAIN thread[t]
      /\ UNCHANGED registry
  BY DEF Inv, Shaped, Prepare
<1>2. CASE Refused(t) /\ UNCHANGED session
  <2>1. /\ DOMAIN thread' = Threads /\ thread'[t].pc = "idle" /\ "pc" \in DOMAIN thread'[t]
        /\ \A u \in Threads \ {t} : thread'[u] = thread[u]
    BY <1>2 DEF Inv, Shaped, Refused, Idle
  <2> QED  BY <1>1, <1>2, <2>1, EarlierKeeps
<1>3. ASSUME NEW i \in Offered(t),
             thread' = [thread EXCEPT ![t] = Exchange(t, i)],
             session' = [session EXCEPT ![thread[t].session].inflight = TRUE]
      PROVE  Inv'
  <2>1. /\ DOMAIN thread' = Threads /\ \A u \in Threads \ {t} : thread'[u] = thread[u]
        /\ thread'[t].pc = "shadow" /\ thread'[t].session = s /\ thread'[t].at = i
        /\ {"pc", "session", "at", "scoped", "tries"} \subseteq DOMAIN thread'[t] /\ thread'[t].tries = 0
    BY <1>3 DEF Inv, Shaped, Exchange
  <2>2. thread'[t].scoped = ~Busy(t)
    BY <1>3 DEF Inv, Shaped, Exchange
  <2>3. /\ DOMAIN session' = Sessions
        /\ \A q \in Sessions : /\ DOMAIN session'[q] = {"spent", "inflight"}
                               /\ session'[q].spent = session[q].spent
                               /\ q # s => session'[q] = session[q]
        /\ session'[s].inflight = TRUE
    BY <1>1, <1>3 DEF Inv, Shaped
  <2>4. Shaped'
    <3>1. \A u \in Threads :
             /\ "pc" \in DOMAIN thread'[u]
             /\ thread'[u].pc # "idle" => "session" \in DOMAIN thread'[u] /\ thread'[u].session \in Sessions
             /\ thread'[u].pc \in {"shadow", "sent"} =>
                   {"at", "scoped", "tries"} \subseteq DOMAIN thread'[u] /\ thread'[u].tries \in Nat
      <4> SUFFICES ASSUME NEW u \in Threads
                   PROVE  /\ "pc" \in DOMAIN thread'[u]
                          /\ thread'[u].pc # "idle" => "session" \in DOMAIN thread'[u] /\ thread'[u].session \in Sessions
                          /\ thread'[u].pc \in {"shadow", "sent"} =>
                                {"at", "scoped", "tries"} \subseteq DOMAIN thread'[u] /\ thread'[u].tries \in Nat
        OBVIOUS
      <4>1. CASE u = t
        BY <4>1, <1>1, <2>1
      <4>2. CASE u # t
        BY <4>2, <2>1 DEF Inv, Shaped
      <4> QED  BY <4>1, <4>2
    <3>2. \A q \in Sessions :
             /\ DOMAIN session'[q] = {"spent", "inflight"}
             /\ session'[q].spent \in Nat /\ session'[q].inflight \in BOOLEAN
      BY <2>3 DEF Inv, Shaped
    <3> QED  BY <2>1, <2>3, <3>1, <3>2 DEF Shaped
  <2>5. ASSUME Serving(t)'
        PROVE  /\ session[s].inflight = FALSE
               /\ SessionCap # 0 => zero_price(registry[i].price) \/ session[s].spent < SessionCap
    <3>1. ~Busy(t)
      BY <2>2, <2>5 DEF Serving
    <3>2. session[s].inflight = FALSE
      BY <1>1, <3>1 DEF Inv, Shaped, Busy
    <3>3. Affordable(t, i)
      BY <1>3 DEF Offered
    <3>4. Spend(s) = "over" => zero_price(registry[i].price)
      BY <3>1, <3>3 DEF Affordable
    <3> QED  BY <1>1, <3>2, <3>4, UnderCap DEF Inv, Shaped
  <2>6. \A u \in Threads \ {t} : Serving(u)' => Serving(u)
    BY <2>1 DEF Serving
  <2>7. \A u \in Threads \ {t} : Serving(u)' /\ Serving(t)' => thread'[u].session # thread'[t].session
    <3> SUFFICES ASSUME NEW u \in Threads \ {t}, Serving(u)', Serving(t)'
                 PROVE  thread[u].session # s
      BY <2>1
    <3> QED  BY <2>5, <2>6 DEF Inv, Exclusive
  <2>8. Exclusive'
    <3>1. \A u \in Threads : Serving(u)' => session'[thread'[u].session].inflight = TRUE
      <4> SUFFICES ASSUME NEW u \in Threads, Serving(u)'
                   PROVE  session'[thread'[u].session].inflight = TRUE
        OBVIOUS
      <4>1. CASE u = t
        BY <2>1, <2>3, <4>1
      <4>2. CASE u # t
        <5>1. Serving(u) /\ thread'[u] = thread[u] /\ thread[u].session \in Sessions
          BY <4>2, <2>1, <2>6 DEF Inv, Shaped, Serving
        <5>2. session[thread[u].session].inflight = TRUE
          BY <5>1 DEF Inv, Exclusive
        <5> QED  BY <5>1, <5>2, <2>3
      <4> QED  BY <4>1, <4>2
    <3>2. \A u, v \in Threads :
              Serving(u)' /\ Serving(v)' /\ thread'[u].session = thread'[v].session => u = v
      <4> SUFFICES ASSUME NEW u \in Threads, NEW v \in Threads, Serving(u)', Serving(v)',
                          thread'[u].session = thread'[v].session
                   PROVE  u = v
        OBVIOUS
      <4>1. CASE u # t /\ v # t
        BY <4>1, <2>1, <2>6 DEF Inv, Exclusive
      <4>2. CASE u = t \/ v = t
        BY <4>2, <2>7
      <4> QED  BY <4>1, <4>2
    <3> QED  BY <3>1, <3>2 DEF Exclusive
  <2>9. Funded'
    <3> SUFFICES ASSUME SessionCap # 0, NEW u \in Threads, Serving(u)'
                 PROVE  Free(u)' \/ session'[thread'[u].session].spent < SessionCap \/ thread'[u].tries > 0
      BY DEF Funded
    <3>1. CASE u = t
      BY <1>1, <2>1, <2>3, <2>5, <3>1 DEF Free
    <3>2. CASE u # t
      <4>1. Serving(u) /\ thread'[u] = thread[u] /\ thread[u].session \in Sessions
        BY <3>2, <2>1, <2>6 DEF Inv, Shaped, Serving
      <4>2. Free(u) \/ session[thread[u].session].spent < SessionCap \/ thread[u].tries > 0
        BY <4>1 DEF Inv, Funded
      <4> QED  BY <1>1, <2>3, <4>1, <4>2 DEF Free
    <3> QED  BY <3>1, <3>2
  <2> QED  BY <2>4, <2>8, <2>9 DEF Inv
<1> QED  BY <1>2, <1>3 DEF Prepare

(* The exchange is over: its cost is spent and the session is free.        *)
LEMMA FinishKeeps ==
    ASSUME Inv, NEW t \in Threads, Finish(t)
    PROVE  Inv'
<1> DEFINE s == thread[t].session
<1>1. /\ thread[t].pc = "sent" /\ s \in Sessions /\ UNCHANGED registry
      /\ DOMAIN thread' = Threads /\ \A u \in Threads \ {t} : thread'[u] = thread[u]
      /\ thread'[t].pc = "idle" /\ "pc" \in DOMAIN thread'[t]
  BY DEF Inv, Shaped, Finish, Idle
<1>2. CASE ~thread[t].scoped
  BY <1>1, <1>2, EarlierKeeps DEF Finish
<1>3. ASSUME NEW cost \in IF zero_price(registry[thread[t].at].price) THEN {0} ELSE 0..MaxCost,
             thread[t].scoped,
             session' = [session EXCEPT ![thread[t].session] =
                             [spent |-> @.spent + cost, inflight |-> FALSE]]
      PROVE  Inv'
  <2>1. /\ DOMAIN session' = Sessions
        /\ \A q \in Sessions \ {s} : session'[q] = session[q]
        /\ DOMAIN session'[s] = {"spent", "inflight"}
        /\ session'[s].spent = session[s].spent + cost /\ session'[s].inflight = FALSE
    BY <1>1, <1>3 DEF Inv, Shaped
  <2>2. cost \in 0..MaxCost /\ (Free(t) => cost = 0)
    BY <1>3, PlacementAssumption DEF Free
  <2>3. Shaped'
    <3>1. session'[s].spent \in Nat
      BY <1>1, <2>1, <2>2, PlacementAssumption DEF Inv, Shaped
    <3>2. Shaped
      BY DEF Inv
    <3>3. \A u \in Threads :
              /\ "pc" \in DOMAIN thread'[u]
              /\ thread'[u].pc # "idle" => "session" \in DOMAIN thread'[u] /\ thread'[u].session \in Sessions
              /\ thread'[u].pc \in {"shadow", "sent"} =>
                    {"at", "scoped", "tries"} \subseteq DOMAIN thread'[u] /\ thread'[u].tries \in Nat
      <4>1. ASSUME NEW u \in Threads, u # t
            PROVE  thread'[u] = thread[u]
        BY <1>1, <4>1
      <4> QED  BY <1>1, <3>2, <4>1 DEF Shaped
    <3>4. \A q \in Sessions :
              /\ DOMAIN session'[q] = {"spent", "inflight"}
              /\ session'[q].spent \in Nat /\ session'[q].inflight \in BOOLEAN
      <4>1. ASSUME NEW q \in Sessions, q # s
            PROVE  session'[q] = session[q]
        BY <2>1, <4>1
      <4> QED  BY <2>1, <3>1, <3>2, <4>1 DEF Shaped
    <3> QED  BY <1>1, <2>1, <3>3, <3>4 DEF Shaped
  <2>4. Serving(t)
    BY <1>1, <1>3 DEF Serving
  <2>5. \A u \in Threads : Serving(u)' =>
            Serving(u) /\ thread'[u] = thread[u] /\ thread[u].session \in Sessions \ {s}
    <3> SUFFICES ASSUME NEW u \in Threads, Serving(u)'
                 PROVE  Serving(u) /\ thread'[u] = thread[u] /\ thread[u].session \in Sessions \ {s}
      OBVIOUS
    <3>1. u # t
      BY <1>1 DEF Serving
    <3>2. Serving(u) /\ thread'[u] = thread[u]
      BY <1>1, <3>1 DEF Serving
    <3> QED  BY <3>1, <3>2, <2>4 DEF Inv, Exclusive, Shaped, Serving
  <2>6. Exclusive'
    BY <2>1, <2>5 DEF Inv, Exclusive
  <2>7. Funded'
    BY <1>1, <2>1, <2>5 DEF Inv, Funded, Free
  <2> QED  BY <2>3, <2>6, <2>7 DEF Inv
<1> QED  BY <1>2, <1>3 DEF Finish

(* failover keeps the session and whose exchange it is; from here on the   *)
(* exchange may cost something at the cap.                                 *)
LEMMA FailoverKeeps ==
    ASSUME Inv, NEW t \in Threads, Failover(t)
    PROVE  Inv'
<1>1. PICK i : thread' = [thread EXCEPT ![t].at = i, ![t].tries = @ + 1]
  BY DEF Failover
<1>2. /\ thread[t].pc = "sent" /\ {"pc", "session", "at", "scoped", "tries"} \subseteq DOMAIN thread[t]
      /\ thread[t].tries \in Nat /\ UNCHANGED <<registry, session>>
  BY DEF Inv, Shaped, Failover
<1>3. /\ DOMAIN thread' = Threads /\ \A u \in Threads \ {t} : thread'[u] = thread[u]
      /\ DOMAIN thread'[t] = DOMAIN thread[t] /\ thread'[t].pc = thread[t].pc
      /\ thread'[t].session = thread[t].session /\ thread'[t].scoped = thread[t].scoped
      /\ thread'[t].tries = thread[t].tries + 1
  BY <1>1, <1>2 DEF Inv, Shaped
<1>4. Shaped'
  BY <1>2, <1>3 DEF Inv, Shaped
<1>5. \A u \in Threads : Serving(u)' => Serving(u) /\ thread'[u].session = thread[u].session
  BY <1>2, <1>3 DEF Serving
<1>6. Exclusive'
  BY <1>2, <1>5 DEF Inv, Exclusive
<1>7. Funded'
  <2>1. thread'[t].tries > 0
    BY <1>2, <1>3
  <2> QED  BY <1>2, <1>3, <1>5, <2>1 DEF Inv, Funded, Free
<1> QED  BY <1>4, <1>6, <1>7 DEF Inv

(* Every step keeps the sessions' money accounted for.                     *)
LEMMA StepKeeps ==
    ASSUME Inv, [Next]_vars
    PROVE  Inv'
<1>1. ASSUME NEW t \in Threads, NEW s \in Sessions, Arrive(t, s)  PROVE Inv'
  <2>1. PICK q : thread' = [thread EXCEPT ![t] =
               [pc |-> IF Judgeable(q) THEN "judge" ELSE "prepare", session |-> s, request |-> q,
                early |-> s \in label, routine |-> FALSE, answer |-> "none"]]
    BY <1>1 DEF Arrive
  <2>2. /\ DOMAIN thread' = Threads /\ \A u \in Threads \ {t} : thread'[u] = thread[u]
        /\ thread'[t].pc \in {"judge", "prepare"} /\ {"pc", "session"} \subseteq DOMAIN thread'[t]
        /\ thread'[t].session = s
    BY <2>1 DEF Inv, Shaped
  <2>3. UNCHANGED <<registry, session>>
    BY <1>1 DEF Arrive
  <2> QED  BY <2>2, <2>3, EarlierKeeps
<1>2. ASSUME NEW t \in Threads, AskLabel(t) \/ AskBreaker(t) \/ Answer(t) \/ Count(t)  PROVE Inv'
  <2>1. /\ "pc" \in DOMAIN thread[t]
        /\ thread[t].pc # "idle"
        /\ "session" \in DOMAIN thread[t] /\ thread[t].session \in Sessions
    BY <1>2 DEF Inv, Shaped, AskLabel, AskBreaker, Answer, Count
  <2>2. UNCHANGED <<registry, session>>
    BY <1>2 DEF AskLabel, AskBreaker, Answer, Count
  <2>3. /\ DOMAIN thread' = Threads /\ \A u \in Threads \ {t} : thread'[u] = thread[u]
        /\ "pc" \in DOMAIN thread'[t] /\ thread'[t].pc \notin {"shadow", "sent"}
        /\ "session" \in DOMAIN thread'[t] /\ thread'[t].session = thread[t].session
    <3>1. CASE AskLabel(t)
      BY <2>1, <3>1 DEF Inv, Shaped, AskLabel
    <3>2. CASE AskBreaker(t)
      BY <2>1, <3>2 DEF Inv, Shaped, AskBreaker
    <3>3. CASE Answer(t)
      BY <2>1, <3>3 DEF Inv, Shaped, Answer
    <3>4. CASE Count(t)
      BY <2>1, <3>4 DEF Inv, Shaped, Count
    <3> QED  BY <1>2, <3>1, <3>2, <3>3, <3>4
  <2> QED  BY <2>1, <2>2, <2>3, EarlierKeeps
<1>3. ASSUME NEW t \in Threads, Prepare(t)  PROVE Inv'
  BY <1>3, PrepareKeeps
<1>4. ASSUME NEW t \in Threads, Mirror(t)  PROVE Inv'
  <2>1. thread[t].pc = "shadow" /\ {"pc", "session", "at", "scoped", "tries"} \subseteq DOMAIN thread[t]
    BY <1>4 DEF Inv, Shaped, Mirror
  <2>2. /\ DOMAIN thread' = Threads /\ \A u \in Threads \ {t} : thread'[u] = thread[u]
        /\ DOMAIN thread'[t] = DOMAIN thread[t] /\ thread'[t].pc = "sent"
        /\ thread'[t].session = thread[t].session /\ thread'[t].at = thread[t].at
        /\ thread'[t].scoped = thread[t].scoped /\ thread'[t].tries = thread[t].tries
    BY <1>4, <2>1 DEF Inv, Shaped, Mirror
  <2>3. UNCHANGED <<registry, session>>
    BY <1>4 DEF Mirror
  <2>4. Shaped'
    BY <2>1, <2>2, <2>3 DEF Inv, Shaped
  <2>5. \A u \in Threads : Serving(u)' => Serving(u) /\ thread'[u].session = thread[u].session
                                                     /\ thread'[u].at = thread[u].at
                                                     /\ thread'[u].tries = thread[u].tries
    BY <2>1, <2>2 DEF Serving
  <2> QED  BY <2>3, <2>4, <2>5, QuietKeeps
<1>5. ASSUME NEW t \in Threads, Finish(t)  PROVE Inv'
  BY <1>5, FinishKeeps
<1>6. ASSUME NEW t \in Threads, Failover(t)  PROVE Inv'
  BY <1>6, FailoverKeeps
<1>7. CASE UNCHANGED <<registry, session, thread>>
  BY <1>7 DEF Inv, Shaped, Exclusive, Funded, Free, Serving
<1> QED
  BY <1>1, <1>2, <1>3, <1>4, <1>5, <1>6, <1>7 DEF Next, vars, Label, Settle, Tick

(* Nothing is in progress and nothing is spent.                            *)
LEMMA InitHolds == Init => Inv
<1> SUFFICES ASSUME Init  PROVE Inv
  OBVIOUS
<1>1. /\ DOMAIN thread = Threads
      /\ \A t \in Threads : DOMAIN thread[t] = {"pc"} /\ thread[t].pc = "idle"
  BY DEF Init, Idle
<1>2. /\ DOMAIN session = Sessions
      /\ \A s \in Sessions : session[s] = [spent |-> 0, inflight |-> FALSE]
  BY DEF Init
<1>3. Shaped
  <2>1. ASSUME NEW s \in Sessions
        PROVE  /\ DOMAIN session[s] = {"spent", "inflight"}
               /\ session[s].spent = 0 /\ session[s].inflight = FALSE
    <3>1. session[s] = [spent |-> 0, inflight |-> FALSE]
      BY <1>2
    <3> QED  BY <3>1
  <2>2. 0 \in Nat
    OBVIOUS
  <2> QED  BY <1>1, <1>2, <2>1, <2>2 DEF Shaped
<1>4. \A t \in Threads : ~Serving(t)
  BY <1>1 DEF Serving
<1> QED  BY <1>3, <1>4 DEF Inv, Exclusive, Funded

(* prepare does not touch what a session has spent.                        *)
LEMMA PrepareSpendsNothing ==
    ASSUME Inv, NEW t \in Threads, Prepare(t), NEW s \in Sessions
    PROVE  session'[s].spent = session[s].spent
<1>1. \/ UNCHANGED session
      \/ session' = [session EXCEPT ![thread[t].session].inflight = TRUE]
  BY DEF Prepare
<1>2. DOMAIN session = Sessions /\ DOMAIN session[s] = {"spent", "inflight"}
  BY DEF Inv, Shaped
<1> QED  BY <1>1, <1>2

(* What is spent past the cap is spent by the exchange that just ended,    *)
(* which was placed free or below the cap, or moved since.                 *)
LEMMA SpenderWasMoved ==
    ASSUME Inv, [Next]_vars, SessionCap # 0, NEW s \in Sessions,
           session[s].spent >= SessionCap, session'[s].spent # session[s].spent
    PROVE  \E t \in Threads :
               thread[t].pc = "sent" /\ thread[t].session = s /\ thread[t].scoped /\ thread[t].tries > 0
<1>1. session' # session
  OBVIOUS
<1>2. PICK t \in Threads : Finish(t)
  <2>1. \A t \in Threads : ~Prepare(t)
    BY PrepareSpendsNothing
  <2> QED  BY <1>1, <2>1 DEF Next, vars, Arrive, AskLabel, AskBreaker, Answer, Count, Mirror,
                             Failover, Label, Settle, Tick
<1>3. thread[t].pc = "sent" /\ thread[t].scoped
  BY <1>1, <1>2 DEF Finish
<1>4. PICK cost \in IF zero_price(registry[thread[t].at].price) THEN {0} ELSE 0..MaxCost :
           session' = [session EXCEPT ![thread[t].session] = [spent |-> @.spent + cost, inflight |-> FALSE]]
  BY <1>2, <1>3 DEF Finish
<1>5. DOMAIN session = Sessions /\ session[s].spent \in Nat /\ SessionCap \in Nat
  BY PlacementAssumption DEF Inv, Shaped
<1>6. thread[t].session = s
  BY <1>4, <1>5
<1>7. session'[s].spent = session[s].spent + cost
  BY <1>4, <1>5, <1>6
<1>8. ~Free(t)
  BY <1>4, <1>5, <1>7 DEF Free
<1>9. Serving(t)
  BY <1>3, <1>2, <1>6 DEF Serving, Inv, Shaped
<1>10. ~(session[s].spent < SessionCap)
  BY <1>5
<1>11. thread[t].tries > 0
  BY <1>6, <1>8, <1>9, <1>10 DEF Inv, Funded
<1> QED  BY <1>3, <1>6, <1>11

(* Past its cap a session spends only on what failover moved: prepare      *)
(* places no priced exchange there, though the spend is known only after   *)
(* the answer and requests of the session arrive together (the budget,     *)
(* gateway_context.c:1500-1509 and 1595-1600; rc_gateway_failover, 1205).  *)
THEOREM SessionBudget == Spec => OverrunOnlyByFailover
<1>1. Inv /\ [Next]_vars =>
          [\A s \in Sessions :
              SessionCap # 0 /\ session[s].spent >= SessionCap /\ session'[s].spent # session[s].spent =>
                  \E t \in Threads :
                      thread[t].pc = "sent" /\ thread[t].session = s /\ thread[t].scoped /\ thread[t].tries > 0]_vars
  BY SpenderWasMoved
<1> QED  BY InitHolds, StepKeeps, <1>1, PTL DEF Spec, OverrunOnlyByFailover

-----------------------------------------------------------------------------
(* The sampler's counters, without the product that the bound needs.       *)
Sampler ==
    /\ DOMAIN shadow = {"acc", "spent", "inflight"}
    /\ shadow.spent \in Nat /\ shadow.inflight \in 0..ShadowInflight

(* What may still be spent is what is in flight.                           *)
LEMMA OneMore ==
    ASSUME NEW m \in Nat, NEW k \in Nat
    PROVE  m * (k + 1) = m * k + m /\ m * k \in Nat
OBVIOUS

(* What may still be spent grows with what is in flight.                   *)
LEMMA MoreInFlight ==
    ASSUME NEW m \in Nat, NEW j \in Nat, NEW k \in Nat, j <= k
    PROVE  m * j <= m * k
OBVIOUS

(* Copying and settling keep the sampler's counts within its caps.         *)
LEMMA SamplerStep ==
    ASSUME Sampler, ShadowWithinCap, [Next]_vars
    PROVE  Sampler' /\ ShadowWithinCap'
<1>1. MaxCost \in Nat /\ ShadowCap \in Nat /\ ShadowInflight \in Nat
  BY PlacementAssumption
<1>2. ASSUME NEW t \in Threads, Mirror(t)  PROVE Sampler' /\ ShadowWithinCap'
  <2>1. CASE shadow'.spent = shadow.spent /\ shadow'.inflight = shadow.inflight
             /\ DOMAIN shadow' = DOMAIN shadow
    BY <2>1 DEF Sampler, ShadowWithinCap
  <2>2. CASE Copied(t) /\ shadow' = [shadow EXCEPT !.acc = 0, !.inflight = @ + 1]
    <3>1. shadow'.spent = shadow.spent /\ shadow'.inflight = shadow.inflight + 1
          /\ DOMAIN shadow' = {"acc", "spent", "inflight"}
      BY <2>2 DEF Sampler
    <3>2. shadow.spent < ShadowCap /\ shadow.inflight < ShadowInflight
      BY <2>2 DEF Copied
    <3>3. shadow'.inflight \in Nat /\ shadow'.inflight <= ShadowInflight
      BY <1>1, <3>1, <3>2 DEF Sampler
    <3>4. MaxCost * shadow'.inflight <= MaxCost * ShadowInflight
      BY <1>1, <3>3, MoreInFlight
    <3>5. MaxCost * shadow'.inflight \in Nat /\ MaxCost * ShadowInflight \in Nat
      BY <1>1, <3>3, OneMore
    <3> HIDE DEF Sampler
    <3>6. shadow'.spent + MaxCost * shadow'.inflight <= ShadowCap + MaxCost * ShadowInflight
      <4>1. shadow.spent \in Nat
        BY DEF Sampler
      <4> DEFINE a == MaxCost * shadow'.inflight
      <4> DEFINE b == MaxCost * ShadowInflight
      <4>2. a \in Nat /\ b \in Nat /\ a <= b
        BY <3>4, <3>5
      <4> HIDE DEF a, b
      <4>3. shadow'.spent + a <= ShadowCap + b
        BY <1>1, <3>1, <3>2, <4>1, <4>2
      <4> QED  BY <4>3 DEF a, b
    <3> QED  BY <3>1, <3>3, <3>6 DEF Sampler, ShadowWithinCap
  <2>3. \/ UNCHANGED shadow
        \/ shadow' = [shadow EXCEPT !.acc = @ + 1]
        \/ Copied(t) /\ \E go \in {0, 1} : shadow' = [shadow EXCEPT !.acc = 0, !.inflight = @ + go]
    BY <1>2 DEF Mirror
  <2>4. shadow.inflight + 0 = shadow.inflight
    BY DEF Sampler
  <2> QED  BY <2>1, <2>2, <2>3, <2>4 DEF Sampler
<1>3. CASE Settle
  <2>1. PICK cost \in 0..MaxCost : shadow' = [shadow EXCEPT !.spent = @ + cost, !.inflight = @ - 1]
    BY <1>3 DEF Settle
  <2>2. /\ shadow'.spent = shadow.spent + cost /\ shadow'.inflight = shadow.inflight - 1
        /\ DOMAIN shadow' = {"acc", "spent", "inflight"}
    BY <2>1 DEF Sampler
  <2>3. shadow.inflight > 0 /\ shadow'.inflight \in Nat /\ shadow.inflight = shadow'.inflight + 1
    BY <1>1, <1>3, <2>2 DEF Settle, Sampler
  <2>4. MaxCost * shadow.inflight = MaxCost * shadow'.inflight + MaxCost
        /\ MaxCost * shadow'.inflight \in Nat /\ MaxCost * ShadowInflight \in Nat
    BY <1>1, <2>3, OneMore
  <2>5. shadow'.spent + MaxCost * shadow'.inflight <= ShadowCap + MaxCost * ShadowInflight
    <3> DEFINE a == MaxCost * shadow'.inflight
    <3> DEFINE b == MaxCost * ShadowInflight
    <3>1. shadow.spent + (a + MaxCost) <= ShadowCap + b
      BY <2>4 DEF ShadowWithinCap
    <3>2. a \in Nat /\ b \in Nat /\ shadow.spent \in Nat /\ cost \in Nat /\ cost <= MaxCost
      BY <1>1, <2>4 DEF Sampler
    <3> HIDE DEF a, b
    <3>3. (shadow.spent + cost) + a <= ShadowCap + b
      BY <1>1, <3>1, <3>2
    <3> QED  BY <2>2, <3>3 DEF a, b
  <2> QED  BY <1>1, <2>1, <2>2, <2>3, <2>5 DEF Sampler, ShadowWithinCap
<1>4. CASE UNCHANGED shadow
  BY <1>4 DEF Sampler, ShadowWithinCap
<1> QED
  BY <1>2, <1>3, <1>4
  DEF Next, vars, Arrive, AskLabel, AskBreaker, Answer, Count, Prepare, Refused, Failover, Finish, Label, Tick

(* Shadow copies overrun their cap by no more than those in flight cost,   *)
(* though each is paid only when it returns (rc_gateway_shadow and         *)
(* shadow_run, gateway_context.c:1022-1106).                               *)
THEOREM ShadowBudget == Spec => []ShadowWithinCap
<1>1. Init => Sampler /\ ShadowWithinCap
  <2> SUFFICES ASSUME Init  PROVE Sampler /\ ShadowWithinCap
    OBVIOUS
  <2>1. shadow = [acc |-> 0, spent |-> 0, inflight |-> 0]
    BY DEF Init
  <2>2. MaxCost * ShadowInflight \in Nat /\ MaxCost * 0 = 0
    BY PlacementAssumption, OneMore
  <2> QED  BY <2>1, <2>2, PlacementAssumption DEF Sampler, ShadowWithinCap
<1>2. Sampler /\ ShadowWithinCap /\ [Next]_vars => (Sampler /\ ShadowWithinCap)'
  BY SamplerStep
<1> QED  BY <1>1, <1>2, PTL DEF Spec

-----------------------------------------------------------------------------
(* A request of a session that was labelled when it arrived: the label is  *)
(* still there, so the judge is not reached, and what it is given is       *)
(* private.                                                                *)
Homed(t) ==
    thread[t].pc # "idle" =>
        /\ "early" \in DOMAIN thread[t]
        /\ thread[t].early =>
              /\ thread[t].session \in label
              /\ thread[t].pc \notin {"breaker", "asking", "answered"}
              /\ thread[t].pc \in {"shadow", "sent"} => registry[thread[t].at].private

AllHomed == \A t \in Threads : Homed(t)

(* Whatever is offered to a restricted session is private.                 *)
LEMMA OfferedIsPrivate ==
    ASSUME NEW t \in Threads, Restricted(t), NEW i \in Offered(t)
    PROVE  registry[i].private
BY DEF Offered, Reach

(* One thread moves; the label and the registry stay.                      *)
LEMMA OneMoves ==
    ASSUME AllHomed, NEW t \in Threads, UNCHANGED <<label, registry>>,
           \A u \in Threads \ {t} : thread'[u] = thread[u], Homed(t)'
    PROVE  AllHomed'
<1>1. ASSUME NEW u \in Threads \ {t}  PROVE Homed(u)'
  BY DEF AllHomed, Homed
<1> QED  BY <1>1 DEF AllHomed

LEMMA HomedKeeps ==
    ASSUME Inv, AllHomed, [Next]_vars
    PROVE  AllHomed'
<1>d. DOMAIN thread = Threads
  BY DEF Inv, Shaped
<1>1. ASSUME NEW t \in Threads, NEW s \in Sessions, Arrive(t, s)  PROVE AllHomed'
  <2>1. PICK q : thread' = [thread EXCEPT ![t] =
               [pc |-> IF Judgeable(q) THEN "judge" ELSE "prepare", session |-> s, request |-> q,
                early |-> s \in label, routine |-> FALSE, answer |-> "none"]]
    BY <1>1 DEF Arrive
  <2>2. UNCHANGED <<label, registry>>
    BY <1>1 DEF Arrive
  <2>3. /\ thread'[t].pc \in {"judge", "prepare"} /\ thread'[t].session = s
        /\ "early" \in DOMAIN thread'[t] /\ thread'[t].early = (s \in label)
    BY <1>d, <2>1
  <2>4. \A u \in Threads \ {t} : thread'[u] = thread[u]
    BY <2>1
  <2>5. Homed(t)'
    BY <2>2, <2>3 DEF Homed
  <2> QED  BY <2>2, <2>4, <2>5, OneMoves
<1>2. ASSUME NEW t \in Threads, AskLabel(t) \/ AskBreaker(t) \/ Answer(t) \/ Count(t)
      PROVE  AllHomed'
  <2>1. /\ thread[t].pc # "idle"
        /\ {"pc", "session", "early"} \subseteq DOMAIN thread[t]
    BY <1>2 DEF Inv, Shaped, AllHomed, Homed, AskLabel, AskBreaker, Answer, Count
  <2>2. UNCHANGED <<label, registry>>
    BY <1>2 DEF AskLabel, AskBreaker, Answer, Count
  <2>3. /\ \A u \in Threads \ {t} : thread'[u] = thread[u]
        /\ {"pc", "session", "early"} \subseteq DOMAIN thread'[t]
        /\ thread'[t].session = thread[t].session /\ thread'[t].early = thread[t].early
        /\ \/ thread'[t].pc = "prepare"
           \/ thread'[t].pc = "breaker" /\ thread[t].session \notin label
           \/ thread'[t].pc \in {"asking", "answered"} /\ thread[t].pc \in {"breaker", "asking"}
    <3>1. CASE AskLabel(t)
      BY <1>d, <2>1, <3>1 DEF AskLabel
    <3>2. CASE AskBreaker(t)
      BY <1>d, <2>1, <3>2 DEF AskBreaker
    <3>3. CASE Answer(t)
      BY <1>d, <2>1, <3>3 DEF Answer
    <3>4. CASE Count(t)
      BY <1>d, <2>1, <3>4 DEF Count
    <3> QED  BY <1>2, <3>1, <3>2, <3>3, <3>4
  <2>4. Homed(t)'
    BY <2>1, <2>2, <2>3 DEF AllHomed, Homed
  <2> QED  BY <2>2, <2>3, <2>4, OneMoves
<1>3. ASSUME NEW t \in Threads, Prepare(t)  PROVE AllHomed'
  <2>1. /\ thread[t].pc = "prepare" /\ UNCHANGED <<label, registry>>
        /\ \/ Refused(t)
           \/ \E i \in Offered(t) : thread' = [thread EXCEPT ![t] = Exchange(t, i)]
    BY <1>3 DEF Prepare
  <2>2. CASE Refused(t)
    <3>1. thread'[t].pc = "idle" /\ \A u \in Threads \ {t} : thread'[u] = thread[u]
      BY <1>d, <2>2 DEF Refused, Idle
    <3>2. Homed(t)'
      BY <3>1 DEF Homed
    <3> QED  BY <2>1, <3>1, <3>2, OneMoves
  <2>3. ASSUME NEW i \in Offered(t), thread' = [thread EXCEPT ![t] = Exchange(t, i)]
        PROVE  AllHomed'
    <3>1. /\ thread'[t].pc = "shadow" /\ thread'[t].session = thread[t].session
          /\ thread'[t].early = thread[t].early /\ thread'[t].at = i
          /\ "early" \in DOMAIN thread'[t]
          /\ \A u \in Threads \ {t} : thread'[u] = thread[u]
      BY <1>d, <2>3 DEF Exchange
    <3>2. thread[t].early => thread[t].session \in label
      BY <2>1 DEF AllHomed, Homed
    <3>3. thread[t].early => registry[i].private
      BY <2>3, <3>2, OfferedIsPrivate DEF Restricted
    <3>4. Homed(t)'
      BY <2>1, <3>1, <3>2, <3>3 DEF Homed
    <3> QED  BY <2>1, <3>1, <3>4, OneMoves
  <2> QED  BY <2>1, <2>2, <2>3
<1>4. ASSUME NEW t \in Threads, Mirror(t)  PROVE AllHomed'
  <2>1. thread[t].pc = "shadow" /\ {"pc", "session", "early", "at"} \subseteq DOMAIN thread[t]
    BY <1>4 DEF Inv, Shaped, AllHomed, Homed, Mirror
  <2>2. /\ \A u \in Threads \ {t} : thread'[u] = thread[u]
        /\ DOMAIN thread'[t] = DOMAIN thread[t] /\ thread'[t].pc = "sent"
        /\ thread'[t].session = thread[t].session /\ thread'[t].at = thread[t].at
        /\ thread'[t].early = thread[t].early
        /\ UNCHANGED <<label, registry>>
    BY <1>4, <1>d, <2>1 DEF Mirror
  <2>3. Homed(t)'
    BY <2>1, <2>2 DEF AllHomed, Homed
  <2> QED  BY <2>2, <2>3, OneMoves
<1>5. ASSUME NEW t \in Threads, Finish(t)  PROVE AllHomed'
  <2>1. /\ thread'[t].pc = "idle" /\ \A u \in Threads \ {t} : thread'[u] = thread[u]
        /\ UNCHANGED <<label, registry>>
    BY <1>5, <1>d DEF Finish, Idle
  <2>2. Homed(t)'
    BY <2>1 DEF Homed
  <2> QED  BY <2>1, <2>2, OneMoves
<1>6. ASSUME NEW t \in Threads, Failover(t)  PROVE AllHomed'
  <2>0. PICK overflow \in BOOLEAN : \E i \in failover_target(thread[t], overflow) :
            thread' = [thread EXCEPT ![t].at = i, ![t].tries = @ + 1]
    BY <1>6 DEF Failover
  <2>1. PICK i \in failover_target(thread[t], overflow) :
            thread' = [thread EXCEPT ![t].at = i, ![t].tries = @ + 1]
    BY <2>0
  <2>2. thread[t].session \in label => registry[i].private
    BY <2>1 DEF failover_target
  <2>3. thread[t].pc = "sent" /\ {"pc", "session", "early", "at"} \subseteq DOMAIN thread[t]
    BY <1>6 DEF Inv, Shaped, AllHomed, Homed, Failover
  <2>4. /\ \A u \in Threads \ {t} : thread'[u] = thread[u]
        /\ DOMAIN thread'[t] = DOMAIN thread[t] /\ thread'[t].pc = thread[t].pc
        /\ thread'[t].session = thread[t].session /\ thread'[t].at = i
        /\ thread'[t].early = thread[t].early
        /\ UNCHANGED <<label, registry>>
    BY <1>6, <1>d, <2>1, <2>3 DEF Failover
  <2>5. Homed(t)'
    BY <2>2, <2>3, <2>4 DEF AllHomed, Homed
  <2> QED  BY <2>4, <2>5, OneMoves
<1>7. ASSUME UNCHANGED <<thread, registry>>, label \subseteq label'  PROVE AllHomed'
  BY <1>7 DEF AllHomed, Homed
<1>8. CASE (\E s \in Sessions : Label(s)) \/ Settle \/ Tick \/ UNCHANGED vars
  BY <1>7, <1>8 DEF Label, Settle, Tick, vars
<1> QED  BY <1>1, <1>2, <1>3, <1>4, <1>5, <1>6, <1>8 DEF Next

(* A session labelled before its request arrives is neither shown to the   *)
(* judge nor served in public, with or without a session of its own, for   *)
(* every registry, budget and verdict of the gate ("A restricted session's *)
(* state never goes to the public judge", gateway_context.c:1300).         *)
THEOREM LabelHolds == Spec => []LabelledStaysHome
<1>1. Init => AllHomed
  BY DEF Init, AllHomed, Homed, Idle
<1>2. AllHomed => LabelledStaysHome
  BY DEF AllHomed, Homed, LabelledStaysHome
<1> QED  BY InitHolds, StepKeeps, HomedKeeps, <1>1, <1>2, PTL DEF Spec

-----------------------------------------------------------------------------
(* Of folds over places 1..n, the last first: what the selector and the   *)
(* signals walk are made of.                                               *)
\* A set of naturals that is not empty has a least member.
LEMMA SmallestIs ==
    ASSUME NEW T \in SUBSET Nat, T # {}
    PROVE  \E m \in T : \A n \in T : m <= n
<1>1. \E m \in T : \A n \in T : ~(<<n, m>> \in OpToRel(<, Nat))
  BY WFMin, NatLessThanWellFounded
<1>2. PICK m \in T : \A n \in T : ~(<<n, m>> \in OpToRel(<, Nat))
  BY <1>1
<1>3. ASSUME NEW n \in T  PROVE m <= n
  <2>1. n \in Nat /\ m \in Nat
    OBVIOUS
  <2>2. n < m => <<n, m>> \in OpToRel(<, Nat)
    BY <2>1 DEF OpToRel
  <2>3. ~(n < m)
    BY <1>2, <2>2
  <2> QED  BY <2>1, <2>3
<1> QED  BY <1>3

LEMMA LargestIs ==
    ASSUME NEW n \in Nat, NEW T \in SUBSET (1..n), T # {}
    PROVE  \E m \in T : \A k \in T : k <= m
<1>1. PICK d \in {n - y : y \in T} : \A e \in {n - y : y \in T} : d <= e
  <2>1. \A y \in T : n - y \in Nat
    OBVIOUS
  <2>2. {n - y : y \in T} \in SUBSET Nat /\ {n - y : y \in T} # {}
    BY <2>1
  <2> QED  BY <2>2, SmallestIs
<1>2. PICK m \in T : d = n - m
  BY <1>1
<1>3. ASSUME NEW k \in T  PROVE k <= m
  <2>1. n - m <= n - k
    BY <1>1, <1>2
  <2> QED  BY <2>1
<1> QED  BY <1>3

LEMMA MaxIs ==
    ASSUME NEW n \in Nat, NEW s \in SUBSET (1..n), s # {}
    PROVE  Max(s) \in s /\ \A k \in s : k <= Max(s)
<1>1. PICK m \in s : \A k \in s : k <= m
  BY LargestIs
<1>2. \A k \in s : m >= k
  BY <1>1
<1>3. Max(s) \in s /\ \A k \in s : Max(s) >= k
  BY <1>2 DEF Max
<1> QED  BY <1>3

(* Two folds over the places 1..n that start alike and take like steps are *)
(* one.                                                                    *)
Alike(n, f, g) ==
    /\ f[{}] = g[{}]
    /\ \A s \in SUBSET (1..n) : s # {} /\ f[s \ {Max(s)}] = g[s \ {Max(s)}] => f[s] = g[s]

LEMMA SameFold ==
    ASSUME NEW n \in Nat, NEW f, NEW g, Alike(n, f, g)
    PROVE  \A s \in SUBSET (1..n) : f[s] = g[s]
<1> DEFINE wrong == {s \in SUBSET (1..n) : f[s] # g[s]}
<1>1. wrong \subseteq FiniteSubsetsOf(1..n)
  <2>1. IsFiniteSet(1..n)
    BY FS_Interval
  <2> QED  BY <2>1, FS_Subset DEF FiniteSubsetsOf
<1>2. ASSUME wrong # {}  PROVE FALSE
  <2>1. PICK s \in wrong : \A u \in wrong : ~(<<u, s>> \in StrictSubsetOrdering(1..n))
    <3> HIDE DEF wrong
    <3> QED  BY <1>1, <1>2, WFMin, FS_StrictSubsetOrderingWellFounded
  <2>2. s # {}
    BY DEF Alike
  <2>3. s \ {Max(s)} \in SUBSET (1..n) /\ s \ {Max(s)} # s
    BY <2>2, MaxIs
  <2>4. f[s \ {Max(s)}] = g[s \ {Max(s)}]
    BY <2>1, <2>3 DEF StrictSubsetOrdering
  <2> QED  BY <2>2, <2>4 DEF Alike
<1> QED  BY <1>2

-----------------------------------------------------------------------------
(* What the selector finds. *)
(* A registry as the configuration leaves it: no alias is given twice.     *)
Listed(r, quotes) ==
    /\ \E n \in Nat : DOMAIN r = 1..n
    /\ \A i \in DOMAIN r : quotes[i].cost \in Nat /\ r[i].alias \in Nat
    /\ \A i, j \in DOMAIN r : r[i].alias = r[j].alias => i = j

LEMMA LeastExists ==
    ASSUME NEW r, NEW quotes, Listed(r, quotes), NEW S \in SUBSET DOMAIN r, S # {}
    PROVE  \E i \in S : Least(r, quotes, S, i)
<1> DEFINE costs == {quotes[i].cost : i \in S}
<1>1. PICK m \in costs : \A n \in costs : m <= n
  <2>1. costs \in SUBSET Nat /\ costs # {}
    BY DEF Listed
  <2> HIDE DEF costs
  <2> QED  BY <2>1, SmallestIs
<1> DEFINE aliases == {r[i].alias : i \in {j \in S : quotes[j].cost = m}}
<1>2. PICK a \in aliases : \A b \in aliases : a <= b
  <2>1. aliases \in SUBSET Nat /\ aliases # {}
    BY <1>1 DEF Listed
  <2> HIDE DEF aliases
  <2> QED  BY <2>1, SmallestIs
<1>3. PICK i \in S : quotes[i].cost = m /\ r[i].alias = a
  BY <1>2
<1>4. ASSUME NEW j \in S \ {i}
      PROVE  \/ quotes[i].cost < quotes[j].cost
             \/ quotes[i].cost = quotes[j].cost /\ r[i].alias < r[j].alias
  <2>1. /\ quotes[j].cost \in Nat /\ r[j].alias \in Nat /\ r[j].alias # r[i].alias
        /\ m \in Nat /\ a \in Nat
    BY <1>3 DEF Listed
  <2>2. m <= quotes[j].cost
    BY <1>1
  <2>3. quotes[j].cost = m => a <= r[j].alias
    BY <1>2
  <2> QED  BY <1>3, <2>1, <2>2, <2>3
<1> QED  BY <1>3, <1>4 DEF Least

LEMMA LeastIsOne ==
    ASSUME NEW r, NEW quotes, Listed(r, quotes), NEW S \in SUBSET DOMAIN r,
           NEW i, Least(r, quotes, S, i), NEW j, Least(r, quotes, S, j)
    PROVE  i = j
<1>1. i \in S /\ j \in S
  BY DEF Least
<1>2. /\ quotes[i].cost \in Nat /\ quotes[j].cost \in Nat
      /\ r[i].alias \in Nat /\ r[j].alias \in Nat
  BY <1>1 DEF Listed
<1> QED  BY <1>1, <1>2 DEF Least

(* What a pass over the places s keeps: of those it may take, the least.   *)
Takes(quotes, first, able, s) ==
    {i \in s \cap able : first # 0 => quotes[i].cost < quotes[first].cost}

Best(r, quotes, first, able, s) ==
    IF Takes(quotes, first, able, s) = {} THEN first
    ELSE CHOOSE i \in s : Least(r, quotes, Takes(quotes, first, able, s), i)

LEMMA BestIs ==
    ASSUME NEW r, NEW quotes, Listed(r, quotes), NEW first, NEW able, NEW s \in SUBSET DOMAIN r
    PROVE  LET t == Takes(quotes, first, able, s)
               b == Best(r, quotes, first, able, s)
           IN  IF t = {} THEN b = first ELSE Least(r, quotes, t, b)
<1> DEFINE t == Takes(quotes, first, able, s)
<1>1. CASE t = {}
  BY <1>1 DEF Best
<1>2. CASE t # {}
  <2>1. t \in SUBSET DOMAIN r /\ t \subseteq s
    BY DEF Takes
  <2>2. \E i \in s : Least(r, quotes, t, i)
    <3> HIDE DEF t
    <3> QED  BY <1>2, <2>1, LeastExists
  <2> QED  BY <1>2, <2>2 DEF Best
<1> QED  BY <1>1, <1>2

(* One more place, looked at after the others, changes the choice as the   *)
(* step of the pass does.                                                  *)
LEMMA BestStep ==
    ASSUME NEW r, NEW quotes, Listed(r, quotes), NEW first \in DOMAIN r \cup {0}, NEW able,
           NEW s \in SUBSET DOMAIN r, NEW x \in s
    PROVE  LET b == Best(r, quotes, first, able, s \ {x})
           IN  Best(r, quotes, first, able, s) =
                  IF x \in able /\ Better(r, quotes, first, x, b) THEN x ELSE b
<1> DEFINE S == Takes(quotes, first, able, s)
           T == Takes(quotes, first, able, s \ {x})
           b == Best(r, quotes, first, able, s \ {x})
           c == Best(r, quotes, first, able, s)
<1>1. T = S \ {x} /\ S \in SUBSET DOMAIN r /\ T \in SUBSET DOMAIN r
  BY DEF Takes
<1>2. IF S = {} THEN c = first ELSE Least(r, quotes, S, c)
  BY BestIs
<1>3. IF T = {} THEN b = first ELSE Least(r, quotes, T, b)
  BY BestIs
<1>4. 0 \notin DOMAIN r
  BY DEF Listed
<1>5. /\ \A i \in DOMAIN r : quotes[i].cost \in Nat /\ r[i].alias \in Nat
      /\ \A i, j \in DOMAIN r : i # j => r[i].alias # r[j].alias
  BY DEF Listed
<1>6. x \in DOMAIN r /\ (x \in S <=> x \in able /\ (first # 0 => quotes[x].cost < quotes[first].cost))
  BY DEF Takes
<1>7. \A i \in S \cup T : first # 0 => quotes[i].cost < quotes[first].cost
  BY DEF Takes
<1> HIDE DEF S, T, b, c
<1>8. CASE x \notin S
  <2>1. S = T
    BY <1>1, <1>8
  <2>2. c = b
    BY <1>1, <1>2, <1>3, <2>1, LeastIsOne
  <2>3. ~(x \in able /\ Better(r, quotes, first, x, b))
    <3> SUFFICES ASSUME x \in able PROVE ~Better(r, quotes, first, x, b)
      OBVIOUS
    <3>1. first \in DOMAIN r /\ ~(quotes[x].cost < quotes[first].cost)
      BY <1>6, <1>8
    <3>2. CASE T = {}
      BY <1>3, <1>4, <3>1, <3>2 DEF Better
    <3>3. CASE T # {}
      <4>1. b \in T /\ b \in DOMAIN r /\ quotes[b].cost < quotes[first].cost
        BY <1>1, <1>3, <1>4, <1>7, <3>1, <3>3 DEF Least
      <4> QED  BY <1>4, <1>5, <1>6, <3>1, <4>1 DEF Better
    <3> QED  BY <3>2, <3>3
  <2> QED  BY <2>2, <2>3 DEF b, c
<1>9. CASE x \in S /\ T = {}
  <2>1. S = {x}
    BY <1>1, <1>9
  <2>2. c = x
    BY <1>2, <2>1 DEF Least
  <2>3. x \in able /\ Better(r, quotes, first, x, b)
    BY <1>3, <1>6, <1>9 DEF Better
  <2> QED  BY <2>2, <2>3 DEF b, c
<1>10. CASE x \in S /\ T # {}
  <2>1. Least(r, quotes, T, b) /\ Least(r, quotes, S, c) /\ x \notin T /\ S = T \cup {x}
    BY <1>1, <1>2, <1>3, <1>10
  <2>2. b \in T /\ b \in DOMAIN r /\ b # 0 /\ b # x /\ b # first
    <3>1. b \in T
      BY <2>1 DEF Least
    <3>2. b \in DOMAIN r /\ b # 0 /\ b # x
      BY <1>1, <1>4, <2>1, <3>1
    <3>3. first # 0 => quotes[b].cost < quotes[first].cost /\ first \in DOMAIN r
      BY <1>7, <3>1
    <3> QED  BY <1>5, <3>1, <3>2, <3>3
  <2>3. Better(r, quotes, first, x, b) <=>
            \/ quotes[x].cost < quotes[b].cost
            \/ quotes[x].cost = quotes[b].cost /\ r[x].alias < r[b].alias
    BY <2>2 DEF Better
  <2>4. CASE Better(r, quotes, first, x, b)
    <3>1. ASSUME NEW j \in S \ {x}
          PROVE  \/ quotes[x].cost < quotes[j].cost
                 \/ quotes[x].cost = quotes[j].cost /\ r[x].alias < r[j].alias
      <4>1. j = b \/ \/ quotes[b].cost < quotes[j].cost
                     \/ quotes[b].cost = quotes[j].cost /\ r[b].alias < r[j].alias
        BY <2>1 DEF Least
      <4>2. j \in DOMAIN r
        BY <1>1
      <4> QED  BY <1>5, <1>6, <2>2, <2>3, <2>4, <4>1, <4>2
    <3>2. Least(r, quotes, S, x)
      BY <1>10, <3>1 DEF Least
    <3>3. c = x
      BY <1>1, <2>1, <3>2, LeastIsOne
    <3> QED  BY <1>6, <1>10, <2>4, <3>3 DEF b, c
  <2>5. CASE ~Better(r, quotes, first, x, b)
    <3>1. \/ quotes[b].cost < quotes[x].cost
          \/ quotes[b].cost = quotes[x].cost /\ r[b].alias < r[x].alias
      BY <1>5, <1>6, <2>2, <2>3, <2>5
    <3>2. Least(r, quotes, S, b)
      BY <2>1, <3>1 DEF Least
    <3>3. c = b
      BY <1>1, <2>1, <3>2, LeastIsOne
    <3> QED  BY <2>5, <3>3 DEF b, c
  <2> QED  BY <2>4, <2>5
<1> QED  BY <1>8, <1>9, <1>10

LEMMA PassUnfolds ==
    ASSUME NEW r, NEW quotes, NEW first, NEW able
    PROVE  Pass(r, quotes, first, able) =
              LET D == DOMAIN r
                  it == CHOOSE f : f = [s \in SUBSET D |->
                          IF s = {} THEN first
                          ELSE LET x == Max(s)
                               IN IF /\ [i \in D |-> i][x] \in able
                                     /\ Better(r, quotes, first, [i \in D |-> i][x], f[s \ {x}])
                                  THEN [i \in D |-> i][x] ELSE f[s \ {x}]]
              IN  it[D]
<1>1. DOMAIN [i \in DOMAIN r |-> i] = DOMAIN r
  OBVIOUS
<1> QED  BY <1>1 DEF Pass, FoldLeft, MapThenFoldSet

(* A pass finds the best, over any registry.                               *)
LEMMA PassIs ==
    ASSUME NEW r, NEW quotes, Listed(r, quotes), NEW first \in DOMAIN r \cup {0}, NEW able
    PROVE  Pass(r, quotes, first, able) = Best(r, quotes, first, able, DOMAIN r)
<1> DEFINE D == DOMAIN r
           B(s) == Best(r, quotes, first, able, s)
           G(f) == [s \in SUBSET D |->
                     IF s = {} THEN first
                     ELSE LET x == Max(s)
                          IN IF /\ [i \in D |-> i][x] \in able
                                /\ Better(r, quotes, first, [i \in D |-> i][x], f[s \ {x}])
                             THEN [i \in D |-> i][x] ELSE f[s \ {x}]]
           it == CHOOSE f : f = G(f)
<1>0. PICK n \in Nat : D = 1..n
  BY DEF Listed
<1>1. ASSUME NEW s \in SUBSET D, s # {}
      PROVE  Max(s) \in s /\ \A k \in s : k <= Max(s)
  BY <1>0, <1>1, MaxIs
<1>2. ASSUME NEW s \in SUBSET D, s # {}
      PROVE  B(s) = IF Max(s) \in able /\ Better(r, quotes, first, Max(s), B(s \ {Max(s)}))
                    THEN Max(s) ELSE B(s \ {Max(s)})
  BY <1>1, <1>2, BestStep
<1>3. B({}) = first
  BY DEF Best, Takes
<1>4. LET f == [s \in SUBSET D |-> B(s)] IN f = G(f)
  <2> DEFINE f == [s \in SUBSET D |-> B(s)]
  <2>1. ASSUME NEW s \in SUBSET D
        PROVE  f[s] = G(f)[s]
    <3>1. CASE s = {}
      BY <1>3, <3>1
    <3>2. CASE s # {}
      <4>1. Max(s) \in D /\ [i \in D |-> i][Max(s)] = Max(s) /\ s \ {Max(s)} \in SUBSET D
        BY <1>1, <3>2
      <4>2. f[s] = B(s) /\ f[s \ {Max(s)}] = B(s \ {Max(s)})
        BY <4>1
      <4> HIDE DEF B, f
      <4> QED  BY <1>2, <3>2, <4>1, <4>2
    <3> QED  BY <3>1, <3>2
  <2> QED  BY <2>1
<1>5. it = G(it)
  <2> HIDE DEF G, B
  <2>1. \E f : f = G(f)
    BY <1>4
  <2> QED  BY <2>1
<1> HIDE DEF it
<1>6. ASSUME NEW s \in SUBSET D
      PROVE  it[s] = IF s = {} THEN first
                     ELSE IF Max(s) \in able /\ Better(r, quotes, first, Max(s), it[s \ {Max(s)}])
                          THEN Max(s) ELSE it[s \ {Max(s)}]
  <2>1. it[s] = G(it)[s]
    BY <1>5
  <2>2. s # {} => [i \in D |-> i][Max(s)] = Max(s)
    BY <1>1
  <2> QED  BY <2>1, <2>2
<1> HIDE DEF B
<1>7. it[D] = B(D)
  <2> DEFINE f == [s \in SUBSET D |-> B(s)]
  <2>1. f[{}] = it[{}]
    BY <1>3, <1>6
  <2>2. ASSUME NEW s \in SUBSET D, s # {}, it[s \ {Max(s)}] = f[s \ {Max(s)}]
        PROVE  it[s] = f[s]
    <3>1. f[s] = B(s) /\ f[s \ {Max(s)}] = B(s \ {Max(s)})
      OBVIOUS
    <3> HIDE DEF f
    <3> QED  BY <1>2, <1>6, <2>2, <3>1
  <2> HIDE DEF f
  <2>3. Alike(n, it, f)
    BY <1>0, <2>1, <2>2 DEF Alike
  <2>4. \A s \in SUBSET (1..n) : it[s] = f[s]
    BY <2>3, SameFold
  <2>5. it[D] = f[D]
    BY <1>0, <2>4
  <2> QED  BY <2>5 DEF f
<1>8. Pass(r, quotes, first, able) = it[D]
  BY PassUnfolds DEF it
<1> QED  BY <1>7, <1>8 DEF B

LEMMA TakesAll ==
    ASSUME NEW r, NEW quotes, NEW able \in SUBSET DOMAIN r
    PROVE  Takes(quotes, 0, able, DOMAIN r) = able
BY DEF Takes

(* Whatever is asked of it, however many candidates there are, the pass    *)
(* of rc_select meets the contract of selector.h.                          *)
LEMMA SelectMeets ==
    ASSUME NEW r, NEW quotes, Listed(r, quotes), NEW q,
           q.tokens # 0, q.saving \in Nat, q.continuity \in {"unknown", "pinned", "replayable"}
    PROVE  Meets(r, quotes, q, rc_select(r, quotes, q))
<1> DEFINE ok == Eligible(r, quotes, q)
           pin == {i \in ok : r[i].alias = q.pinned}
           base == {i \in ok : r[i].alias = q.baseline}
           raised == Qualified(r, q.escalation) \cap ok
           up == Pass(r, quotes, 0, raised)
           out == rc_select(r, quotes, q)
           b == CHOOSE i \in base : TRUE
           down == Downshift(r, quotes, q, b)
           cheaper == {i \in ok : /\ \E c \in TaskClasses(q) : i \in Qualified(r, c)
                                  /\ \A j \in base : quotes[i].cost + q.saving < quotes[j].cost}
           Took(i, reason) == [status |-> "ok", at |-> i, reason |-> IF i \in base THEN "baseline" ELSE reason]
<1>1. ok \subseteq DOMAIN r /\ raised \in SUBSET DOMAIN r
  BY DEF Eligible
<1>2. CASE q.continuity = "unknown" \/ (q.continuity = "replayable" /\ base = {})
  BY <1>2 DEF rc_select, Meets
<1>3. CASE q.continuity = "pinned"
  <2>1. CASE pin = {}
    BY <1>3, <2>1 DEF rc_select, Meets
  <2>2. CASE pin # {}
    <3> DEFINE p == CHOOSE i \in pin : TRUE
    <3>1. p \in pin
      BY <2>2
    <3>2. out = [status |-> "ok", at |-> p, reason |-> "pin"]
      BY <1>3, <2>2 DEF rc_select
    <3> HIDE DEF p, out
    <3>3. out.status = "ok" /\ out.reason = "pin" /\ out.at \in ok /\ r[out.at].alias = q.pinned
      BY <3>1, <3>2
    <3> QED  BY <1>3, <3>3 DEF Meets, out
  <2> QED  BY <2>1, <2>2
<1>4. CASE q.continuity = "replayable" /\ base # {}
  <2>1. b \in base /\ base = {b} /\ b \in DOMAIN r
    <3>1. b \in base
      BY <1>4
    <3> HIDE DEF b
    <3>2. \A i \in base : i = b
      BY <1>1, <3>1 DEF Listed
    <3> QED  BY <1>1, <3>1, <3>2
  <2>2. out = IF up # 0 THEN Took(up, "escalate") ELSE Took(down, "cheapest")
    BY <1>4 DEF rc_select
  <2>3. IF raised = {} THEN up = 0 ELSE Least(r, quotes, raised, up) /\ up # 0
    <3>1. up = Best(r, quotes, 0, raised, DOMAIN r)
      BY PassIs
    <3>2. Takes(quotes, 0, raised, DOMAIN r) = raised
      BY <1>1, TakesAll
    <3>3. IF raised = {} THEN up = 0 ELSE Least(r, quotes, raised, up)
      BY <3>1, <3>2, BestIs
    <3>4. 0 \notin DOMAIN r
      BY DEF Listed
    <3> QED  BY <1>1, <3>3, <3>4 DEF Least
  <2>4. IF cheaper = {} THEN down = b ELSE Least(r, quotes, cheaper, down)
    <3> DEFINE able == (UNION {Qualified(r, c) : c \in TaskClasses(q)}) \cap ok
               best == Pass(r, quotes, b, able)
               takes == Takes(quotes, b, able, DOMAIN r)
    <3>1. down = IF quotes[b].cost - quotes[best].cost <= q.saving THEN b ELSE best
      BY DEF Downshift
    <3>2. best = Best(r, quotes, b, able, DOMAIN r)
      BY <2>1, PassIs
    <3>3. IF takes = {} THEN best = b ELSE Least(r, quotes, takes, best)
      BY <3>2, BestIs
    <3> HIDE DEF b, base, ok, able
    <3>4. b # 0 /\ quotes[b].cost \in Nat /\ \A i \in DOMAIN r : quotes[i].cost \in Nat
      BY <2>1 DEF Listed
    <3>5. /\ takes = {i \in able : quotes[i].cost < quotes[b].cost}
          /\ cheaper = {i \in able : quotes[i].cost + q.saving < quotes[b].cost}
          /\ able \subseteq DOMAIN r
      <4>1. able \subseteq DOMAIN r
        BY <1>1 DEF able
      <4>2. takes = {i \in able : quotes[i].cost < quotes[b].cost}
        BY <3>4, <4>1 DEF Takes
      <4>3. \A i : i \in able <=> i \in ok /\ \E c \in TaskClasses(q) : i \in Qualified(r, c)
        BY DEF able
      <4>4. \A i : (\A j \in base : quotes[i].cost + q.saving < quotes[j].cost)
                      <=> quotes[i].cost + q.saving < quotes[b].cost
        BY <2>1
      <4> QED  BY <4>1, <4>2, <4>3, <4>4
    <3> HIDE DEF best, takes, cheaper, down
    <3>6. cheaper \subseteq takes
      BY <3>4, <3>5
    <3>7. CASE takes = {}
      <4>1. down = b
        BY <3>1, <3>3, <3>4, <3>7
      <4> QED  BY <3>6, <3>7, <4>1
    <3>8. CASE takes # {}
      <4>1. best \in takes /\ best \in DOMAIN r
        BY <3>3, <3>5, <3>8 DEF Least
      <4>2. quotes[best].cost \in Nat
        BY <3>4, <4>1
      <4>3. \A i \in takes : quotes[best].cost <= quotes[i].cost
        BY <3>3, <3>4, <3>5, <3>8, <4>2 DEF Least
      <4>4. CASE best \in cheaper
        <5>1. down = best
          BY <3>1, <3>4, <3>5, <4>2, <4>4
        <5>2. Least(r, quotes, cheaper, best)
          BY <3>3, <3>6, <3>8, <4>4 DEF Least
        <5> QED  BY <4>4, <5>1, <5>2
      <4>5. CASE best \notin cheaper
        <5>1. best \in able /\ ~(quotes[best].cost + q.saving < quotes[b].cost)
          BY <3>5, <4>1, <4>5
        <5>2. down = b
          BY <3>1, <3>4, <4>2, <5>1
        <5>3. cheaper = {}
          <6> SUFFICES ASSUME NEW i \in cheaper PROVE FALSE
            OBVIOUS
          <6>1. i \in takes /\ quotes[i].cost \in Nat /\ quotes[i].cost + q.saving < quotes[b].cost
            BY <3>4, <3>5, <3>6
          <6> QED  BY <3>4, <4>2, <4>3, <5>1, <6>1
        <5> QED  BY <5>2, <5>3
      <4> QED  BY <4>4, <4>5
    <3> QED  BY <3>7, <3>8
  <2> HIDE DEF up, down, b, out, raised, cheaper
  <2>5. /\ out.status = "ok"
        /\ IF raised # {} THEN Least(r, quotes, raised, out.at)
           ELSE IF cheaper # {} THEN Least(r, quotes, cheaper, out.at) ELSE out.at \in base
        /\ out.reason = IF out.at \in base THEN "baseline" ELSE IF raised # {} THEN "escalate" ELSE "cheapest"
    <3>1. CASE raised # {}
      <4>1. out = Took(up, "escalate") /\ Least(r, quotes, raised, up)
        BY <2>2, <2>3, <3>1
      <4> HIDE DEF base
      <4> QED  BY <3>1, <4>1
    <3>2. CASE raised = {}
      <4>1. out = Took(down, "cheapest")
        BY <2>2, <2>3, <3>2
      <4>2. IF cheaper = {} THEN down \in base ELSE Least(r, quotes, cheaper, down)
        BY <2>1, <2>4
      <4> HIDE DEF base
      <4> QED  BY <3>2, <4>1, <4>2
    <3> QED  BY <3>1, <3>2
  <2>6. Meets(r, quotes, q, out) <=>
        /\ out.status = "ok"
        /\ IF raised # {} THEN Least(r, quotes, raised, out.at)
           ELSE IF cheaper # {} THEN Least(r, quotes, cheaper, out.at) ELSE out.at \in base
        /\ out.reason = IF out.at \in base THEN "baseline" ELSE IF raised # {} THEN "escalate" ELSE "cheapest"
    BY <1>4 DEF Meets, raised, cheaper
  <2> QED  BY <2>5, <2>6 DEF out
<1> QED  BY <1>2, <1>3, <1>4

-----------------------------------------------------------------------------
(* What a candidate is quoted at, for any usage the provider reported.     *)
LEMMA QuarterIs ==
    ASSUME NEW n \in Nat
    PROVE  quarter(n) \in Nat
BY DEF quarter

LEMMA AddIs ==
    ASSUME NEW a \in Nat, NEW b \in Nat
    PROVE  add(a, b) \in Nat
BY SelectionAssumption DEF add

LEMMA ProductIs ==
    ASSUME NEW a \in Nat, NEW b \in Nat
    PROVE  a * b \in Nat
OBVIOUS

LEMMA CostIs ==
    ASSUME NEW price \in [input: Nat, cached: Nat, output: Nat],
           NEW prompt \in Nat, NEW cached \in Nat, NEW output \in Nat
    PROVE  rc_turn_cost(price, prompt, cached, output) \in Nat
<1> DEFINE c == IF cached > prompt THEN prompt ELSE cached
<1>1. c \in Nat /\ prompt - c \in Nat /\ price.input \in Nat /\ price.cached \in Nat /\ price.output \in Nat
  OBVIOUS
<1>2. rc_turn_cost(price, prompt, cached, output) =
          (prompt - c) * price.input + c * price.cached + output * price.output
  BY DEF rc_turn_cost
<1> HIDE DEF c
<1>3. /\ (prompt - c) * price.input \in Nat /\ c * price.cached \in Nat
      /\ output * price.output \in Nat
  BY <1>1, ProductIs
<1> HIDE DEF c
<1> DEFINE x == (prompt - c) * price.input
           y == c * price.cached
           z == output * price.output
<1>4. x \in Nat /\ y \in Nat /\ z \in Nat
  BY <1>3
<1> HIDE DEF x, y, z
<1>5. x + y + z \in Nat
  BY <1>4
<1> QED  BY <1>2, <1>5 DEF x, y, z

(* A turn of a request of a known kind.                                    *)
Counted(turn) ==
    /\ {turn.appended, turn.bytes, turn.max} \subseteq Nat
    /\ turn.last \in [known: BOOLEAN, prompt: Nat, completion: Nat, cached: Nat]

LEMMA QuoteIs ==
    ASSUME NEW r, NEW i \in DOMAIN r, r[i].price \in [input: Nat, cached: Nat, output: Nat],
           NEW turn, Counted(turn)
    PROVE  Quote(r, turn, i).cost \in Nat
<1>1. Prompt(turn) \in Nat
  BY QuarterIs, AddIs DEF Prompt, rc_estimate_prompt_tokens, Counted
<1>2. rc_cached_input_tokens(i = turn.owner, turn.last, Prompt(turn)) \in Nat
  BY <1>1 DEF rc_cached_input_tokens, Counted
<1>3. rc_estimate_output_tokens(IF turn.bounded THEN turn.max ELSE 0, 0) \in Nat
  BY SelectionAssumption DEF rc_estimate_output_tokens, Counted
<1> QED  BY <1>1, <1>2, <1>3, CostIs DEF Quote

(* Every request being placed is one that came, over the registry that the *)
(* process was started with.                                               *)
Asked ==
    /\ DOMAIN thread = Threads /\ load \in DOMAIN Loads /\ registry \in Loads[load].registries
    /\ \A t \in Threads : thread[t].pc \in {"judge", "breaker", "asking", "answered", "prepare"} =>
          {"pc", "request"} \subseteq DOMAIN thread[t] /\ thread[t].request \in Loads[load].kinds

LEMMA AskedKeeps == Asked /\ [Next]_vars => Asked'
<1> SUFFICES ASSUME Asked, [Next]_vars PROVE Asked'
  OBVIOUS
<1> DEFINE Waits(h) == h.pc \in {"judge", "breaker", "asking", "answered", "prepare"} =>
                          {"pc", "request"} \subseteq DOMAIN h /\ h.request \in Loads[load].kinds
<1>1. UNCHANGED <<load, registry>>
  BY DEF Next, Arrive, AskLabel, AskBreaker, Answer, Count, Prepare, Mirror, Failover, Finish,
         Label, Settle, Tick, vars
<1>2. ASSUME NEW t \in Threads, NEW h, Waits(h), thread' = [thread EXCEPT ![t] = h]
      PROVE  Asked'
  BY <1>1, <1>2 DEF Asked
<1>3. ASSUME NEW t \in Threads, NEW s \in Sessions, Arrive(t, s)  PROVE Asked'
  <2>1. PICK q \in Loads[load].kinds : thread' = [thread EXCEPT ![t] =
               [pc |-> IF Judgeable(q) THEN "judge" ELSE "prepare", session |-> s, request |-> q,
                early |-> s \in label, routine |-> FALSE, answer |-> "none"]]
    BY <1>3 DEF Arrive
  <2> DEFINE h == [pc |-> IF Judgeable(q) THEN "judge" ELSE "prepare", session |-> s, request |-> q,
                   early |-> s \in label, routine |-> FALSE, answer |-> "none"]
  <2>2. {"pc", "request"} \subseteq DOMAIN h /\ h.request = q
    OBVIOUS
  <2> HIDE DEF h
  <2>3. Waits(h)
    BY <2>2
  <2>4. thread' = [thread EXCEPT ![t] = h]
    BY <2>1 DEF h
  <2> QED  BY <1>2, <2>3, <2>4
<1>4. ASSUME NEW t \in Threads, AskLabel(t) \/ AskBreaker(t) \/ Answer(t) \/ Count(t)
      PROVE  Asked'
  <2>1. /\ {"pc", "request"} \subseteq DOMAIN thread[t] /\ thread[t].request \in Loads[load].kinds
        /\ DOMAIN thread = Threads
    BY <1>4 DEF Asked, AskLabel, AskBreaker, Answer, Count
  <2>2. /\ DOMAIN thread' = Threads /\ \A u \in Threads \ {t} : thread'[u] = thread[u]
        /\ DOMAIN thread'[t] = DOMAIN thread[t] /\ thread'[t].request = thread[t].request
    <3>1. CASE AskLabel(t)    BY <2>1, <3>1 DEF AskLabel
    <3>2. CASE AskBreaker(t)  BY <2>1, <3>2 DEF AskBreaker
    <3>3. CASE Answer(t)      BY <2>1, <3>3 DEF Answer
    <3>4. CASE Count(t)       BY <2>1, <3>4 DEF Count
    <3> QED  BY <1>4, <3>1, <3>2, <3>3, <3>4
  <2> QED  BY <1>1, <2>1, <2>2 DEF Asked
<1>5. ASSUME NEW t \in Threads, Prepare(t) \/ Mirror(t) \/ Failover(t) \/ Finish(t)  PROVE Asked'
  <2>1. /\ DOMAIN thread' = Threads /\ \A u \in Threads \ {t} : thread'[u] = thread[u]
        /\ thread'[t].pc \in {"idle", "shadow", "sent"}
    <3>1. CASE Prepare(t)  BY <3>1 DEF Asked, Prepare, Refused, Idle, Exchange
    <3>2. CASE Mirror(t)
      <4>1. DOMAIN thread = Threads /\ thread' = [thread EXCEPT ![t].pc = "sent"]
        BY <3>2 DEF Asked, Mirror
      <4> QED  BY <4>1
    <3>3. CASE Finish(t)   BY <3>3 DEF Asked, Finish, Idle
    <3>4. CASE Failover(t)
      <4>1. PICK i : thread' = [thread EXCEPT ![t].at = i, ![t].tries = @ + 1]
        BY <3>4 DEF Failover
      <4>2. DOMAIN thread = Threads /\ thread[t].pc = "sent"
        BY <3>4 DEF Asked, Failover
      <4> QED  BY <4>1, <4>2
    <3> QED  BY <1>5, <3>1, <3>2, <3>3, <3>4
  <2> QED  BY <1>1, <2>1 DEF Asked
<1>6. CASE (\E s \in Sessions : Label(s)) \/ Settle \/ Tick \/ UNCHANGED vars
  BY <1>6 DEF Asked, Label, Settle, Tick, vars
<1> QED  BY <1>3, <1>4, <1>5, <1>6 DEF Next

(* Whatever is asked of it, the one pass of rc_select meets the contract   *)
(* of selector.h: for every registry, price, class of work and usage.      *)
THEOREM SelectorMeetsContract == Spec => []ChoiceIsContract
<1>1. Init => Asked
  BY DEF Init, Asked, Idle
<1>2. Asked => ChoiceIsContract
  <2> SUFFICES ASSUME Asked, NEW t \in Arrived
               PROVE  LET q == Query(Turn(t))
                          quotes == [i \in DOMAIN registry |-> Quote(registry, Turn(t), i)]
                      IN  Meets(registry, quotes, q, rc_select(registry, quotes, q))
    BY DEF ChoiceIsContract
  <2> DEFINE turn == thread[t].request.turn
             quotes == [i \in DOMAIN registry |-> Quote(registry, Turn(t), i)]
  <2>1. thread[t].request \in Loads[load].kinds /\ load \in DOMAIN Loads
        /\ registry \in Loads[load].registries
    BY DEF Asked, Arrived
  <2>2. {"last", "appended", "bytes", "max", "bounded"} \subseteq DOMAIN turn /\ Counted(turn)
    BY <2>1, LoadsAssumption DEF Counted
  <2>3. Counted(Turn(t))
    <3>1. /\ Turn(t).last = turn.last /\ Turn(t).appended = turn.appended
          /\ Turn(t).bytes = turn.bytes /\ Turn(t).max = turn.max
      BY <2>2 DEF Turn
    <3> QED  BY <2>2, <3>1 DEF Counted
  <2>4. /\ Len(registry) \in Nat /\ DOMAIN registry = 1..Len(registry)
        /\ \A i \in DOMAIN registry :
              registry[i].alias \in Nat /\ registry[i].price \in [input: Nat, cached: Nat, output: Nat]
        /\ \A i, j \in DOMAIN registry : registry[i].alias = registry[j].alias => i = j
    BY <2>1, LoadsAssumption
  <2>5. \A i \in DOMAIN registry : quotes[i].cost \in Nat
    BY <2>3, <2>4, QuoteIs
  <2>6. Listed(registry, quotes)
    <3> HIDE DEF quotes
    <3> QED  BY <2>4, <2>5 DEF Listed
  <2>7. /\ Query(Turn(t)).tokens # 0 /\ Query(Turn(t)).saving = 0
        /\ Query(Turn(t)).continuity = "replayable"
    BY DEF Query
  <2> HIDE DEF quotes
  <2>8. Meets(registry, quotes, Query(Turn(t)), rc_select(registry, quotes, Query(Turn(t))))
    BY <2>6, <2>7, SelectMeets
  <2> QED  BY <2>8 DEF quotes
<1> QED  BY AskedKeeps, <1>1, <1>2, PTL DEF Spec

-----------------------------------------------------------------------------
\* Of a set of positions, those with fewer than w others after them: w of
\* them, or all there are.
Newest(S, w) == {i \in S : Cardinality({j \in S : j > i}) < w}

LEMMA NewestStep ==
    ASSUME NEW n \in Nat, NEW w \in Nat, NEW S \in SUBSET (1..n), NEW i \in S, \A j \in S : i <= j
    PROVE  Newest(S, w) = Newest(S \ {i}, w) \cup IF Cardinality(S \ {i}) < w THEN {i} ELSE {}
<1>1. {j \in S : j > i} = S \ {i}
  <2>1. \A j \in S : j > i <=> j # i
    OBVIOUS
  <2> QED  BY <2>1
<1>2. ASSUME NEW k \in S \ {i}
      PROVE  {j \in S : j > k} = {j \in S \ {i} : j > k}
  <2>1. \A j \in S : j > k => j # i
    OBVIOUS
  <2> QED  BY <2>1
<1>3. ASSUME NEW k \in S \ {i}
      PROVE  k \in Newest(S, w) <=> k \in Newest(S \ {i}, w)
  BY <1>2 DEF Newest
<1>4. i \in Newest(S, w) <=> Cardinality(S \ {i}) < w
  BY <1>1 DEF Newest
<1>5. Newest(S, w) \subseteq S /\ Newest(S \ {i}, w) \subseteq S \ {i}
  BY DEF Newest
<1> QED  BY <1>3, <1>4, <1>5

LEMMA NewestCount ==
    ASSUME NEW n \in Nat, NEW w \in Nat, NEW S \in SUBSET (1..n)
    PROVE  Cardinality(Newest(S, w)) = IF Cardinality(S) < w THEN Cardinality(S) ELSE w
<1> DEFINE Right(T) == Cardinality(Newest(T, w)) = IF Cardinality(T) < w THEN Cardinality(T) ELSE w
           wrong == {T \in SUBSET (1..n) : ~Right(T)}
<1>1. IsFiniteSet(1..n)
  BY FS_Interval
<1>2. wrong \subseteq FiniteSubsetsOf(1..n)
  BY <1>1, FS_Subset DEF FiniteSubsetsOf
<1>3. ASSUME wrong # {}  PROVE FALSE
  <2>1. PICK T \in wrong : \A U \in wrong : ~(<<U, T>> \in StrictSubsetOrdering(1..n))
    <3> HIDE DEF wrong
    <3> QED  BY <1>2, <1>3, WFMin, FS_StrictSubsetOrderingWellFounded
  <2>2. T \in SUBSET (1..n)
    OBVIOUS
  <2>3. CASE T = {}
    <3>1. Newest(T, w) = {} /\ Cardinality({}) = 0
      BY <2>3, FS_EmptySet DEF Newest
    <3> QED  BY <2>3, <3>1
  <2>4. CASE T # {}
    <3>1. PICK i \in T : \A j \in T : i <= j
      <4>1. T \in SUBSET Nat
        BY <2>2
      <4> QED  BY <2>4, <4>1, SmallestIs
    <3> DEFINE U == T \ {i}
    <3>2. U \in SUBSET (1..n) /\ U # T
      BY <2>2
    <3>3. Right(U)
      BY <2>1, <2>2, <3>2 DEF StrictSubsetOrdering
    <3>4. Newest(T, w) = Newest(U, w) \cup IF Cardinality(U) < w THEN {i} ELSE {}
      BY <2>2, <3>1, NewestStep
    <3>5. /\ IsFiniteSet(U) /\ Cardinality(U) \in Nat /\ Cardinality(T) = Cardinality(U) + 1
      <4>1. IsFiniteSet(U) /\ T = U \cup {i} /\ i \notin U
        BY <1>1, <3>2, FS_Subset
      <4> HIDE DEF U
      <4> QED  BY <4>1, FS_AddElement, FS_CardinalityType
    <3>6. /\ i \notin Newest(U, w) /\ IsFiniteSet(Newest(U, w))
      <4>1. Newest(U, w) \in SUBSET U /\ i \notin U
        BY DEF Newest
      <4> QED  BY <3>5, <4>1, FS_Subset
    <3> HIDE DEF U
    <3>7. CASE Cardinality(U) < w
      <4>1. Cardinality(Newest(T, w)) = Cardinality(Newest(U, w)) + 1
        BY <3>4, <3>6, <3>7, FS_AddElement
      <4>2. Right(T)
        BY <3>3, <3>5, <3>7, <4>1
      <4> QED  BY <4>2
    <3>8. CASE ~(Cardinality(U) < w)
      <4>1. Newest(T, w) = Newest(U, w)
        BY <3>4, <3>8
      <4>2. Right(T)
        BY <3>3, <3>5, <3>8, <4>1
      <4> QED  BY <4>2
    <3> QED  BY <3>7, <3>8
  <2> QED  BY <2>3, <2>4
<1> QED  BY <1>3

(* What the walk finds at a place of the history.                          *)
Opaque(h, i) == Is(h[i], "tool") /\ h[i].text.shape = "opaque"
Ran(h, i) == Is(h[i], "tool") /\ h[i].text.shape # "opaque" /\ ~rejected_call(h[i].text)
Broke(h, i) == Ran(h, i) /\ rc_signals_failed_text(h[i].text)
Rejected(h, i) == Is(h[i], "tool") /\ h[i].text.shape # "opaque" /\ rejected_call(h[i].text)
Quiet(h, i) == Is(h[i], "assistant") \/ Opaque(h, i) \/ Rejected(h, i) \/ Broke(h, i)

(* Of the places s of the history: the calls that ran, the places with     *)
(* fewer than a window of them after, and those the walk looks at, which   *)
(* are not before something it cannot read.                                *)
Calls(h, s) == {i \in s : Ran(h, i)}
Within(h, s) == {i \in s : Cardinality({j \in Calls(h, s) : j > i}) < Window}
Scan(h, s) == {i \in Within(h, s) : \A j \in s : j > i => ~Opaque(h, j)}

Refusals(h, s) == {i \in Scan(h, s) : Rejected(h, i) /\ \A j \in Calls(h, s) : j < i}
Streak(h, s) == {i \in Scan(h, s) : Broke(h, i) /\ \A j \in Scan(h, s) : j > i => Quiet(h, j)}

(* The walk's counters, without the walk.                                  *)
Summary(h, s) ==
    [seen |-> Cardinality(Calls(h, Scan(h, s))), run |-> Cardinality(Streak(h, s)),
     rejected |-> Cardinality(Refusals(h, s)), running |-> \A i \in Scan(h, s) : Quiet(h, i),
     failed |-> \E i \in Scan(h, s) : Broke(h, i), odd |-> \E i \in Scan(h, s) : Opaque(h, i)]

LEMMA ReachUp ==
    ASSUME NEW h, NEW n \in Nat, NEW s \in SUBSET (1..n), NEW i \in Within(h, s), NEW j \in s, j > i
    PROVE  j \in Within(h, s)
<1> DEFINE After(k) == {m \in Calls(h, s) : m > k}
<1>1. After(j) \in SUBSET After(i)
  <2>1. \A k \in Calls(h, s) : k > j => k > i
    BY DEF Calls, Within
  <2> QED  BY <2>1
<1>2. IsFiniteSet(After(i)) /\ Cardinality(After(i)) \in Nat
  <2>1. IsFiniteSet(1..n)
    BY FS_Interval
  <2>2. After(i) \in SUBSET (1..n)
    BY DEF Calls
  <2> HIDE DEF After
  <2> QED  BY <2>1, <2>2, FS_Subset, FS_CardinalityType
<1>3. Cardinality(After(j)) <= Cardinality(After(i)) /\ Cardinality(After(j)) \in Nat
  <2> HIDE DEF After
  <2> QED  BY <1>1, <1>2, FS_Subset, FS_CardinalityType
<1>4. Cardinality(After(i)) < Window
  BY DEF Within
<1>5. Cardinality(After(j)) < Window
  <2> HIDE DEF After
  <2> QED  BY <1>2, <1>3, <1>4, SignalsAssumption
<1> QED  BY <1>5 DEF Within

\* Nothing unreadable was looked at: then all within reach was.
LEMMA ScanIs ==
    ASSUME NEW h, NEW n \in Nat, NEW s \in SUBSET (1..n)
    PROVE  /\ (\E i \in Scan(h, s) : Opaque(h, i)) <=> (\E i \in Within(h, s) : Opaque(h, i))
           /\ (\A i \in Scan(h, s) : ~Opaque(h, i)) => Scan(h, s) = Within(h, s)
<1> DEFINE odd == {i \in Within(h, s) : Opaque(h, i)}
<1>1. ASSUME NEW i \in Within(h, s), NEW j \in s, j > i
      PROVE  j \in Within(h, s)
  BY <1>1, ReachUp
<1>2. ASSUME odd # {}  PROVE \E i \in Scan(h, s) : Opaque(h, i)
  <2>1. PICK m \in odd : \A k \in odd : k <= m
    <3>1. odd \in SUBSET (1..n)
      BY DEF Within
    <3> HIDE DEF odd
    <3> QED  BY <1>2, <3>1, LargestIs
  <2>2. m \in Within(h, s) /\ Opaque(h, m)
    BY <2>1
  <2>3. ASSUME NEW j \in s, j > m, Opaque(h, j)  PROVE FALSE
    <3>1. j \in odd
      BY <1>1, <2>2, <2>3
    <3>2. j <= m /\ j \in 1..n /\ m \in 1..n
      BY <2>1, <3>1, <2>2 DEF Within
    <3> QED  BY <2>3, <3>2
  <2> QED  BY <2>2, <2>3 DEF Scan
<1>3. ASSUME odd = {}  PROVE Scan(h, s) = Within(h, s)
  BY <1>1, <1>3 DEF Scan
<1> QED  BY <1>2, <1>3 DEF Scan

\* One more message, older than the others.
LEMMA ScanGrows ==
    ASSUME NEW h, NEW n \in Nat, NEW s \in SUBSET (1..n), NEW i \in s, \A j \in s : i <= j
    PROVE  IF Summary(h, s \ {i}).odd \/ Summary(h, s \ {i}).seen = Window
           THEN Scan(h, s) = Scan(h, s \ {i})
           ELSE Scan(h, s \ {i}) = s \ {i} /\ Scan(h, s) = s
<1> DEFINE u == s \ {i}
<1>1. \A j \in u : j > i /\ ~(i > j)
  OBVIOUS
<1>2. u \in SUBSET (1..n)
  OBVIOUS
<1> HIDE DEF u
<1>3. \A j \in s : j = i \/ j \in u
  BY DEF u
<1>4. u \subseteq s /\ i \notin u
  BY DEF u
<1>5. {j \in Calls(h, s) : j > i} = Calls(h, u)
  <2>1. \A j \in s : j > i <=> j \in u
    BY <1>1, <1>3, <1>4
  <2>2. \A j : j \in Calls(h, s) /\ j > i <=> j \in Calls(h, u)
    BY <1>4, <2>1 DEF Calls
  <2> QED  BY <2>2
<1>6. ASSUME NEW k \in u
      PROVE  {j \in Calls(h, s) : j > k} = {j \in Calls(h, u) : j > k}
  <2>1. \A j \in s : j > k => j \in u
    BY <1>1, <1>3
  <2>2. \A j : j \in Calls(h, s) /\ j > k <=> j \in Calls(h, u) /\ j > k
    BY <1>4, <2>1 DEF Calls
  <2> QED  BY <2>2
<1>7. ASSUME NEW k \in u
      PROVE  k \in Scan(h, s) <=> k \in Scan(h, u)
  <2>1. k \in Within(h, s) <=> k \in Within(h, u)
    BY <1>4, <1>6 DEF Within
  <2>2. (\A j \in s : j > k => ~Opaque(h, j)) <=> (\A j \in u : j > k => ~Opaque(h, j))
    BY <1>1, <1>3, <1>4
  <2> QED  BY <2>1, <2>2 DEF Scan
<1>8. i \in Scan(h, s) <=> Cardinality(Calls(h, u)) < Window /\ \A j \in u : ~Opaque(h, j)
  <2>1. i \in Within(h, s) <=> Cardinality(Calls(h, u)) < Window
    BY <1>5 DEF Within
  <2>2. (\A j \in s : j > i => ~Opaque(h, j)) <=> (\A j \in u : ~Opaque(h, j))
    BY <1>1, <1>3, <1>4
  <2> QED  BY <2>1, <2>2 DEF Scan
<1> DEFINE w == Summary(h, u)
<1>9. w.odd = (\E j \in Scan(h, u) : Opaque(h, j)) /\ w.seen = Cardinality(Calls(h, Scan(h, u)))
  BY DEF Summary
<1> HIDE DEF w
<1>10. IsFiniteSet(Calls(h, u)) /\ Cardinality(Calls(h, u)) \in Nat /\ Calls(h, u) \in SUBSET (1..n)
  <2>1. Calls(h, u) \in SUBSET (1..n)
    BY <1>2 DEF Calls
  <2>2. IsFiniteSet(1..n)
    BY FS_Interval
  <2> QED  BY <2>1, <2>2, FS_Subset, FS_CardinalityType
<1>11. CASE w.odd
  <2>1. \E j \in u : Opaque(h, j)
    BY <1>9, <1>11 DEF Scan, Within
  <2>2. i \notin Scan(h, s)
    BY <1>8, <2>1
  <2>3. Scan(h, s) = Scan(h, u)
    BY <1>3, <1>4, <1>7, <2>2 DEF Scan, Within
  <2> QED  BY <1>11, <2>3 DEF u, w
<1>12. CASE ~w.odd
  <2>1. Scan(h, u) = Within(h, u) /\ \A j \in Within(h, u) : ~Opaque(h, j)
    BY <1>2, <1>9, <1>12, ScanIs
  <2>2. Calls(h, Scan(h, u)) = Newest(Calls(h, u), Window)
    BY <2>1 DEF Newest, Calls, Within
  <2>3. w.seen = IF Cardinality(Calls(h, u)) < Window THEN Cardinality(Calls(h, u)) ELSE Window
    <3>1. Window \in Nat
      BY SignalsAssumption
    <3>2. Cardinality(Newest(Calls(h, u), Window)) =
             IF Cardinality(Calls(h, u)) < Window THEN Cardinality(Calls(h, u)) ELSE Window
      BY <1>10, <3>1, NewestCount
    <3> QED  BY <1>9, <2>2, <3>2
  <2>4. ASSUME Cardinality(Calls(h, u)) < Window, NEW j \in u
        PROVE  j \in Within(h, u)
    <3> DEFINE A == {k \in Calls(h, u) : k > j}
    <3>1. A \in SUBSET Calls(h, u)
      OBVIOUS
    <3> HIDE DEF A
    <3>2. Cardinality(A) <= Cardinality(Calls(h, u)) /\ Cardinality(A) \in Nat
      BY <1>10, <3>1, FS_Subset, FS_CardinalityType
    <3>3. Cardinality(A) < Window
      BY <1>10, <2>4, <3>2, SignalsAssumption
    <3> QED  BY <3>3 DEF A, Within
  <2>5. i \in Scan(h, s) <=> ~(w.seen = Window)
    <3>1. CASE Cardinality(Calls(h, u)) < Window
      <4>1. w.seen # Window
        BY <1>10, <2>3, <3>1, SignalsAssumption
      <4> QED  BY <1>8, <2>1, <2>4, <3>1, <4>1
    <3>2. CASE ~(Cardinality(Calls(h, u)) < Window)
      BY <1>8, <2>3, <3>2
    <3> QED  BY <3>1, <3>2
  <2>6. w.seen # Window => Scan(h, u) = u
    <3>1. w.seen # Window => Cardinality(Calls(h, u)) < Window
      BY <2>3
    <3> QED  BY <2>1, <2>4, <3>1 DEF Within
  <2>7. CASE w.seen = Window
    <3>1. Scan(h, s) = Scan(h, u)
      BY <1>3, <1>4, <1>7, <2>5, <2>7 DEF Scan, Within
    <3> QED  BY <2>7, <3>1 DEF u, w
  <2>8. CASE w.seen # Window
    <3>1. Scan(h, s) = s /\ Scan(h, u) = u
      BY <1>3, <1>4, <1>7, <2>5, <2>6, <2>8 DEF Scan, Within
    <3> QED  BY <1>12, <2>8, <3>1 DEF u, w
  <2> QED  BY <2>7, <2>8
<1> QED  BY <1>11, <1>12 DEF u, w

Counters == [seen: Nat, run: Nat, rejected: Nat, running: BOOLEAN, failed: BOOLEAN, odd: BOOLEAN]

LEMMA SameCounters ==
    ASSUME NEW a \in Counters, NEW b \in Counters, a.seen = b.seen, a.run = b.run,
           a.rejected = b.rejected, a.running <=> b.running, a.failed <=> b.failed, a.odd <=> b.odd
    PROVE  a = b
<1>1. a.running = b.running /\ a.failed = b.failed /\ a.odd = b.odd
  BY DEF Counters
<1> QED  BY <1>1 DEF Counters

LEMMA SummaryTyped ==
    ASSUME NEW h, NEW n \in Nat, NEW s \in SUBSET (1..n)
    PROVE  LET w == Summary(h, s)
           IN  /\ IsFiniteSet(Calls(h, Scan(h, s))) /\ IsFiniteSet(Streak(h, s))
               /\ IsFiniteSet(Refusals(h, s))
               /\ w \in Counters
<1>1. /\ Calls(h, Scan(h, s)) \in SUBSET (1..n) /\ Streak(h, s) \in SUBSET (1..n)
      /\ Refusals(h, s) \in SUBSET (1..n)
  BY DEF Calls, Streak, Refusals, Scan, Within
<1>2. IsFiniteSet(1..n)
  BY FS_Interval
<1> QED  BY <1>1, <1>2, FS_Subset, FS_CardinalityType DEF Summary, Counters

LEMMA SummaryStep ==
    ASSUME NEW h, NEW n \in Nat, NEW s \in SUBSET (1..n), NEW i \in s, \A j \in s : i <= j
    PROVE  Summary(h, s) = Look(Summary(h, s \ {i}), h[i])
<1> DEFINE u == s \ {i}
           w == Summary(h, u)
<1>1. \A j \in u : j > i /\ ~(i > j) /\ ~(j < i) /\ i < j
  OBVIOUS
<1>2. u \in SUBSET (1..n)
  OBVIOUS
<1>3. IF w.odd \/ w.seen = Window
      THEN Scan(h, s) = Scan(h, u) ELSE Scan(h, u) = u /\ Scan(h, s) = s
  BY ScanGrows
<1>4. i \notin u /\ \A j \in s : j = i \/ j \in u
  OBVIOUS
<1>5. s = u \cup {i}
  OBVIOUS
<1>6. w = Summary(h, u)
  OBVIOUS
<1> HIDE DEF u, w
<1>7. Scan(h, u) \subseteq u
  BY DEF Scan, Within
<1>8. ASSUME NEW j \in u
      PROVE  j \in Refusals(h, s) <=> j \in Refusals(h, u)
  <2>1. j \in Scan(h, s) <=> j \in Scan(h, u)
    BY <1>3, <1>5
  <2>2. (\A k \in Calls(h, s) : k < j) <=> (\A k \in Calls(h, u) : k < j)
    BY <1>1, <1>5 DEF Calls
  <2> QED  BY <2>1, <2>2 DEF Refusals
<1>9. ASSUME NEW j \in u
      PROVE  j \in Streak(h, s) <=> j \in Streak(h, u)
  <2>1. j \in Scan(h, s) <=> j \in Scan(h, u)
    BY <1>3, <1>5
  <2>2. (\A k \in Scan(h, s) : k > j => Quiet(h, k)) <=> (\A k \in Scan(h, u) : k > j => Quiet(h, k))
    BY <1>1, <1>3, <1>5
  <2> QED  BY <2>1, <2>2 DEF Streak
<1>10. /\ Refusals(h, s) \subseteq Scan(h, s) /\ Streak(h, s) \subseteq Scan(h, s)
       /\ Refusals(h, u) \subseteq Scan(h, u) /\ Streak(h, u) \subseteq Scan(h, u)
  BY DEF Refusals, Streak
<1>11. w \in Counters
       /\ IsFiniteSet(Calls(h, Scan(h, u))) /\ IsFiniteSet(Streak(h, u)) /\ IsFiniteSet(Refusals(h, u))
  BY <1>2, <1>6, SummaryTyped
<1>12. /\ w.seen = Cardinality(Calls(h, Scan(h, u))) /\ w.run = Cardinality(Streak(h, u))
       /\ w.rejected = Cardinality(Refusals(h, u)) /\ w.running = (\A k \in Scan(h, u) : Quiet(h, k))
       /\ w.failed = (\E k \in Scan(h, u) : Broke(h, k)) /\ w.odd = (\E k \in Scan(h, u) : Opaque(h, k))
  BY <1>6 DEF Summary
<1>13. CASE w.odd \/ w.seen = Window
  <2>1. Scan(h, s) = Scan(h, u)
    BY <1>3, <1>13
  <2>2. Refusals(h, s) = Refusals(h, u) /\ Streak(h, s) = Streak(h, u)
    BY <1>7, <1>8, <1>9, <1>10, <2>1
  <2>3. Summary(h, s) = w
    BY <1>6, <2>1, <2>2 DEF Summary
  <2>4. Look(w, h[i]) = w
    BY <1>13 DEF Look
  <2> QED  BY <2>3, <2>4 DEF u, w
<1>14. CASE ~(w.odd \/ w.seen = Window)
  <2>1. Scan(h, s) = Scan(h, u) \cup {i} /\ Scan(h, u) = u
    BY <1>3, <1>5, <1>14
  <2>2. Calls(h, Scan(h, s)) = Calls(h, Scan(h, u)) \cup IF Ran(h, i) THEN {i} ELSE {}
    BY <2>1 DEF Calls
  <2>3. Streak(h, s) = Streak(h, u) \cup IF Broke(h, i) /\ w.running THEN {i} ELSE {}
    <3>1. i \in Streak(h, s) <=> Broke(h, i) /\ w.running
      BY <1>1, <1>4, <1>12, <2>1 DEF Streak
    <3> QED  BY <1>4, <1>7, <1>9, <1>10, <2>1, <3>1
  <2>4. Refusals(h, s) = Refusals(h, u) \cup IF Rejected(h, i) /\ w.seen = 0 THEN {i} ELSE {}
    <3>1. w.seen = 0 <=> Calls(h, u) = {}
      BY <1>11, <1>12, <2>1, FS_EmptySet
    <3>2. Rejected(h, i) => Calls(h, s) = Calls(h, u)
      BY <1>5 DEF Calls, Rejected, Ran
    <3>3. (\A k \in Calls(h, u) : k < i) <=> Calls(h, u) = {}
      BY <1>1 DEF Calls
    <3>4. i \in Refusals(h, s) <=> Rejected(h, i) /\ w.seen = 0
      BY <2>1, <3>1, <3>2, <3>3 DEF Refusals
    <3> QED  BY <1>4, <1>7, <1>8, <1>10, <2>1, <3>4
  <2>5. i \notin Calls(h, Scan(h, u)) /\ i \notin Streak(h, u) /\ i \notin Refusals(h, u)
    BY <1>4, <1>7, <1>10 DEF Calls
  <2>6. Cardinality(Calls(h, Scan(h, s))) = w.seen + IF Ran(h, i) THEN 1 ELSE 0
    <3>1. w.seen \in Nat
      BY <1>11 DEF Counters
    <3>2. CASE Ran(h, i)
      <4>1. Calls(h, Scan(h, s)) = Calls(h, Scan(h, u)) \cup {i}
        BY <2>2, <3>2
      <4>2. Cardinality(Calls(h, Scan(h, s))) = Cardinality(Calls(h, Scan(h, u))) + 1
        BY <1>11, <2>5, <4>1, FS_AddElement
      <4> QED  BY <1>12, <3>2, <4>2
    <3>3. CASE ~(Ran(h, i))
      BY <1>12, <2>2, <3>1, <3>3
    <3> QED  BY <3>2, <3>3
  <2>7. Cardinality(Streak(h, s)) = w.run + IF Broke(h, i) /\ w.running THEN 1 ELSE 0
    <3>1. w.run \in Nat
      BY <1>11 DEF Counters
    <3>2. CASE Broke(h, i) /\ w.running
      <4>1. Streak(h, s) = Streak(h, u) \cup {i}
        BY <2>3, <3>2
      <4>2. Cardinality(Streak(h, s)) = Cardinality(Streak(h, u)) + 1
        BY <1>11, <2>5, <4>1, FS_AddElement
      <4> QED  BY <1>12, <3>2, <4>2
    <3>3. CASE ~(Broke(h, i) /\ w.running)
      BY <1>12, <2>3, <3>1, <3>3
    <3> QED  BY <3>2, <3>3
  <2>8. Cardinality(Refusals(h, s)) = w.rejected + IF Rejected(h, i) /\ w.seen = 0 THEN 1 ELSE 0
    <3>1. w.rejected \in Nat
      BY <1>11 DEF Counters
    <3>2. CASE Rejected(h, i) /\ w.seen = 0
      <4>1. Refusals(h, s) = Refusals(h, u) \cup {i}
        BY <2>4, <3>2
      <4>2. Cardinality(Refusals(h, s)) = Cardinality(Refusals(h, u)) + 1
        BY <1>11, <2>5, <4>1, FS_AddElement
      <4> QED  BY <1>12, <3>2, <4>2
    <3>3. CASE ~(Rejected(h, i) /\ w.seen = 0)
      BY <1>12, <2>4, <3>1, <3>3
    <3> QED  BY <3>2, <3>3
  <2>9. /\ (\A k \in Scan(h, s) : Quiet(h, k)) <=> w.running /\ Quiet(h, i)
        /\ (\E k \in Scan(h, s) : Broke(h, k)) <=> w.failed \/ Broke(h, i)
        /\ (\E k \in Scan(h, s) : Opaque(h, k)) <=> Opaque(h, i)
    <3>1. \A k : k \in Scan(h, s) <=> k \in Scan(h, u) \/ k = i
      BY <2>1
    <3>2. w.running <=> \A k \in Scan(h, u) : Quiet(h, k)
      BY <1>12
    <3>3. w.failed <=> \E k \in Scan(h, u) : Broke(h, k)
      BY <1>12
    <3>4. ~\E k \in Scan(h, u) : Opaque(h, k)
      BY <1>12, <1>14
    <3> QED  BY <3>1, <3>2, <3>3, <3>4
  <2> DEFINE v == Summary(h, s)
             o == Look(w, h[i])
  <2> SUFFICES v = o
    BY DEF u, w
  <2>10. /\ v \in Counters
         /\ v.seen = w.seen + IF Ran(h, i) THEN 1 ELSE 0
         /\ v.run = w.run + IF Broke(h, i) /\ w.running THEN 1 ELSE 0
         /\ v.rejected = w.rejected + IF Rejected(h, i) /\ w.seen = 0 THEN 1 ELSE 0
         /\ v.running <=> w.running /\ Quiet(h, i)
         /\ v.failed <=> w.failed \/ Broke(h, i)
         /\ v.odd <=> Opaque(h, i)
    <3>1. /\ v.seen = Cardinality(Calls(h, Scan(h, s))) /\ v.run = Cardinality(Streak(h, s))
          /\ v.rejected = Cardinality(Refusals(h, s)) /\ v.running = (\A k \in Scan(h, s) : Quiet(h, k))
          /\ v.failed = (\E k \in Scan(h, s) : Broke(h, k)) /\ v.odd = (\E k \in Scan(h, s) : Opaque(h, k))
      BY DEF Summary
    <3>2. v \in Counters
      BY SummaryTyped
    <3> HIDE DEF v
    <3> QED  BY <2>6, <2>7, <2>8, <2>9, <3>1, <3>2
  <2> HIDE DEF v
  <2>11. w \in Counters
    BY <1>11
  <2>12. ~w.odd
    BY <1>14
  <2>13. w.seen \in Nat /\ w.run \in Nat /\ w.rejected \in Nat
    BY <2>11 DEF Counters
  <2>14. CASE Is(h[i], "assistant")
    <3>1. ~Ran(h, i) /\ Quiet(h, i) /\ ~Broke(h, i) /\ ~Rejected(h, i) /\ ~Opaque(h, i)
      BY <2>14 DEF Ran, Quiet, Broke, Rejected, Opaque, Is
    <3>2. o = w
      BY <1>14, <2>14 DEF Look, Is
    <3> HIDE DEF o
    <3>3. o \in Counters
      BY <2>11, <2>13, <3>2 DEF Counters
    <3>4. /\ o.seen = w.seen /\ o.run = w.run
          /\ o.rejected = w.rejected
          /\ (o.running <=> w.running) /\ (o.failed <=> w.failed) /\ (o.odd <=> w.odd)
      BY <2>11, <2>13, <3>2 DEF Counters
    <3>5. v.seen = o.seen /\ v.run = o.run /\ v.rejected = o.rejected
      BY <2>10, <2>13, <3>1, <3>4
    <3>6. (v.running <=> o.running) /\ (v.failed <=> o.failed) /\ (v.odd <=> o.odd)
      BY <2>10, <2>12, <3>1, <3>4
    <3> QED  BY <2>10, <3>3, <3>5, <3>6, SameCounters
  <2>15. CASE ~Is(h[i], "assistant") /\ ~Is(h[i], "tool")
    <3>1. ~Ran(h, i) /\ ~Quiet(h, i) /\ ~Broke(h, i) /\ ~Rejected(h, i) /\ ~Opaque(h, i)
      BY <2>15 DEF Ran, Quiet, Broke, Rejected, Opaque, Is
    <3>2. o = [w EXCEPT !.running = FALSE]
      BY <1>14, <2>15 DEF Look, Is
    <3> HIDE DEF o
    <3>3. o \in Counters
      BY <2>11, <2>13, <3>2 DEF Counters
    <3>4. /\ o.seen = w.seen /\ o.run = w.run
          /\ o.rejected = w.rejected
          /\ (o.running <=> FALSE) /\ (o.failed <=> w.failed) /\ (o.odd <=> w.odd)
      BY <2>11, <2>13, <3>2 DEF Counters
    <3>5. v.seen = o.seen /\ v.run = o.run /\ v.rejected = o.rejected
      BY <2>10, <2>13, <3>1, <3>4
    <3>6. (v.running <=> o.running) /\ (v.failed <=> o.failed) /\ (v.odd <=> o.odd)
      BY <2>10, <2>12, <3>1, <3>4
    <3> QED  BY <2>10, <3>3, <3>5, <3>6, SameCounters
  <2>16. CASE Is(h[i], "tool") /\ h[i].text.shape = "opaque"
    <3>1. ~Ran(h, i) /\ Quiet(h, i) /\ ~Broke(h, i) /\ ~Rejected(h, i) /\ Opaque(h, i)
      BY <2>16 DEF Ran, Quiet, Broke, Rejected, Opaque, Is
    <3>2. o = [w EXCEPT !.odd = TRUE]
      BY <1>14, <2>16 DEF Look, Is
    <3> HIDE DEF o
    <3>3. o \in Counters
      BY <2>11, <2>13, <3>2 DEF Counters
    <3>4. /\ o.seen = w.seen /\ o.run = w.run
          /\ o.rejected = w.rejected
          /\ (o.running <=> w.running) /\ (o.failed <=> w.failed) /\ (o.odd <=> TRUE)
      BY <2>11, <2>13, <3>2 DEF Counters
    <3>5. v.seen = o.seen /\ v.run = o.run /\ v.rejected = o.rejected
      BY <2>10, <2>13, <3>1, <3>4
    <3>6. (v.running <=> o.running) /\ (v.failed <=> o.failed) /\ (v.odd <=> o.odd)
      BY <2>10, <2>12, <3>1, <3>4
    <3> QED  BY <2>10, <3>3, <3>5, <3>6, SameCounters
  <2>17. CASE Is(h[i], "tool") /\ h[i].text.shape # "opaque" /\ rejected_call(h[i].text)
    <3>1. ~Ran(h, i) /\ Quiet(h, i) /\ ~Broke(h, i) /\ Rejected(h, i) /\ ~Opaque(h, i)
      BY <2>17 DEF Ran, Quiet, Broke, Rejected, Opaque, Is
    <3>2. o = [w EXCEPT !.rejected = IF w.seen = 0 THEN @ + 1 ELSE @]
      BY <1>14, <2>17 DEF Look, Is
    <3> HIDE DEF o
    <3>3. o \in Counters
      BY <2>11, <2>13, <3>2 DEF Counters
    <3>4. /\ o.seen = w.seen /\ o.run = w.run
          /\ o.rejected = (IF w.seen = 0 THEN w.rejected + 1 ELSE w.rejected)
          /\ (o.running <=> w.running) /\ (o.failed <=> w.failed) /\ (o.odd <=> w.odd)
      BY <2>11, <2>13, <3>2 DEF Counters
    <3>5. v.seen = o.seen /\ v.run = o.run /\ v.rejected = o.rejected
      BY <2>10, <2>13, <3>1, <3>4
    <3>6. (v.running <=> o.running) /\ (v.failed <=> o.failed) /\ (v.odd <=> o.odd)
      BY <2>10, <2>12, <3>1, <3>4
    <3> QED  BY <2>10, <3>3, <3>5, <3>6, SameCounters
  <2>18. CASE /\ Is(h[i], "tool") /\ h[i].text.shape # "opaque" /\ ~rejected_call(h[i].text)
              /\ rc_signals_failed_text(h[i].text)
    <3>1. Ran(h, i) /\ Quiet(h, i) /\ Broke(h, i) /\ ~Rejected(h, i) /\ ~Opaque(h, i)
      BY <2>18 DEF Ran, Quiet, Broke, Rejected, Opaque, Is
    <3> DEFINE a == w.seen + 1
               b == IF w.running THEN w.run + 1 ELSE w.run
    <3>2. o = [w EXCEPT !.seen = a, !.failed = TRUE, !.run = b]
      BY <1>14, <2>18 DEF Look, Is
    <3>7. a \in Nat /\ b \in Nat
      BY <2>13
    <3> HIDE DEF o, a, b
    <3>3. o \in Counters
      BY <2>11, <3>2, <3>7 DEF Counters
    <3>4. /\ o.seen = w.seen + 1 /\ o.run = (IF w.running THEN w.run + 1 ELSE w.run)
          /\ o.rejected = w.rejected
          /\ (o.running <=> w.running) /\ (o.failed <=> TRUE) /\ (o.odd <=> w.odd)
      BY <2>11, <3>2 DEF Counters, a, b
    <3>5. v.seen = o.seen /\ v.run = o.run /\ v.rejected = o.rejected
      BY <2>10, <2>13, <3>1, <3>4
    <3>6. (v.running <=> o.running) /\ (v.failed <=> o.failed) /\ (v.odd <=> o.odd)
      BY <2>10, <2>12, <3>1, <3>4
    <3> QED  BY <2>10, <3>3, <3>5, <3>6, SameCounters
  <2>19. CASE /\ Is(h[i], "tool") /\ h[i].text.shape # "opaque" /\ ~rejected_call(h[i].text)
              /\ ~rc_signals_failed_text(h[i].text)
    <3>1. Ran(h, i) /\ ~Quiet(h, i) /\ ~Broke(h, i) /\ ~Rejected(h, i) /\ ~Opaque(h, i)
      BY <2>19 DEF Ran, Quiet, Broke, Rejected, Opaque, Is
    <3> DEFINE a == w.seen + 1
    <3>2. o = [w EXCEPT !.seen = a, !.running = FALSE]
      BY <1>14, <2>19 DEF Look, Is
    <3>7. a \in Nat
      BY <2>13
    <3> HIDE DEF o, a
    <3>3. o \in Counters
      BY <2>11, <3>2, <3>7 DEF Counters
    <3>4. /\ o.seen = w.seen + 1 /\ o.run = w.run
          /\ o.rejected = w.rejected
          /\ (o.running <=> FALSE) /\ (o.failed <=> w.failed) /\ (o.odd <=> w.odd)
      BY <2>11, <3>2 DEF Counters, a
    <3>5. v.seen = o.seen /\ v.run = o.run /\ v.rejected = o.rejected
      BY <2>10, <2>13, <3>1, <3>4
    <3>6. (v.running <=> o.running) /\ (v.failed <=> o.failed) /\ (v.odd <=> o.odd)
      BY <2>10, <2>12, <3>1, <3>4
    <3> QED  BY <2>10, <3>3, <3>5, <3>6, SameCounters
  <2> QED  BY <2>14, <2>15, <2>16, <2>17, <2>18, <2>19
<1> QED  BY <1>13, <1>14

LEMMA WalkUnfolds ==
    ASSUME NEW h
    PROVE  Walk(h) =
              LET g == Reverse(h)
                  it == CHOOSE f : f = [s \in SUBSET DOMAIN g |->
                          IF s = {} THEN Unread
                          ELSE LET x == Max(s) IN Look(f[s \ {x}], g[x])]
              IN  it[DOMAIN g]
BY DEF Walk, FoldLeft, MapThenFoldSet

LEMMA NothingRead ==
    ASSUME NEW h  PROVE Summary(h, {}) = Unread
<1>1. Scan(h, {}) = {} /\ Calls(h, {}) = {} /\ Streak(h, {}) = {} /\ Refusals(h, {}) = {}
  BY DEF Scan, Within, Calls, Streak, Refusals
<1>2. /\ Summary(h, {}).seen = 0 /\ Summary(h, {}).run = 0 /\ Summary(h, {}).rejected = 0
  BY <1>1, FS_EmptySet DEF Summary
<1>3. Summary(h, {}).running /\ ~Summary(h, {}).failed /\ ~Summary(h, {}).odd
  BY <1>1 DEF Summary
<1>4. Summary(h, {}) \in Counters
  <2>1. {} \in SUBSET (1..0)
    OBVIOUS
  <2> QED  BY <2>1, SummaryTyped
<1>5. /\ Unread \in Counters /\ Unread.seen = 0 /\ Unread.run = 0 /\ Unread.rejected = 0
      /\ Unread.running /\ ~Unread.failed /\ ~Unread.odd
  BY DEF Unread, Counters
<1> QED  BY <1>2, <1>3, <1>4, <1>5, SameCounters

(* The walk over a history, newest message first, finds its summary.       *)
LEMMA WalkIs ==
    ASSUME NEW h, NEW n \in Nat, Len(h) = n, DOMAIN h = 1..n
    PROVE  Walk(h) = Summary(h, 1..n)
<1> DEFINE g == Reverse(h)
           Turned(s) == {n + 1 - x : x \in s}
           B(s) == Summary(h, Turned(s))
           G(f) == [s \in SUBSET (1..n) |-> IF s = {} THEN Unread
                                            ELSE LET x == Max(s) IN Look(f[s \ {x}], g[x])]
           it == CHOOSE f : f = G(f)
           sum == [s \in SUBSET (1..n) |-> B(s)]
<1>1. DOMAIN g = 1..n /\ \A x \in 1..n : g[x] = h[n + 1 - x]
  <2>1. DOMAIN g = 1..n /\ \A x \in 1..n : g[x] = h[(n - x) + 1]
    BY DEF Reverse
  <2>2. \A x \in 1..n : (n - x) + 1 = n + 1 - x
    OBVIOUS
  <2> HIDE DEF g
  <2> QED  BY <2>1, <2>2
<1> HIDE DEF g
<1>2. Turned({}) = {}
  OBVIOUS
<1>3. ASSUME NEW s \in SUBSET (1..n), s # {}
      PROVE  B(s) = Look(B(s \ {Max(s)}), g[Max(s)])
  <2> DEFINE x == Max(s)
             i == n + 1 - x
             m == Turned(s)
  <2>1. x \in s /\ \A k \in s : k <= x
    BY <1>3, MaxIs
  <2> HIDE DEF x
  <2>2. x \in 1..n
    BY <2>1
  <2>3. i \in m /\ \A j \in m : i <= j
    <3>1. \A k \in s : n + 1 - x <= n + 1 - k
      BY <2>1, <2>2
    <3> QED  BY <2>1, <3>1
  <2>4. m \in SUBSET (1..n)
    <3>1. \A k \in 1..n : n + 1 - k \in 1..n
      OBVIOUS
    <3> QED  BY <3>1
  <2>5. Turned(s \ {x}) = m \ {i}
    <3>1. \A k \in s : n + 1 - k = n + 1 - x <=> k = x
      BY <2>2
    <3> QED  BY <3>1
  <2>6. Summary(h, m) = Look(Summary(h, m \ {i}), h[i])
    <3> HIDE DEF m, i
    <3> QED  BY <2>3, <2>4, SummaryStep
  <2>7. g[x] = h[i]
    BY <1>1, <2>2
  <2> QED  BY <2>5, <2>6, <2>7 DEF x
<1>4. sum = G(sum)
  <2>1. ASSUME NEW s \in SUBSET (1..n)
        PROVE  sum[s] = G(sum)[s]
    <3>1. CASE s = {}
      <4>1. sum[s] = Unread
        BY <1>2, <3>1, NothingRead
      <4> HIDE DEF sum
      <4> QED  BY <3>1, <4>1
    <3>2. CASE s # {}
      <4>1. s \ {Max(s)} \in SUBSET (1..n)
        OBVIOUS
      <4>2. sum[s] = B(s) /\ sum[s \ {Max(s)}] = B(s \ {Max(s)})
        BY <4>1
      <4> HIDE DEF B, sum
      <4> QED  BY <1>3, <3>2, <4>2
    <3> QED  BY <3>1, <3>2
  <2>2. DOMAIN sum = SUBSET (1..n) /\ DOMAIN G(sum) = SUBSET (1..n)
    OBVIOUS
  <2> HIDE DEF B
  <2> QED  BY <2>1
<1>5. it = G(it)
  <2> HIDE DEF G, B, sum
  <2>1. \E f : f = G(f)
    BY <1>4
  <2> QED  BY <2>1
<1> HIDE DEF it
<1>6. ASSUME NEW s \in SUBSET (1..n)
      PROVE  it[s] = IF s = {} THEN Unread ELSE Look(it[s \ {Max(s)}], g[Max(s)])
  <2>1. it[s] = G(it)[s]
    BY <1>5
  <2> QED  BY <2>1
<1>7. ASSUME NEW s \in SUBSET (1..n)
      PROVE  sum[s] = IF s = {} THEN Unread ELSE Look(sum[s \ {Max(s)}], g[Max(s)])
  <2>1. sum[s] = G(sum)[s]
    BY <1>4
  <2> HIDE DEF sum
  <2> QED  BY <2>1
<1> HIDE DEF sum
<1>8. it[{}] = sum[{}]
  BY <1>6, <1>7
<1>9. \A s \in SUBSET (1..n) : s # {} /\ it[s \ {Max(s)}] = sum[s \ {Max(s)}] => it[s] = sum[s]
  BY <1>6, <1>7
<1>10. it[1..n] = sum[1..n]
  <2>1. Alike(n, it, sum)
    BY <1>8, <1>9 DEF Alike
  <2>2. \A s \in SUBSET (1..n) : it[s] = sum[s]
    BY <2>1, SameFold
  <2> QED  BY <2>2
<1>11. sum[1..n] = Summary(h, 1..n)
  <2>1. Turned(1..n) = 1..n
    <3>1. \A k \in 1..n : n + 1 - k \in 1..n /\ k = n + 1 - (n + 1 - k)
      OBVIOUS
    <3> QED  BY <3>1
  <2> HIDE DEF Turned
  <2> QED  BY <2>1 DEF sum
<1>12. Walk(h) = it[1..n]
  BY <1>1, WalkUnfolds DEF it, g
<1> QED  BY <1>10, <1>11, <1>12

LEMMA StreakIs ==
    ASSUME NEW h, NEW n \in Nat, Len(h) = n, DOMAIN h = 1..n,
           \A i \in DOMAIN h : h[i].role \in {"system", "user", "assistant", "tool"},
           Scan(h, 1..n) = Within(h, 1..n)
    PROVE  Cardinality(Streak(h, 1..n)) >= 2 <=> Repairing(h)
<1> DEFINE S == Streak(h, 1..n)
<1>1. S \in SUBSET (1..n) /\ IsFiniteSet(S) /\ Cardinality(S) \in Nat
  <2>1. S \in SUBSET (1..n)
    BY DEF Streak, Scan, Within
  <2>2. IsFiniteSet(1..n)
    BY FS_Interval
  <2> HIDE DEF S
  <2> QED  BY <2>1, <2>2, FS_Subset, FS_CardinalityType
<1>2. Executed(h) = Calls(h, 1..n)
  BY DEF Executed, Calls, Ran
<1>3. Failing(h) = {i \in Scan(h, 1..n) : Broke(h, i)}
  <2>1. Recent(h) = {i \in Scan(h, 1..n) : Ran(h, i)}
    BY <1>2 DEF Recent, Within, Calls
  <2> QED  BY <2>1 DEF Failing, Broke
<1>4. Scan(h, 1..n) \subseteq 1..n
  BY DEF Within
<1>5. \A i \in 1..n : h[i].role \in {"system", "user", "assistant", "tool"}
  OBVIOUS
<1>6. ASSUME Cardinality(S) >= 2  PROVE Repairing(h)
  <2>1. PICK j \in S : \A k \in S : k <= j
    <3> HIDE DEF S
    <3>1. S # {}
      <4>1. Cardinality(S) # 0
        BY <1>6
      <4> QED  BY <4>1, FS_EmptySet
    <3> QED  BY <1>1, <3>1, LargestIs
  <2>2. PICK i \in S \ {j} : \A k \in S \ {j} : k <= i
    <3>1. S \ {j} # {}
      <4> HIDE DEF S
      <4>1. Cardinality(S \ {j}) = Cardinality(S) - 1
        BY <1>1, FS_RemoveElement
      <4>2. Cardinality(S \ {j}) # 0
        BY <1>1, <1>6, <4>1
      <4> QED  BY <4>2, FS_EmptySet
    <3>2. S \ {j} \in SUBSET (1..n)
      BY <1>1
    <3> HIDE DEF S
    <3> QED  BY <3>1, <3>2, LargestIs
  <2>3. i \in 1..n /\ j \in 1..n /\ i < j
    BY <1>1, <2>1, <2>2
  <2>4. i \in Failing(h) /\ j \in Failing(h) /\ \A m \in Scan(h, 1..n) : m > i => Quiet(h, m)
    BY <1>3, <2>1, <2>2 DEF Streak
  <2>5. ASSUME NEW k \in 1..n, k > i
        PROVE  k \in Scan(h, 1..n) /\ Quiet(h, k)
    <3>1. i \in Within(h, 1..n)
      BY <1>3, <2>4
    <3>2. k \in Within(h, 1..n)
      <4>1. 1..n \in SUBSET (1..n)
        OBVIOUS
      <4> QED  BY <2>5, <3>1, <4>1, ReachUp
    <3> QED  BY <2>4, <2>5, <3>2
  <2>6. ASSUME NEW k \in i..Len(h), k \in Executed(h)  PROVE k \in {i, j}
    <3>1. k \in 1..n /\ (k = i \/ k > i)
      BY <2>3
    <3>2. CASE k > i
      <4>1. k \in Scan(h, 1..n) /\ Broke(h, k)
        BY <1>2, <2>5, <2>6, <3>1, <3>2 DEF Calls, Quiet, Ran, Opaque, Rejected, Is
      <4>2. \A m \in Scan(h, 1..n) : m > k => Quiet(h, m)
        <5>1. \A m \in 1..n : m > k => m > i
          BY <2>3, <3>1, <3>2
        <5> QED  BY <1>4, <2>4, <5>1
      <4>3. k \in S
        BY <4>1, <4>2 DEF Streak
      <4> HIDE DEF S
      <4> QED  BY <2>2, <2>3, <3>1, <3>2, <4>3
    <3> QED  BY <3>1, <3>2
  <2>7. ASSUME NEW k \in i..Len(h)  PROVE ~Is(h[k], "user") /\ ~Is(h[k], "system")
    <3>1. k \in 1..n /\ (k = i \/ k > i)
      BY <2>3
    <3>2. Ran(h, i)
      BY <1>3, <2>4 DEF Broke
    <3>3. k > i => Quiet(h, k)
      BY <2>5, <3>1
    <3> QED  BY <3>1, <3>2, <3>3 DEF Ran, Quiet, Opaque, Rejected, Broke, Is
  <2> QED  BY <2>3, <2>4, <2>6, <2>7 DEF Repairing
<1>7. ASSUME Repairing(h)  PROVE Cardinality(S) >= 2
  <2>1. PICK i \in Failing(h), j \in Failing(h) :
           /\ i < j
           /\ \A k \in i..Len(h) : k \in Executed(h) => k \in {i, j}
           /\ \A k \in i..Len(h) : ~Is(h[k], "user") /\ ~Is(h[k], "system")
    BY <1>7 DEF Repairing
  <2>2. /\ i \in Scan(h, 1..n) /\ j \in Scan(h, 1..n) /\ Broke(h, i) /\ Broke(h, j)
        /\ i \in 1..n /\ j \in 1..n
    BY <1>3, <1>4
  <2>3. ASSUME NEW m \in Scan(h, 1..n), m > i  PROVE Quiet(h, m)
    <3>1. m \in 1..n /\ m \in i..Len(h) /\ m # i
      BY <1>4, <2>2, <2>3
    <3>2. ~Is(h[m], "user") /\ ~Is(h[m], "system") /\ (m \in Executed(h) => m = j)
      BY <2>1, <3>1
    <3>3. Is(h[m], "assistant") \/ Is(h[m], "tool")
      BY <1>5, <3>1, <3>2 DEF Is
    <3>4. Ran(h, m) => m = j
      BY <1>2, <3>1, <3>2 DEF Calls
    <3> QED  BY <2>2, <3>3, <3>4 DEF Quiet, Ran, Opaque, Rejected
  <2>4. \A m \in Scan(h, 1..n) : m > j => m > i
    BY <1>4, <2>1, <2>2
  <2>5. {i, j} \in SUBSET S
    BY <2>2, <2>3, <2>4 DEF Streak
  <2>6. Cardinality({i, j}) = 2 /\ IsFiniteSet({i, j})
    <3>1. i # j
      BY <2>1, <2>2
    <3>2. IsFiniteSet({}) /\ Cardinality({}) = 0
      BY FS_EmptySet
    <3>3. IsFiniteSet({} \cup {i}) /\ Cardinality({} \cup {i}) = 0 + 1
      BY <3>2, FS_AddElement
    <3>4. {} \cup {i} = {i} /\ {i} \cup {j} = {i, j} /\ j \notin {i}
      BY <3>1
    <3>5. IsFiniteSet({i}) /\ Cardinality({i}) = 1
      BY <3>3, <3>4
    <3>6. IsFiniteSet({i} \cup {j}) /\ Cardinality({i} \cup {j}) = 1 + 1
      BY <3>4, <3>5, FS_AddElement
    <3>7. IsFiniteSet({i, j}) /\ Cardinality({i, j}) = 1 + 1
      BY <3>4, <3>6
    <3> QED  BY <3>7
  <2>7. Cardinality({i, j}) <= Cardinality(S)
    <3> HIDE DEF S
    <3> QED  BY <1>1, <2>5, FS_Subset
  <2> HIDE DEF S
  <2> QED  BY <1>1, <2>6, <2>7
<1> QED  BY <1>6, <1>7

(* Whatever the history, rc_signals_classify says of it what the taxonomy  *)
(* of signals.h does.                                                      *)
LEMMA ClassifyMeets ==
    ASSUME NEW h, NEW n \in Nat, Len(h) = n, DOMAIN h = 1..n, NEW facts
    PROVE  rc_signals_classify(h, facts) = Contract(h, facts)
<1> DEFINE w == Walk(h)
<1>1. CASE ~Legible(h, facts)
  BY <1>1 DEF rc_signals_classify, Contract
<1>2. CASE Legible(h, facts)
  <2>1. 1..n \in SUBSET (1..n)
    OBVIOUS
  <2>2. w = Summary(h, 1..n)
    BY WalkIs
  <2> HIDE DEF w
  <2>3. /\ w \in Counters /\ IsFiniteSet(Calls(h, Scan(h, 1..n)))
        /\ IsFiniteSet(Streak(h, 1..n)) /\ IsFiniteSet(Refusals(h, 1..n))
    BY <2>1, <2>2, SummaryTyped
  <2>4. /\ w.seen = Cardinality(Calls(h, Scan(h, 1..n))) /\ w.run = Cardinality(Streak(h, 1..n))
        /\ w.rejected = Cardinality(Refusals(h, 1..n))
        /\ (w.failed <=> \E k \in Scan(h, 1..n) : Broke(h, k))
        /\ (w.odd <=> \E k \in Scan(h, 1..n) : Opaque(h, k))
    BY <2>2 DEF Summary
  <2>5. Executed(h) = Calls(h, 1..n)
    BY DEF Executed, Calls, Ran
  <2>6. Read(h) = Within(h, 1..n)
    BY <2>5 DEF Read, Within
  <2>7. w.odd <=> \E i \in Read(h) : Is(h[i], "tool") /\ h[i].text.shape = "opaque"
    <3>1. (\E k \in Scan(h, 1..n) : Opaque(h, k)) <=> (\E k \in Within(h, 1..n) : Opaque(h, k))
      BY <2>1, ScanIs
    <3> QED  BY <2>4, <2>6, <3>1 DEF Opaque
  <2>8. CASE w.odd
    BY <1>2, <2>7, <2>8 DEF rc_signals_classify, Contract, w
  <2>9. CASE ~w.odd
    <3>1. Scan(h, 1..n) = Within(h, 1..n) /\ \A k \in Scan(h, 1..n) : ~Opaque(h, k)
      BY <2>1, <2>4, <2>9, ScanIs
    <3>2. Recent(h) = Calls(h, Scan(h, 1..n))
      BY <2>5, <3>1 DEF Recent, Calls, Within
    <3>3. w.seen = 0 <=> Recent(h) = {}
      BY <2>3, <2>4, <3>2, FS_EmptySet
    <3>4. CASE w.seen = 0
      BY <1>2, <2>7, <2>9, <3>3, <3>4 DEF rc_signals_classify, Contract, w
    <3>5. CASE w.seen # 0
      <4>1. Trailing(h) = Refusals(h, 1..n)
        <5>1. 0 < Window
          <6>1. PICK r : r \in Recent(h)
            BY <3>3, <3>5
          <6>2. DEFINE A == {j \in Executed(h) : j > r}
          <6>3. Cardinality(A) < Window
            BY <6>1 DEF Recent
          <6>4. Cardinality(A) \in Nat
            <7>1. A \in SUBSET (1..n) /\ IsFiniteSet(1..n)
              BY <2>5, FS_Interval DEF Calls
            <7> HIDE DEF A
            <7> QED  BY <7>1, FS_Subset, FS_CardinalityType
          <6> HIDE DEF A
          <6> QED  BY <6>3, <6>4, SignalsAssumption
        <5>2. ASSUME NEW i \in Trailing(h)  PROVE i \in Refusals(h, 1..n)
          <6>1. i \in 1..n /\ Is(h[i], "tool") /\ i \notin Executed(h) /\ \A j \in Executed(h) : j < i
            BY DEF Trailing
          <6>2. {j \in Calls(h, 1..n) : j > i} = {}
            <7>1. \A j \in 1..n : j < i => ~(j > i)
              BY <6>1
            <7> QED  BY <2>5, <6>1, <7>1 DEF Calls
          <6>3. i \in Scan(h, 1..n)
            BY <3>1, <5>1, <6>1, <6>2, FS_EmptySet DEF Within
          <6> QED  BY <2>5, <3>1, <6>1, <6>3 DEF Refusals, Rejected, Opaque, Calls, Ran
        <5>3. ASSUME NEW i \in Refusals(h, 1..n)  PROVE i \in Trailing(h)
          BY <2>5 DEF Refusals, Rejected, Trailing, Calls, Ran, Scan, Within
        <5> QED  BY <5>2, <5>3
      <4>2. w.rejected = Cardinality(Trailing(h)) /\ (w.rejected = 0 <=> Trailing(h) = {})
        BY <2>3, <2>4, <4>1, FS_EmptySet
      <4>3. \A i \in DOMAIN h : h[i].role \in {"system", "user", "assistant", "tool"}
        BY <1>2 DEF Legible
      <4>4. w.run >= 2 <=> Repairing(h)
        BY <2>4, <3>1, <4>3, StreakIs
      <4>5. w.failed <=> Failing(h) # {}
        BY <2>4, <3>2 DEF Failing, Calls, Broke
      <4> QED  BY <1>2, <2>7, <2>9, <3>3, <3>5, <4>2, <4>4, <4>5 DEF rc_signals_classify, Contract, w
    <3> QED  BY <3>4, <3>5
  <2> QED  BY <2>8, <2>9
<1> QED  BY <1>1, <1>2

(* Whatever history a request brings, its class is the one that signals.h  *)
(* promises: for every length, window and limit, and every tool result.    *)
THEOREM ClassMeetsContract == Spec => []ClassIsContract
<1>1. Init => Asked
  BY DEF Init, Asked, Idle
<1>2. Asked => ClassIsContract
  <2> SUFFICES ASSUME Asked, NEW t \in Arrived
               PROVE  Class(thread[t].request) = Contract(thread[t].request.messages, thread[t].request.facts)
    BY DEF ClassIsContract, Requests
  <2> DEFINE h == thread[t].request.messages
  <2>1. thread[t].request \in Loads[load].kinds /\ load \in DOMAIN Loads
    BY DEF Asked, Arrived
  <2>2. Len(h) \in Nat /\ DOMAIN h = 1..Len(h)
    BY <2>1, LoadsAssumption
  <2> HIDE DEF h
  <2>3. rc_signals_classify(h, thread[t].request.facts) = Contract(h, thread[t].request.facts)
    BY <2>2, ClassifyMeets
  <2> QED  BY <2>3 DEF Class, h
<1> QED  BY AskedKeeps, <1>1, <1>2, PTL DEF Spec
=============================================================================
