---------------------------- MODULE GatewayProofs ----------------------------
(***************************************************************************)
(* Theorems about the gateway's session table, for every table size, every *)
(* set of candidates and policies, any number of requests in progress and  *)
(* of retries.                                                             *)
(***************************************************************************)
EXTENDS GatewaySessions, FiniteSetTheorems, TLAPS

(* A slot's kind is told by its generation, and none is issued twice.      *)
Kinds ==
    \A i \in Slots :
        /\ scopes[i].kind = "registered" <=> scopes[i].gen # 0
        /\ scopes[i].gen <= generations
        /\ scopes[i].kind = "free" => ~scopes[i].inflight

(* A request in progress is of the session it was prepared for, and its    *)
(* ticket names the counter it is in.                                      *)
Attributed ==
    \A r \in Requests : ticket[r] # None =>
        /\ ticket[r].scope # None => scopes[ticket[r].scope].ident = ticket[r].ident
        /\ ticket[r].holds = Counted(ticket[r].dest)

Inv ==
    /\ TypeOK /\ Kinds /\ Attributed
    /\ OneExchange /\ LoadIsExact /\ LabelsBind /\ SensitiveStaysPrivate

-----------------------------------------------------------------------------
(* What the operators on records return.                                   *)
LEMMA SlotIs ==
    ASSUME TypeOK, NEW i \in Slots
    PROVE  scopes[i] \in Scope
BY DEF TypeOK

LEMMA FreeIs ==
    /\ Free \in Scope /\ Free.kind = "free" /\ Free.gen = 0 /\ Free.inflight = FALSE
    /\ Free.private = FALSE /\ Free.owner = None /\ Free.pinned = FALSE
BY GatewayAssumption DEF Free, Scope, Idn

LEMMA FoldedIs ==
    ASSUME NEW s \in Scope, s.kind # "free", NEW q \in Queries
    PROVE  LET g == Folded(s, q) IN
           /\ g \in Scope
           /\ g.kind = s.kind /\ g.gen = s.gen /\ g.ident = s.ident /\ g.inflight = s.inflight
           /\ g.owner = s.owner /\ g.private = s.private /\ g.boundary = s.boundary
           /\ g.pinned = (s.pinned \/ q.breaks) /\ g.tooled = (s.tooled \/ q.tools)
<1>1. s # Free
  BY FreeIs
<1>2. q \in Query
  BY GatewayAssumption
<1>3. Folded(s, q) = [s EXCEPT !.pinned = s.pinned \/ q.breaks, !.tooled = s.tooled \/ q.tools]
  BY <1>1 DEF Folded
<1>4. (s.pinned \/ q.breaks) \in BOOLEAN /\ (s.tooled \/ q.tools) \in BOOLEAN
  BY <1>2 DEF Scope, Query
<1> QED  BY <1>3, <1>4 DEF Scope

LEMMA OwnedIs ==
    ASSUME NEW s \in Scope, NEW d \in Destinations
    PROVE  LET o == Owned(s, d) IN
           /\ o \in Scope
           /\ o.kind = s.kind /\ o.gen = s.gen /\ o.ident = s.ident /\ o.private = s.private
           /\ o.pinned = s.pinned /\ o.tooled = s.tooled
           /\ o.inflight = TRUE /\ o.owner = d
BY DEF Owned, Scope

LEMMA SettledIs ==
    ASSUME NEW s \in Scope, NEW o \in Outcomes
    PROVE  LET e == Settled(s, o) IN
           /\ e \in Scope
           /\ e.kind = s.kind /\ e.gen = s.gen /\ e.ident = s.ident /\ e.private = s.private
           /\ e.owner = s.owner /\ e.inflight = FALSE
<1>1. /\ (s.pinned \/ o = "opaque") \in BOOLEAN /\ (o = "tools" /\ ~s.pinned) \in BOOLEAN
      /\ (s.tooled \/ (o = "tools" /\ ~s.pinned)) \in BOOLEAN
  BY DEF Scope
<1>2. Settled(s, o) =
        [s EXCEPT !.inflight = FALSE, !.idle = FALSE, !.pinned = s.pinned \/ o = "opaque",
                  !.boundary = o = "tools" /\ ~s.pinned,
                  !.tooled = s.tooled \/ (o = "tools" /\ ~s.pinned)]
  BY DEF Settled
<1> QED  BY <1>1, <1>2 DEF Scope

LEMMA NewIs ==
    ASSUME NEW id \in Idn
    PROVE  LET s == NewRequestScope(id) IN
           /\ s \in Scope /\ s.kind = "request" /\ s.gen = 0 /\ s.ident = id /\ s.inflight = FALSE
           /\ s.owner = None /\ s.private = Labelled(id)
<1>1. Labelled(id) \in BOOLEAN
  BY DEF Labelled
<1> QED  BY <1>1, FreeIs DEF NewRequestScope, Free, Scope

-----------------------------------------------------------------------------
(* What prepare has in hand when it places a request: the record s of the  *)
(* session in slot i, with the request folded into it.                     *)
Given(i, s, q) ==
    /\ i \in Slots /\ s \in Scope /\ ~scopes[i].inflight /\ ~s.inflight
    /\ s.kind \in {"registered", "request"} /\ s.ident = q.ident
    /\ s.kind = "registered" <=> s.gen # 0
    /\ s.gen <= generations
    /\ s.kind = "registered" =>
           /\ scopes[i].gen = s.gen /\ scopes[i].owner = s.owner /\ scopes[i].private = s.private
           /\ scopes[i].pinned => s.pinned
    /\ s.kind = "request" =>
           /\ scopes[i].kind # "registered"
           /\ Labelled(s.ident) => s.private

LEMMA RoomIs ==
    ASSUME Inv, NEW k, NEW cap, NEW i \in Room(k, cap)
    PROVE  /\ i \in Slots /\ ~scopes[i].inflight /\ scopes[i].kind \in {"free", k}
           /\ k = "registered" /\ scopes[i].kind = k => ~scopes[i].boundary /\ ~scopes[i].private
BY DEF Room, Reclaimable, OfKind, Inv, Kinds

LEMMA GivenIs ==
    ASSUME Inv, NEW q \in Queries, NEW i \in Slots, NEW s \in Scope,
           s.kind # "free", Given(i, s, q)
    PROVE  Given(i, Folded(s, q), q)
<1> DEFINE g == Folded(s, q)
<1>1. /\ g \in Scope
      /\ g.kind = s.kind /\ g.gen = s.gen /\ g.ident = s.ident /\ g.inflight = s.inflight
      /\ g.owner = s.owner /\ g.private = s.private /\ (s.pinned => g.pinned)
  BY FoldedIs
<1> HIDE DEF g
<1>2. Given(i, g, q)
  BY <1>1 DEF Given
<1> QED  BY <1>2 DEF g

LEMMA ChosenIs ==
    ASSUME NEW s \in Scope, NEW q \in Queries
    PROVE  Chosen(s, q) \subseteq Destinations
BY GatewayAssumption DEF Chosen, Selectable, Quoted, Compliant, Destinations, Scope

(* Prepare serves a session it found, one it makes, or none.               *)
LEMMA PrepareIs ==
    ASSUME Inv, NEW r \in Requests, NEW q \in Queries, Prepare(r, q)
    PROVE  /\ ticket[r] = None
           /\ \/ \E from \in SUBSET Destinations : Dispatch(r, None, Free, q, from)
              \/ \E i \in Slots, s \in Scope :
                    /\ Given(i, s, q)
                    /\ Dispatch(r, i, s, q, Chosen(s, q)) \/ Refuse(i, s)
<1> DEFINE Goal == \/ \E from \in SUBSET Destinations : Dispatch(r, None, Free, q, from)
                   \/ \E i \in Slots, s \in Scope :
                         /\ Given(i, s, q)
                         /\ Dispatch(r, i, s, q, Chosen(s, q)) \/ Refuse(i, s)
<1>1. ASSUME NEW i \in Slots, NEW s \in Scope, s.kind # "free", Given(i, s, q), Serve(r, i, s, q)
      PROVE  Goal
  <2>1. Given(i, Folded(s, q), q) /\ Folded(s, q) \in Scope
    BY <1>1, GivenIs DEF Given
  <2> QED  BY <1>1, <2>1 DEF Serve
<1> HIDE DEF Goal
<1>2. ASSUME PrepareRegistered(r, q) \/ PrepareContinued(r, q)
      PROVE  Goal
  <2>1. PICK i \in Slots : /\ scopes[i].kind \in {"registered", "request"} /\ scopes[i].ident = q.ident
                           /\ ~scopes[i].inflight /\ Serve(r, i, scopes[i], q)
    BY <1>2 DEF PrepareRegistered, PrepareContinued, Continued, OfKind
  <2>2. scopes[i] \in Scope
    BY SlotIs DEF Inv
  <2>3. Given(i, scopes[i], q)
    BY <2>1, <2>2 DEF Given, Inv, Kinds, LabelsBind, OfKind
  <2> QED  BY <1>1, <2>1, <2>2, <2>3
<1>3. ASSUME PrepareNew(r, q)
      PROVE  Goal
  <2> DEFINE s == NewRequestScope(q.ident)
  <2>1. PICK i \in RequestRoom : Serve(r, i, s, q)
    BY <1>3 DEF PrepareNew
  <2>2. i \in Slots /\ ~scopes[i].inflight /\ scopes[i].kind \in {"free", "request"}
    BY RoomIs DEF RequestRoom
  <2>3. /\ s \in Scope /\ s.kind = "request" /\ s.gen = 0 /\ s.ident = q.ident /\ s.inflight = FALSE
        /\ s.private = Labelled(q.ident)
    <3>1. q.ident \in Idn
      BY GatewayAssumption DEF Query
    <3> QED  BY <3>1, NewIs
  <2> HIDE DEF s
  <2>4. Given(i, s, q)
    <3>1. generations \in Nat
      BY DEF Inv, TypeOK
    <3> QED  BY <2>2, <2>3, <3>1 DEF Given
  <2> QED  BY <1>1, <2>1, <2>2, <2>3, <2>4
<1>4. ASSUME PrepareUnscoped(r, q) \/ PrepareHousekeeping(r, q)
      PROVE  Goal
  <2>1. Chosen(Free, q) \subseteq Destinations /\ {Housekeeping} \subseteq Destinations
    BY FreeIs, ChosenIs, GatewayAssumption DEF Destinations
  <2> QED  BY <1>4, <2>1 DEF PrepareUnscoped, PrepareHousekeeping, Goal
<1> QED  BY <1>2, <1>3, <1>4 DEF Prepare, Goal

(* Whatever was chosen, what is dispatched passes the gate and, if public, *)
(* no restriction.                                                         *)
LEMMA DispatchIs ==
    ASSUME NEW r, NEW i, NEW s, NEW q \in Queries, NEW from \in SUBSET Destinations,
           Dispatch(r, i, s, q, from)
    PROVE  \E f \in Destinations :
               /\ Issue(r, i, s, q, f)
               /\ f \in Public => ~q.sensitive /\ ~MustBePrivate(s, q.ident)
               /\ scopes' = IF i = None THEN scopes ELSE [scopes EXCEPT ![i] = Owned(s, f)]
               /\ UNCHANGED <<labels, cooling, generations>>
               /\ \E d \in from : \E h \in Healthy(d, s, q) :
                     f = Final(h, s, q) /\ ~Conflict(h, f, h # d, s, q)
<1>1. PICK d \in from : \E h \in Healthy(d, s, q) :
         LET f == Final(h, s, q) IN
         /\ ~Conflict(h, f, h # d, s, q)
         /\ Issue(r, i, s, q, f)
         /\ scopes' = IF i = None THEN scopes ELSE [scopes EXCEPT ![i] = Owned(s, f)]
         /\ UNCHANGED <<labels, cooling, generations>>
  BY DEF Dispatch
<1>5. PICK h \in Healthy(d, s, q) :
         LET f == Final(h, s, q) IN
         /\ ~Conflict(h, f, h # d, s, q)
         /\ Issue(r, i, s, q, f)
         /\ scopes' = IF i = None THEN scopes ELSE [scopes EXCEPT ![i] = Owned(s, f)]
         /\ UNCHANGED <<labels, cooling, generations>>
  BY <1>1
<1> DEFINE f == Final(h, s, q)
<1>2. h \in Destinations
  BY DEF Healthy, FailoverTargets, Destinations
<1>3. f \in Destinations
  BY <1>2 DEF Final, Destinations
<1>4. f \in Public => ~q.sensitive /\ ~MustBePrivate(s, q.ident)
  BY <1>5, GatewayAssumption DEF Final, Permits, Conflict
<1> QED  BY <1>3, <1>4, <1>5

-----------------------------------------------------------------------------
(* Steps that touch the table only: a session in an exchange stays what it *)
(* is, and none gets an exchange.                                          *)
LEMMA TableKeeps ==
    ASSUME Inv, UNCHANGED <<ticket, load>>, TypeOK', Kinds', LabelsBind',
           \A i \in Slots : scopes[i].inflight =>
               /\ scopes'[i].inflight /\ scopes'[i].gen = scopes[i].gen
               /\ scopes'[i].kind = scopes[i].kind /\ scopes'[i].owner = scopes[i].owner
               /\ scopes'[i].ident = scopes[i].ident,
           \A i \in Slots : scopes'[i].inflight => scopes[i].inflight
    PROVE  Inv'
<1>1. \A r \in Requests : ticket[r] # None /\ ticket[r].scope # None => ticket[r].scope \in Slots
  BY DEF Inv, TypeOK, Ticket
<1>2. Attributed'
  BY <1>1 DEF Inv, Attributed, OneExchange
<1>3. OneExchange'
  BY <1>1 DEF Inv, OneExchange
<1>4. LoadIsExact' /\ SensitiveStaysPrivate'
  BY DEF Inv, LoadIsExact, SensitiveStaysPrivate
<1> QED  BY <1>2, <1>3, <1>4 DEF Inv

(* The same, when one slot is rewritten.                                   *)
LEMMA SlotKeeps ==
    ASSUME Inv, UNCHANGED <<ticket, load, labels, cooling>>,
           generations \in Nat => generations' \in generations..MaxGenerations,
           NEW i \in Slots, NEW s \in Scope, scopes' = [scopes EXCEPT ![i] = s],
           s.kind = "registered" <=> s.gen # 0,
           s.gen <= generations',
           s.kind = "request" /\ Labelled(s.ident) => s.private,
           s.inflight <=> scopes[i].inflight,
           s.kind # "free" \/ ~s.inflight,
           scopes[i].inflight =>
               s.gen = scopes[i].gen /\ s.kind = scopes[i].kind /\ s.owner = scopes[i].owner
               /\ s.ident = scopes[i].ident
    PROVE  Inv'
<1>1. /\ scopes' \in [Slots -> Scope] /\ scopes'[i] = s
      /\ \A k \in Slots \ {i} : scopes'[k] = scopes[k]
  BY DEF Inv, TypeOK
<1>2. generations \in Nat /\ generations' \in 0..MaxGenerations /\ generations <= generations'
  BY GatewayAssumption DEF Inv, TypeOK
<1>3. TypeOK'
  BY <1>1, <1>2 DEF Inv, TypeOK
<1>4. Kinds'
  <2>1. \A k \in Slots : scopes[k].gen \in Nat
    BY SlotIs DEF Inv, Scope
  <2> QED  BY <1>1, <1>2, <2>1 DEF Inv, Kinds
<1>5. LabelsBind'
  BY <1>1 DEF Inv, LabelsBind, OfKind, Labelled
<1> QED  BY <1>1, <1>3, <1>4, <1>5, TableKeeps

LEMMA OpenKeeps ==
    ASSUME Inv, NEW id \in Idents, Open(id)
    PROVE  Inv'
<1> DEFINE s == [Free EXCEPT !.kind = "registered", !.gen = generations + 1, !.ident = id]
<1>1. PICK i \in RegisteredRoom : scopes' = [scopes EXCEPT ![i] = s]
  BY DEF Open
<1>2. /\ generations < MaxGenerations /\ generations' = generations + 1
      /\ UNCHANGED <<ticket, load, labels, cooling>>
  BY DEF Open
<1>3. generations \in Nat /\ generations + 1 \in 0..MaxGenerations /\ generations + 1 # 0
      /\ generations + 1 \in generations..MaxGenerations
  BY <1>2, GatewayAssumption DEF Inv, TypeOK
<1>4. i \in Slots /\ ~scopes[i].inflight
  BY RoomIs DEF RegisteredRoom
<1>5. s \in Scope /\ s.kind = "registered" /\ s.gen = generations + 1 /\ s.inflight = FALSE
  BY <1>3, GatewayAssumption DEF Free, Scope, Idn
<1> HIDE DEF s
<1>6. /\ scopes' = [scopes EXCEPT ![i] = s] /\ i \in Slots /\ s \in Scope
      /\ generations \in Nat => generations' \in generations..MaxGenerations
      /\ s.kind = "registered" <=> s.gen # 0
      /\ s.gen <= generations' /\ s.kind # "request" /\ s.kind # "free"
      /\ s.inflight <=> scopes[i].inflight
  BY <1>1, <1>2, <1>3, <1>4, <1>5
<1> QED  BY <1>2, <1>4, <1>6, SlotKeeps

LEMMA HintKeeps ==
    ASSUME Inv, NEW id \in Idents, Hint(id)
    PROVE  Inv'
<1>1. /\ labels' = labels \cup {id} /\ UNCHANGED <<ticket, load, cooling, generations>>
      /\ scopes' = Bound(id)
  BY DEF Hint
<1>2. ASSUME NEW i \in Slots
      PROVE  /\ scopes'[i] \in Scope
             /\ scopes'[i].kind = scopes[i].kind /\ scopes'[i].gen = scopes[i].gen
             /\ scopes'[i].ident = scopes[i].ident /\ scopes'[i].inflight = scopes[i].inflight
             /\ scopes'[i].owner = scopes[i].owner
             /\ scopes'[i].private = (scopes[i].private \/ (scopes[i].kind = "request" /\ scopes[i].ident = id))
  <2>1. scopes[i] \in Scope
    BY SlotIs DEF Inv
  <2>2. scopes'[i] = IF scopes[i].kind = "request" /\ scopes[i].ident = id
                     THEN [scopes[i] EXCEPT !.private = TRUE] ELSE scopes[i]
    BY <1>1 DEF Bound
  <2> QED  BY <2>1, <2>2 DEF Scope
<1>3. TypeOK'
  <2>1. scopes' \in [Slots -> Scope]
    BY <1>1, <1>2 DEF Bound
  <2> QED  BY <1>1, <2>1 DEF Inv, TypeOK
<1>4. Kinds'
  BY <1>1, <1>2 DEF Inv, Kinds
<1>5. LabelsBind'
  <2>1. ASSUME NEW i \in Slots, scopes'[i].kind = "request", scopes'[i].ident \in labels'
        PROVE  scopes'[i].private
    <3>1. scopes[i].kind = "request" /\ scopes[i].ident \in labels \cup {id}
      BY <1>1, <1>2, <2>1
    <3>2. scopes[i].ident \in labels => scopes[i].private
      BY <3>1 DEF Inv, LabelsBind, OfKind, Labelled
    <3> QED  BY <1>2, <3>1, <3>2
  <2> QED  BY <2>1 DEF LabelsBind, OfKind, Labelled
<1> QED  BY <1>1, <1>2, <1>3, <1>4, <1>5, TableKeeps

LEMMA CloseKeeps ==
    ASSUME Inv, NEW i \in Slots, Close(i)
    PROVE  Inv'
<1>1. generations \in Nat => generations \in generations..MaxGenerations
  BY GatewayAssumption DEF Inv, TypeOK
<1>2. 0 <= generations
  BY DEF Inv, TypeOK
<1> QED  BY <1>1, <1>2, FreeIs, SlotKeeps DEF Close

(* A session changed in what no exchange depends on.                       *)
LEMMA RecordKeeps ==
    ASSUME Inv, UNCHANGED <<ticket, load, labels, cooling, generations>>,
           NEW i \in Slots, NEW s \in Scope, scopes' = [scopes EXCEPT ![i] = s],
           s.kind = scopes[i].kind, s.gen = scopes[i].gen, s.ident = scopes[i].ident,
           s.inflight = scopes[i].inflight, s.owner = scopes[i].owner,
           scopes[i].private => s.private
    PROVE  Inv'
<1>1. generations \in Nat => generations \in generations..MaxGenerations
  BY GatewayAssumption DEF Inv, TypeOK
<1>2. /\ s.kind = "registered" <=> s.gen # 0
      /\ s.gen <= generations /\ (s.kind # "free" \/ ~s.inflight)
  BY DEF Inv, Kinds
<1>3. s.kind = "request" /\ Labelled(s.ident) => s.private
  BY DEF Inv, LabelsBind, OfKind
<1> QED  BY <1>1, <1>2, <1>3, SlotKeeps

LEMMA IngestKeeps ==
    ASSUME Inv, NEW i \in Slots, NEW restricted \in BOOLEAN, NEW accepted \in BOOLEAN,
           Ingest(i, restricted, accepted)
    PROVE  Inv'
<1> DEFINE s == [scopes[i] EXCEPT !.private = @ \/ restricted, !.idle = @ /\ ~accepted]
<1>1. scopes' = [scopes EXCEPT ![i] = s] /\ UNCHANGED <<ticket, load, labels, cooling, generations>>
  BY DEF Ingest, Inv, TypeOK
<1>2. scopes[i] \in Scope
  BY SlotIs DEF Inv
<1>3. /\ s \in Scope /\ s.kind = scopes[i].kind /\ s.gen = scopes[i].gen /\ s.ident = scopes[i].ident
      /\ s.inflight = scopes[i].inflight /\ s.owner = scopes[i].owner
      /\ scopes[i].private => s.private
  BY <1>2 DEF Scope
<1> HIDE DEF s
<1> QED  BY <1>1, <1>3, RecordKeeps

LEMMA AgeKeeps ==
    ASSUME Inv, NEW i \in Slots, Age(i)
    PROVE  Inv'
<1> DEFINE s == [scopes[i] EXCEPT !.idle = TRUE]
<1>1. scopes' = [scopes EXCEPT ![i] = s] /\ UNCHANGED <<ticket, load, labels, cooling, generations>>
  BY DEF Age, Inv, TypeOK
<1>2. scopes[i] \in Scope
  BY SlotIs DEF Inv
<1>3. /\ s \in Scope /\ s.kind = scopes[i].kind /\ s.gen = scopes[i].gen /\ s.ident = scopes[i].ident
      /\ s.inflight = scopes[i].inflight /\ s.owner = scopes[i].owner
      /\ scopes[i].private => s.private
  BY <1>2 DEF Scope
<1> HIDE DEF s
<1> QED  BY <1>1, <1>3, RecordKeeps

LEMMA RecoverKeeps ==
    ASSUME Inv, NEW c \in Candidates, Recover(c)
    PROVE  Inv'
<1>1. UNCHANGED <<scopes, labels, ticket, load, generations>> /\ cooling' \subseteq Candidates
  BY DEF Recover, Inv, TypeOK
<1>2. TypeOK' /\ Kinds' /\ LabelsBind'
  BY <1>1 DEF Inv, TypeOK, Kinds, LabelsBind, OfKind, Labelled
<1> QED  BY <1>1, <1>2, TableKeeps

LEMMA RefuseKeeps ==
    ASSUME Inv, NEW q, NEW i \in Slots, NEW s \in Scope, Given(i, s, q), Refuse(i, s)
    PROVE  Inv'
<1>1. generations \in Nat => generations \in generations..MaxGenerations
  BY GatewayAssumption DEF Inv, TypeOK
<1> QED  BY <1>1, SlotKeeps DEF Refuse, Given

-----------------------------------------------------------------------------
(* One element more or less in a finite set.                               *)
LEMMA CardinalityShifts ==
    ASSUME NEW S, IsFiniteSet(S), NEW T, NEW r, T \ {r} = S \ {r}
    PROVE  Cardinality(T) = Cardinality(S) - (IF r \in S THEN 1 ELSE 0) + (IF r \in T THEN 1 ELSE 0)
<1> DEFINE B == S \ {r}
<1>1. IsFiniteSet(B) /\ Cardinality(B) = IF r \in S THEN Cardinality(S) - 1 ELSE Cardinality(S)
  BY FS_RemoveElement
<1>2. r \notin B /\ (r \in T => T = B \cup {r}) /\ (r \notin T => T = B)
  OBVIOUS
<1> HIDE DEF B
<1>3. Cardinality(B \cup {r}) = Cardinality(B) + 1
  BY <1>1, <1>2, FS_AddElement
<1>4. Cardinality(B) \in Nat /\ Cardinality(S) \in Nat
  BY <1>1, FS_CardinalityType
<1>5. Cardinality(S) = Cardinality(B) + (IF r \in S THEN 1 ELSE 0)
  BY <1>1, <1>4
<1>6. Cardinality(T) = Cardinality(B) + (IF r \in T THEN 1 ELSE 0)
  <2>1. CASE r \in T
    BY <1>2, <1>3, <2>1
  <2>2. CASE r \notin T
    BY <1>2, <1>4, <2>2
  <2> QED  BY <2>1, <2>2
<1> QED  BY <1>4, <1>5, <1>6

Serving(c) == {x \in Requests : ticket[x] # None /\ ticket[x].dest = c}

(* Moving one request between counters keeps each the number it serves.    *)
LEMMA LoadKeeps ==
    ASSUME Inv, NEW r \in Requests, NEW t, ticket' = [ticket EXCEPT ![r] = t],
           t # None => t.holds = Counted(t.dest),
           load' = Shifted(IF ticket[r] = None THEN None ELSE ticket[r].holds,
                           IF t = None THEN None ELSE t.holds)
    PROVE  LoadIsExact' /\ load' \in [Capped -> 0..Cardinality(Requests)]
<1> DEFINE N == Cardinality(Requests)
           from == IF ticket[r] = None THEN None ELSE ticket[r].holds
           to == IF t = None THEN None ELSE t.holds
<1>1. DOMAIN ticket = Requests /\ ticket'[r] = t /\ \A x \in Requests \ {r} : ticket'[x] = ticket[x]
  BY DEF Inv, TypeOK
<1>2. \A c \in Capped : c # None
  BY GatewayAssumption DEF Destinations
<1>3. IsFiniteSet(Requests)
  BY GatewayAssumption
<1>4. ASSUME NEW c \in Capped
      PROVE  load'[c] = Cardinality(Serving(c)') /\ load'[c] \in 0..N
  <2>1. Serving(c)' \ {r} = Serving(c) \ {r}
    BY <1>1 DEF Serving
  <2>2. Serving(c) \subseteq Requests /\ Serving(c)' \subseteq Requests
    BY DEF Serving
  <2>3. IsFiniteSet(Serving(c)) /\ IsFiniteSet(Serving(c)')
    BY <1>3, <2>2, FS_Subset
  <2>4. Cardinality(Serving(c)') = Cardinality(Serving(c)) - (IF r \in Serving(c) THEN 1 ELSE 0)
                                       + (IF r \in Serving(c)' THEN 1 ELSE 0)
    BY <2>1, <2>3, CardinalityShifts
  <2>5. c = from <=> r \in Serving(c)
    BY <1>2 DEF Inv, Attributed, Counted, Serving
  <2>6. c = to <=> r \in Serving(c)'
    BY <1>1, <1>2 DEF Counted, Serving
  <2>7. load[c] = Cardinality(Serving(c))
    BY DEF Inv, LoadIsExact, Serving
  <2>8. load'[c] = load[c] - (IF c = from THEN 1 ELSE 0) + (IF c = to THEN 1 ELSE 0)
    BY DEF Shifted
  <2>9. load'[c] = Cardinality(Serving(c)')
    BY <2>4, <2>5, <2>6, <2>7, <2>8
  <2>10. Cardinality(Serving(c)') \in Nat /\ Cardinality(Serving(c)') <= N /\ N \in Nat
    BY <1>3, <2>2, <2>3, FS_Subset, FS_CardinalityType
  <2> QED  BY <2>9, <2>10
<1>5. LoadIsExact'
  BY <1>4 DEF LoadIsExact, Serving
<1>6. load' \in [Capped -> 0..N]
  BY <1>4 DEF Shifted
<1> QED  BY <1>5, <1>6

(* One request's ticket t, and with it the record e of its session's slot  *)
(* i, if it has one.                                                       *)
LEMMA ExchangeKeeps ==
    ASSUME Inv, NEW r \in Requests, NEW i \in Slots \cup {None},
           NEW t \in Ticket \cup {None}, NEW e,
           ticket' = [ticket EXCEPT ![r] = t],
           scopes' = IF i = None THEN scopes ELSE [scopes EXCEPT ![i] = e],
           UNCHANGED <<labels, generations>>, cooling' \subseteq Candidates,
           ticket[r] # None => ticket[r].scope = i,
           ticket[r] = None /\ i # None => ~scopes[i].inflight,
           t # None => /\ t.scope = i /\ t.holds = Counted(t.dest)
                       /\ t.sensitive => t.dest \notin Public,
           i # None => /\ e \in Scope /\ e.kind # "free" /\ e.gen <= generations
                       /\ e.kind = "registered" <=> e.gen # 0
                       /\ e.kind = "request" /\ Labelled(e.ident) => e.private
                       /\ t # None => /\ e.inflight /\ e.gen = t.gen /\ e.owner = t.dest
                                      /\ e.ident = t.ident
                       /\ t = None => ~e.inflight,
           load' = Shifted(IF ticket[r] = None THEN None ELSE ticket[r].holds,
                           IF t = None THEN None ELSE t.holds)
    PROVE  Inv'
<1>1. /\ ticket \in [Requests -> Ticket \cup {None}] /\ ticket'[r] = t
      /\ ticket' \in [Requests -> Ticket \cup {None}]
      /\ \A x \in Requests \ {r} : ticket'[x] = ticket[x]
  BY DEF Inv, TypeOK
<1>2. /\ scopes' \in [Slots -> Scope]
      /\ i # None => scopes'[i] = e
      /\ \A k \in Slots \ {i} : scopes'[k] = scopes[k]
  BY DEF Inv, TypeOK
<1>3. LoadIsExact' /\ load' \in [Capped -> 0..Cardinality(Requests)]
  BY LoadKeeps
<1>4. TypeOK'
  BY <1>1, <1>2, <1>3 DEF Inv, TypeOK
<1>5. Kinds' /\ LabelsBind'
  BY <1>2 DEF Inv, Kinds, LabelsBind, OfKind, Labelled
<1>6. \A x \in Requests \ {r} : ticket[x] # None => ticket[x].scope = None \/ ticket[x].scope # i
  BY <1>1 DEF Inv, OneExchange, Ticket
<1>7. \A x \in Requests : ticket[x] # None /\ ticket[x].scope # None => ticket[x].scope \in Slots
  BY <1>1 DEF Ticket
<1>8. Attributed'
  BY <1>1, <1>2, <1>6, <1>7 DEF Inv, Attributed
<1>9. SensitiveStaysPrivate'
  BY <1>1 DEF Inv, SensitiveStaysPrivate
<1>10. OneExchange'
  <2>1. ASSUME NEW x \in Requests, ticket'[x] # None, ticket'[x].scope # None
        PROVE  LET s == scopes'[ticket'[x].scope] IN
               /\ s.inflight /\ s.gen = ticket'[x].gen
               /\ s.kind = (IF ticket'[x].gen = 0 THEN "request" ELSE "registered")
               /\ s.owner = ticket'[x].dest
               /\ \A y \in Requests \ {x} : ticket'[y] # None => ticket'[y].scope # ticket'[x].scope
    <3>1. CASE x = r
      <4>1. t # None /\ t.scope = i /\ i # None /\ scopes'[i] = e
        BY <1>1, <1>2, <2>1, <3>1
      <4>2. e.kind = (IF t.gen = 0 THEN "request" ELSE "registered")
        BY <4>1 DEF Scope
      <4> QED  BY <1>1, <1>6, <3>1, <4>1, <4>2
    <3>2. CASE x # r
      <4>1. ticket'[x] = ticket[x] /\ ticket[x].scope \in Slots \ {i}
        BY <1>1, <1>6, <1>7, <2>1, <3>2
      <4>2. scopes'[ticket[x].scope] = scopes[ticket[x].scope]
        BY <1>2, <4>1
      <4>3. \A y \in Requests \ {x} : ticket'[y] # None => ticket'[y].scope # ticket[x].scope
        BY <1>1, <2>1, <4>1 DEF Inv, OneExchange
      <4> QED  BY <2>1, <4>1, <4>2, <4>3 DEF Inv, OneExchange
    <3> QED  BY <3>1, <3>2
  <2>2. ASSUME NEW k \in Slots, scopes'[k].inflight
        PROVE  \E x \in Requests : ticket'[x] # None /\ ticket'[x].scope = k
    <3>1. CASE k = i
      <4>1. i # None /\ t # None
        BY <1>2, <2>2, <3>1, GatewayAssumption
      <4> QED  BY <1>1, <3>1, <4>1
    <3>2. CASE k # i
      <4>1. PICK x \in Requests : ticket[x] # None /\ ticket[x].scope = k
        BY <1>2, <2>2, <3>2 DEF Inv, OneExchange
      <4>2. x # r
        BY <3>2, <4>1
      <4> QED  BY <1>1, <4>1, <4>2
    <3> QED  BY <3>1, <3>2
  <2> QED  BY <2>1, <2>2 DEF OneExchange
<1> QED  BY <1>3, <1>4, <1>5, <1>8, <1>9, <1>10 DEF Inv

LEMMA DispatchKeeps ==
    ASSUME Inv, NEW r \in Requests, ticket[r] = None, NEW q \in Queries,
           NEW i \in Slots \cup {None}, NEW s \in Scope, NEW from \in SUBSET Destinations,
           i # None => Given(i, s, q), i = None => s = Free,
           Dispatch(r, i, s, q, from)
    PROVE  Inv'
<1>1. PICK f \in Destinations :
         /\ Issue(r, i, s, q, f)
         /\ f \in Public => ~q.sensitive /\ ~MustBePrivate(s, q.ident)
         /\ scopes' = IF i = None THEN scopes ELSE [scopes EXCEPT ![i] = Owned(s, f)]
         /\ UNCHANGED <<labels, cooling, generations>>
  BY DispatchIs
<1> DEFINE t == [scope |-> i, gen |-> s.gen, ident |-> q.ident, automatic |-> q.automatic,
                 sensitive |-> q.sensitive, dest |-> f, holds |-> Counted(f),
                 failed |-> FALSE, tries |-> 0]
           e == Owned(s, f)
<1>2. ticket' = [ticket EXCEPT ![r] = t] /\ load' = Shifted(None, Counted(f))
  BY <1>1 DEF Issue
<1>3. t \in Ticket
  <2>1. q \in Query /\ MaxRetries \in Nat
    BY GatewayAssumption
  <2>2. s.gen \in 0..MaxGenerations /\ Counted(f) \in Capped \cup {None}
    BY DEF Scope, Counted
  <2> QED  BY <2>1, <2>2 DEF Ticket, Query
<1>4. /\ e \in Scope
      /\ e.kind = s.kind /\ e.gen = s.gen /\ e.ident = s.ident /\ e.private = s.private
      /\ e.inflight = TRUE /\ e.owner = f
  BY OwnedIs
<1>5. /\ t.scope = i /\ t.holds = Counted(f) /\ t.dest = f /\ t.ident = q.ident /\ t.gen = s.gen
      /\ t.sensitive => f \notin Public
  BY <1>1
<1>6. t # None
  BY <1>3, TicketAssumption
<1>7. cooling' \subseteq Candidates
  BY <1>1 DEF Inv, TypeOK
<1> HIDE DEF t, e
<1>8. i # None => /\ e.kind # "free" /\ e.gen <= generations
                  /\ e.kind = "registered" <=> e.gen # 0
                  /\ e.kind = "request" /\ Labelled(e.ident) => e.private
                  /\ e.ident = t.ident /\ ~scopes[i].inflight
  BY <1>4, <1>5 DEF Given
<1>9. /\ scopes' = IF i = None THEN scopes ELSE [scopes EXCEPT ![i] = e]
      /\ UNCHANGED <<labels, generations>>
  BY <1>1 DEF e
<1>10. /\ t # None => /\ t.scope = i /\ t.holds = Counted(t.dest)
                      /\ t.sensitive => t.dest \notin Public
       /\ i # None => /\ e \in Scope /\ e.kind # "free" /\ e.gen <= generations
                      /\ e.kind = "registered" <=> e.gen # 0
                      /\ e.kind = "request" /\ Labelled(e.ident) => e.private
                      /\ t # None => /\ e.inflight /\ e.gen = t.gen /\ e.owner = t.dest
                                     /\ e.ident = t.ident
                      /\ t = None => ~e.inflight
  BY <1>4, <1>5, <1>6, <1>8
<1>11. load' = Shifted(IF ticket[r] = None THEN None ELSE ticket[r].holds,
                       IF t = None THEN None ELSE t.holds)
  BY <1>2, <1>5, <1>6
<1>12. ticket[r] = None /\ i # None => ~scopes[i].inflight
  BY <1>8
<1> QED  BY <1>2, <1>3, <1>7, <1>9, <1>10, <1>11, <1>12, ExchangeKeeps

LEMMA FailKeeps ==
    ASSUME Inv, NEW r \in Requests, NEW cools \in BOOLEAN, Fail(r, cools)
    PROVE  Inv'
<1> DEFINE t == [ticket[r] EXCEPT !.failed = TRUE]
<1>1. /\ ticket[r] # None /\ ticket[r] \in Ticket
      /\ ticket' = [ticket EXCEPT ![r] = t]
      /\ UNCHANGED <<scopes, labels, load, generations>>
  BY DEF Fail, Running, Inv, TypeOK
<1>2. /\ t \in Ticket /\ t.scope = ticket[r].scope /\ t.gen = ticket[r].gen
      /\ t.ident = ticket[r].ident /\ t.dest = ticket[r].dest /\ t.holds = ticket[r].holds
      /\ t.sensitive = ticket[r].sensitive
  BY <1>1 DEF Ticket
<1>3. cooling' \subseteq Candidates
  BY DEF Fail, Inv, TypeOK
<1>4. load' = Shifted(ticket[r].holds, t.holds)
  <2>1. load \in [Capped -> Int]
    BY DEF Inv, TypeOK
  <2> QED  BY <1>1, <1>2, <2>1 DEF Shifted
<1> DEFINE i == ticket[r].scope
           e == scopes[i]
<1>5. scopes' = IF i = None THEN scopes ELSE [scopes EXCEPT ![i] = e]
  BY <1>1 DEF Inv, TypeOK
<1>6. i \in Slots \cup {None} /\ t # None /\ (i # None => e \in Scope)
  BY <1>1, <1>2, TicketAssumption, SlotIs DEF Ticket, Inv
<1>7. i # None => /\ e.inflight /\ e.gen = t.gen /\ e.owner = t.dest /\ e.ident = t.ident
                  /\ e.kind # "free" /\ e.gen <= generations
                  /\ e.kind = "registered" <=> e.gen # 0
                  /\ e.kind = "request" /\ Labelled(e.ident) => e.private
  BY <1>1, <1>2, <1>6 DEF Inv, OneExchange, Kinds, LabelsBind, OfKind, Attributed
<1>8. t.holds = Counted(t.dest) /\ (t.sensitive => t.dest \notin Public)
  BY <1>1, <1>2 DEF Inv, Attributed, SensitiveStaysPrivate
<1> HIDE DEF t, e, i
<1> QED  BY <1>1, <1>2, <1>3, <1>4, <1>5, <1>6, <1>7, <1>8, ExchangeKeeps DEF i

LEMMA FailoverKeeps ==
    ASSUME Inv, NEW r \in Requests, NEW overflow \in BOOLEAN, Failover(r, overflow)
    PROVE  Inv'
<1> DEFINE t0 == ticket[r]
<1>1. t0 # None /\ t0 \in Ticket /\ t0.tries < MaxRetries /\ UNCHANGED <<labels, cooling, generations>>
  BY DEF Failover, Inv, TypeOK
<1>2. PICK to \in FailoverTargets(t0.dest, ScopeOf(t0), MustBePrivate(ScopeOf(t0), t0.ident),
                                  t0.sensitive, overflow) :
         /\ ticket' = [ticket EXCEPT ![r] =
                [t0 EXCEPT !.dest = to, !.holds = Counted(to), !.failed = FALSE,
                           !.tries = @ + 1]]
         /\ load' = Shifted(t0.holds, Counted(to))
         /\ scopes' = IF t0.scope = None THEN scopes
                      ELSE [scopes EXCEPT ![t0.scope].owner = to]
  BY DEF Failover
<1>3. to \in Destinations /\ (t0.sensitive => to \notin Public)
  BY <1>2 DEF FailoverTargets, Destinations, Permits
<1> DEFINE t == [t0 EXCEPT !.dest = to, !.holds = Counted(to), !.failed = FALSE, !.tries = @ + 1]
           i == t0.scope
           e == [scopes[i] EXCEPT !.owner = to]
<1>4. /\ t \in Ticket /\ t.scope = i /\ t.gen = t0.gen /\ t.ident = t0.ident /\ t.dest = to
      /\ t.holds = Counted(to) /\ t.sensitive = t0.sensitive
  <2>1. t0.tries + 1 \in 0..MaxRetries /\ Counted(to) \in Capped \cup {None}
    BY <1>1, GatewayAssumption DEF Ticket, Counted
  <2> QED  BY <1>1, <1>3, <2>1 DEF Ticket
<1>5. scopes' = IF i = None THEN scopes ELSE [scopes EXCEPT ![i] = e]
  BY <1>2 DEF Inv, TypeOK
<1>6. i \in Slots \cup {None} /\ t # None
  BY <1>1, <1>4, TicketAssumption DEF Ticket
<1>7. i # None => /\ e \in Scope /\ e.kind = scopes[i].kind /\ e.gen = scopes[i].gen
                  /\ e.ident = scopes[i].ident /\ e.private = scopes[i].private
                  /\ e.inflight = scopes[i].inflight /\ e.owner = to
  <2>1. i # None => scopes[i] \in Scope
    BY <1>6, SlotIs DEF Inv
  <2> QED  BY <1>3, <2>1 DEF Scope
<1>8. i # None => /\ scopes[i].inflight /\ scopes[i].gen = t0.gen /\ scopes[i].ident = t0.ident
                  /\ scopes[i].kind # "free" /\ scopes[i].gen <= generations
                  /\ scopes[i].kind = "registered" <=> scopes[i].gen # 0
                  /\ scopes[i].kind = "request" /\ Labelled(scopes[i].ident) => scopes[i].private
  BY <1>1, <1>6 DEF Inv, OneExchange, Kinds, LabelsBind, OfKind, Attributed
<1>9. cooling' \subseteq Candidates
  BY <1>1 DEF Inv, TypeOK
<1>10. ticket' = [ticket EXCEPT ![r] = t] /\ load' = Shifted(ticket[r].holds, t.holds)
  BY <1>2, <1>4
<1>11. ticket[r] # None /\ ticket[r].scope = i
  BY <1>1
<1> HIDE DEF t, e, i, t0
<1>12. i # None => /\ e.kind # "free" /\ e.gen <= generations
                   /\ e.kind = "registered" <=> e.gen # 0
                   /\ e.kind = "request" /\ Labelled(e.ident) => e.private
                   /\ e.inflight /\ e.gen = t.gen /\ e.owner = t.dest /\ e.ident = t.ident
  BY <1>4, <1>7, <1>8
<1>13. t.holds = Counted(t.dest) /\ (t.sensitive => t.dest \notin Public)
  BY <1>3, <1>4
<1> QED  BY <1>1, <1>4, <1>5, <1>6, <1>7, <1>9, <1>10, <1>11, <1>12, <1>13, ExchangeKeeps

LEMMA FinishKeeps ==
    ASSUME Inv, NEW r \in Requests, NEW outcome \in Outcomes, Finish(r, outcome)
    PROVE  Inv'
<1> DEFINE t0 == ticket[r]
           i == t0.scope
           e == Settled(scopes[i], outcome)
<1>1. /\ t0 # None /\ t0 \in Ticket /\ ticket' = [ticket EXCEPT ![r] = None]
      /\ load' = Shifted(t0.holds, None) /\ UNCHANGED <<labels, cooling, generations>>
  BY DEF Finish, Inv, TypeOK
<1>2. scopes' = IF i = None THEN scopes ELSE [scopes EXCEPT ![i] = e]
  BY DEF Finish
<1>3. i \in Slots \cup {None} /\ cooling' \subseteq Candidates
  BY <1>1 DEF Ticket, Inv, TypeOK
<1>4. i # None => /\ e \in Scope /\ e.kind = scopes[i].kind /\ e.gen = scopes[i].gen
                  /\ e.ident = scopes[i].ident /\ e.private = scopes[i].private
                  /\ e.inflight = FALSE
  BY <1>3, SlotIs, SettledIs DEF Inv
<1>5. i # None => /\ scopes[i].inflight /\ scopes[i].kind # "free" /\ scopes[i].gen <= generations
                  /\ scopes[i].kind = "registered" <=> scopes[i].gen # 0
                  /\ scopes[i].kind = "request" /\ Labelled(scopes[i].ident) => scopes[i].private
  BY <1>1, <1>3 DEF Inv, OneExchange, Kinds, LabelsBind, OfKind
<1>6. ticket[r] # None /\ ticket[r].scope = i /\ load' = Shifted(ticket[r].holds, None)
  BY <1>1
<1> HIDE DEF t0, i, e
<1>7. i # None => /\ e.kind # "free" /\ e.gen <= generations
                  /\ e.kind = "registered" <=> e.gen # 0
                  /\ e.kind = "request" /\ Labelled(e.ident) => e.private
  BY <1>4, <1>5
<1> QED  BY <1>1, <1>2, <1>3, <1>4, <1>6, <1>7, ExchangeKeeps

LEMMA PrepareKeeps ==
    ASSUME Inv, NEW r \in Requests, NEW q \in Queries, Prepare(r, q)
    PROVE  Inv'
<1>1. ticket[r] = None
  BY PrepareIs
<1>2. ASSUME NEW from \in SUBSET Destinations, Dispatch(r, None, Free, q, from)
      PROVE  Inv'
  BY <1>1, <1>2, FreeIs, DispatchKeeps
<1>3. ASSUME NEW i \in Slots, NEW s \in Scope, Given(i, s, q), Dispatch(r, i, s, q, Chosen(s, q))
      PROVE  Inv'
  <2>1. i # None
    BY GatewayAssumption
  <2>2. Chosen(s, q) \in SUBSET Destinations
    BY ChosenIs
  <2> QED  BY <1>1, <1>3, <2>1, <2>2, DispatchKeeps
<1>4. ASSUME NEW i \in Slots, NEW s \in Scope, Given(i, s, q), Refuse(i, s)
      PROVE  Inv'
  BY <1>4, RefuseKeeps
<1> QED  BY <1>2, <1>3, <1>4, PrepareIs

LEMMA InitHolds == Init => Inv
<1> SUFFICES ASSUME Init  PROVE Inv
  OBVIOUS
<1>1. /\ scopes = [i \in Slots |-> Free] /\ labels = {} /\ cooling = {} /\ generations = 0
      /\ ticket = [r \in Requests |-> None] /\ load = [c \in Capped |-> 0]
  BY DEF Init
<1>2. Cardinality(Requests) \in Nat
  BY GatewayAssumption, FS_CardinalityType
<1>3. TypeOK
  BY <1>1, <1>2, FreeIs, GatewayAssumption DEF TypeOK
<1>4. Kinds /\ LabelsBind
  BY <1>1, FreeIs DEF Kinds, LabelsBind, OfKind
<1>5. Attributed /\ SensitiveStaysPrivate
  BY <1>1 DEF Attributed, SensitiveStaysPrivate
<1>6. OneExchange
  BY <1>1, FreeIs DEF OneExchange
<1>7. LoadIsExact
  <2>1. \A c \in Capped : {r \in Requests : ticket[r] # None /\ ticket[r].dest = c} = {}
    BY <1>1
  <2> QED  BY <1>1, <2>1, FS_EmptySet DEF LoadIsExact
<1> QED  BY <1>3, <1>4, <1>5, <1>6, <1>7 DEF Inv

LEMMA StepKeeps == Inv /\ [Next]_vars => Inv'
<1> SUFFICES ASSUME Inv, [Next]_vars  PROVE Inv'
  OBVIOUS
<1>1. CASE UNCHANGED vars
  <2>1. UNCHANGED <<ticket, load, scopes, labels, cooling, generations>>
    BY <1>1 DEF vars
  <2>2. TypeOK' /\ Kinds' /\ LabelsBind'
    BY <2>1 DEF Inv, TypeOK, Kinds, LabelsBind, OfKind, Labelled
  <2> QED  BY <2>1, <2>2, TableKeeps
<1>2. CASE \E id \in Idents : Open(id) \/ Hint(id)
  BY <1>2, OpenKeeps, HintKeeps
<1>3. CASE \E i \in Slots : Close(i) \/ Age(i)
  BY <1>3, CloseKeeps, AgeKeeps
<1>4. CASE \E i \in Slots : \E restricted, accepted \in BOOLEAN : Ingest(i, restricted, accepted)
  BY <1>4, IngestKeeps
<1>5. CASE \E r \in Requests : \E q \in Queries : Prepare(r, q)
  BY <1>5, PrepareKeeps
<1>6. CASE \E r \in Requests : \E b \in BOOLEAN : Fail(r, b) \/ Failover(r, b)
  BY <1>6, FailKeeps, FailoverKeeps
<1>7. CASE \E r \in Requests : \E o \in Outcomes : Finish(r, o)
  BY <1>7, FinishKeeps
<1>8. CASE \E c \in Candidates : Recover(c)
  BY <1>8, RecoverKeeps
<1> QED  BY <1>1, <1>2, <1>3, <1>4, <1>5, <1>6, <1>7, <1>8 DEF Next

(* The table, the tickets and the counters agree in every state            *)
(* (rc_gateway_prepare, _failover and _finish, one lock section each).     *)
THEOREM Invariant == Spec => []Inv
BY InitHolds, StepKeeps, PTL DEF Spec

(* Slots, tickets and counters stay within their types; no counter passes  *)
(* the number of requests nor goes below zero.                             *)
THEOREM TypeCorrect == Spec => []TypeOK
<1>1. Inv => TypeOK
  BY DEF Inv
<1> QED  BY <1>1, Invariant, PTL

(* A label reaches every request session of its identity, whichever came   *)
(* first (the hint's loop, gateway_context.c:520-527, and a new session's  *)
(* look at the labels).                                                    *)
THEOREM LabelsReach == Spec => []LabelsBind
<1>1. Inv => LabelsBind
  BY DEF Inv
<1> QED  BY <1>1, Invariant, PTL

(* What the gate vetoed is never in flight to a public destination: the    *)
(* check is made at dispatch and again at every retry.                     *)
THEOREM GateHolds == Spec => []SensitiveStaysPrivate
<1>1. Inv => SensitiveStaysPrivate
  BY DEF Inv
<1> QED  BY <1>1, Invariant, PTL

(* One exchange per session, in the slot it was prepared for (the inflight *)
(* fence of every path that takes, closes or reclaims a slot).             *)
THEOREM Exchanges == Spec => []OneExchange
<1>1. Inv => OneExchange
  BY DEF Inv
<1> QED  BY <1>1, Invariant, PTL

(* A candidate's inflight counter is the number of requests it serves:     *)
(* each path that ends or moves a request gives back exactly what it took. *)
THEOREM LoadsAreExact == Spec => []LoadIsExact
<1>1. Inv => LoadIsExact
  BY DEF Inv
<1> QED  BY <1>1, Invariant, PTL

-----------------------------------------------------------------------------
(* Only a dispatch or a retry chooses a destination.                       *)
PlacedPrivately(r) ==
    Placed(r) =>
        LET t == ticket'[r] IN
        \/ t.dest \notin Public
        \/ IF t.scope # None /\ t.gen # 0 THEN ~scopes'[t.scope].private
           ELSE t.ident \notin labels'

LEMMA DispatchPlaces ==
    ASSUME Inv, NEW r \in Requests, ticket[r] = None, NEW q \in Queries,
           NEW i \in Slots \cup {None}, NEW s \in Scope, NEW from \in SUBSET Destinations,
           i # None => Given(i, s, q), i = None => s = Free,
           Dispatch(r, i, s, q, from)
    PROVE  \A x \in Requests : PlacedPrivately(x)
<1>1. PICK f \in Destinations :
         /\ Issue(r, i, s, q, f)
         /\ f \in Public => ~q.sensitive /\ ~MustBePrivate(s, q.ident)
         /\ scopes' = IF i = None THEN scopes ELSE [scopes EXCEPT ![i] = Owned(s, f)]
         /\ UNCHANGED <<labels, cooling, generations>>
  BY DispatchIs
<1>2. /\ ticket \in [Requests -> Ticket \cup {None}] /\ scopes \in [Slots -> Scope]
  BY DEF Inv, TypeOK
<1>3. /\ ticket'[r].scope = i /\ ticket'[r].gen = s.gen /\ ticket'[r].ident = q.ident
      /\ ticket'[r].dest = f
      /\ \A x \in Requests \ {r} : ticket'[x] = ticket[x]
  BY <1>1, <1>2 DEF Issue
<1>4. CASE i = None
  BY <1>1, <1>3, <1>4 DEF PlacedPrivately, Placed, MustBePrivate, Labelled
<1>5. CASE i # None
  <2>1. /\ Given(i, s, q) /\ i \in Slots /\ s # Free
    BY <1>5, FreeIs DEF Given
  <2>2. scopes'[i].private = s.private
    BY <1>1, <1>2, <1>5, <2>1, OwnedIs
  <2>3. f \in Public => ~s.private
    BY <1>1, <2>1 DEF MustBePrivate
  <2>4. s.gen = 0 => (Labelled(q.ident) => s.private)
    BY <2>1 DEF Given
  <2> QED  BY <1>1, <1>3, <1>5, <2>2, <2>3, <2>4 DEF PlacedPrivately, Placed, Labelled
<1> QED  BY <1>4, <1>5

LEMMA FailoverPlaces ==
    ASSUME Inv, NEW r \in Requests, NEW overflow \in BOOLEAN, Failover(r, overflow)
    PROVE  \A x \in Requests : PlacedPrivately(x)
<1>1. /\ ticket \in [Requests -> Ticket \cup {None}] /\ scopes \in [Slots -> Scope]
      /\ ticket[r] # None /\ ticket[r] \in Ticket
  BY DEF Failover, Inv, TypeOK
<1>2. PICK to \in FailoverTargets(ticket[r].dest, ScopeOf(ticket[r]),
                                  MustBePrivate(ScopeOf(ticket[r]), ticket[r].ident),
                                  ticket[r].sensitive, overflow) :
         /\ ticket' = [ticket EXCEPT ![r] =
                [ticket[r] EXCEPT !.dest = to, !.holds = Counted(to), !.failed = FALSE,
                                  !.tries = @ + 1]]
         /\ scopes' = IF ticket[r].scope = None THEN scopes
                      ELSE [scopes EXCEPT ![ticket[r].scope].owner = to]
         /\ labels' = labels
  BY DEF Failover
<1>3. /\ ticket'[r].scope = ticket[r].scope /\ ticket'[r].gen = ticket[r].gen
      /\ ticket'[r].ident = ticket[r].ident /\ ticket'[r].dest = to
      /\ \A x \in Requests \ {r} : ticket'[x] = ticket[x]
  BY <1>1, <1>2 DEF Ticket
<1>4. to \in Public => ~MustBePrivate(ScopeOf(ticket[r]), ticket[r].ident)
  BY <1>2 DEF FailoverTargets
<1>5. CASE ticket[r].scope = None
  BY <1>2, <1>3, <1>4, <1>5 DEF PlacedPrivately, Placed, MustBePrivate, Labelled, ScopeOf
<1>6. CASE ticket[r].scope # None
  <2> DEFINE i == ticket[r].scope
  <2>1. /\ i \in Slots /\ scopes[i] \in Scope /\ scopes[i].inflight
        /\ scopes[i].gen = ticket[r].gen /\ scopes[i].ident = ticket[r].ident
        /\ scopes[i].kind = (IF ticket[r].gen = 0 THEN "request" ELSE "registered")
    BY <1>1, <1>6 DEF Inv, OneExchange, Attributed, Ticket
  <2>2. scopes'[i].private = scopes[i].private
    BY <1>1, <1>2, <1>6, <2>1 DEF Scope
  <2>3. to \in Public => ~scopes[i].private
    BY <1>4, <1>6, <2>1, FreeIs DEF MustBePrivate, ScopeOf
  <2>4. ticket[r].gen = 0 => (Labelled(ticket[r].ident) => scopes[i].private)
    BY <2>1 DEF Inv, LabelsBind, OfKind
  <2> QED  BY <1>2, <1>3, <1>6, <2>2, <2>3, <2>4 DEF PlacedPrivately, Placed, Labelled
<1> QED  BY <1>5, <1>6

LEMMA StepPlaces ==
    ASSUME Inv, Next
    PROVE  \A x \in Requests : PlacedPrivately(x)
<1>1. ASSUME UNCHANGED ticket  PROVE \A x \in Requests : PlacedPrivately(x)
  BY <1>1 DEF PlacedPrivately, Placed
<1>2. CASE \E id \in Idents : Open(id) \/ Hint(id)
  BY <1>1, <1>2 DEF Open, Hint
<1>3. CASE \E i \in Slots : Close(i) \/ Age(i)
  BY <1>1, <1>3 DEF Close, Age
<1>4. CASE \E i \in Slots : \E restricted, accepted \in BOOLEAN : Ingest(i, restricted, accepted)
  BY <1>1, <1>4 DEF Ingest
<1>5. ASSUME NEW r \in Requests, NEW q \in Queries, Prepare(r, q)
      PROVE  \A x \in Requests : PlacedPrivately(x)
  <2>1. ticket[r] = None
    BY <1>5, PrepareIs
  <2>2. ASSUME NEW from \in SUBSET Destinations, Dispatch(r, None, Free, q, from)
        PROVE  \A x \in Requests : PlacedPrivately(x)
    BY <2>1, <2>2, FreeIs, DispatchPlaces
  <2>3. ASSUME NEW i \in Slots, NEW s \in Scope, Given(i, s, q), Dispatch(r, i, s, q, Chosen(s, q))
        PROVE  \A x \in Requests : PlacedPrivately(x)
    <3>1. i # None /\ Chosen(s, q) \in SUBSET Destinations
      BY GatewayAssumption, ChosenIs
    <3> QED  BY <2>1, <2>3, <3>1, DispatchPlaces
  <2>4. ASSUME NEW i \in Slots, NEW s \in Scope, Refuse(i, s)
        PROVE  \A x \in Requests : PlacedPrivately(x)
    BY <1>1, <2>4 DEF Refuse
  <2> QED  BY <1>5, <2>2, <2>3, <2>4, PrepareIs
<1>6. ASSUME NEW r \in Requests, NEW b \in BOOLEAN, Fail(r, b)
      PROVE  \A x \in Requests : PlacedPrivately(x)
  <2>1. \A x \in Requests : (ticket[x] # None /\ ticket'[x].dest = ticket[x].dest) \/ ticket'[x] = ticket[x]
    BY <1>6 DEF Fail, Running, Inv, TypeOK, Ticket
  <2> QED  BY <2>1 DEF PlacedPrivately, Placed
<1>7. ASSUME NEW r \in Requests, NEW o \in Outcomes, Finish(r, o)
      PROVE  \A x \in Requests : PlacedPrivately(x)
  <2>1. \A x \in Requests : ticket'[x] = None \/ ticket'[x] = ticket[x]
    BY <1>7 DEF Finish, Inv, TypeOK
  <2> QED  BY <2>1 DEF PlacedPrivately, Placed
<1>8. CASE \E c \in Candidates : Recover(c)
  BY <1>1, <1>8 DEF Recover
<1> QED  BY <1>2, <1>3, <1>4, <1>5, <1>6, <1>7, <1>8, FailoverPlaces DEF Next

(* A destination chosen now is not public when the session, or the         *)
(* identity of a request without one, is restricted now: the retry looks   *)
(* at the labels again (rc_gateway_failover), it does not reuse what       *)
(* prepare saw.                                                            *)
THEOREM RestrictionBinds == Spec => NeverPublicOnceRestricted
<1>1. Inv /\ [Next]_vars =>
        [\A r \in Requests : Placed(r) =>
            LET t == ticket'[r] IN
            \/ t.dest \notin Public
            \/ IF t.scope # None /\ t.gen # 0 THEN ~scopes'[t.scope].private
               ELSE t.ident \notin labels']_vars
  BY StepPlaces DEF PlacedPrivately
<1> QED  BY <1>1, Invariant, PTL DEF Spec, NeverPublicOnceRestricted

-----------------------------------------------------------------------------
(* What a step does to a registered session: it ends it, takes its slot    *)
(* for a new one, leaves its owner and its restriction alone, serves it a  *)
(* request, or moves the exchange that just failed.                        *)
Reclaimed(i) ==
    /\ scopes'[i].gen = generations + 1
    /\ ~scopes[i].private /\ ~scopes[i].boundary

Undisturbed(i) ==
    /\ scopes'[i].gen = scopes[i].gen /\ scopes'[i].owner = scopes[i].owner
    /\ scopes[i].private => scopes'[i].private

ServedWith(i, s, q, d, h) ==
    /\ Given(i, s, q) /\ s.kind = "registered"
    /\ d \in Chosen(s, q) /\ h \in Healthy(d, s, q)
    /\ Final(h, s, q) \in Destinations
    /\ ~Conflict(h, Final(h, s, q), h # d, s, q)
    /\ scopes'[i] = Owned(s, Final(h, s, q))

Served(i) ==
    \E q \in Queries, s \in Scope, d \in Destinations, h \in Destinations : ServedWith(i, s, q, d, h)

Retried(i) ==
    \E r \in Requests, b \in BOOLEAN :
    \E to \in FailoverTargets(ticket[r].dest, scopes[i],
                              MustBePrivate(scopes[i], ticket[r].ident), ticket[r].sensitive, b) :
        /\ ticket[r] # None /\ ticket[r].scope = i /\ ticket[r].failed
        /\ scopes'[i] = [scopes[i] EXCEPT !.owner = to]

LEMMA RegisteredSteps ==
    ASSUME Inv, Next, NEW i \in Slots, scopes[i].kind = "registered"
    PROVE  scopes'[i] = Free \/ Reclaimed(i) \/ Undisturbed(i) \/ Served(i) \/ Retried(i)
<1> DEFINE Goal == scopes'[i] = Free \/ Reclaimed(i) \/ Undisturbed(i) \/ Served(i) \/ Retried(i)
<1> HIDE DEF Goal
<1>1. DOMAIN scopes = Slots /\ scopes[i] \in Scope
  BY SlotIs DEF Inv, TypeOK
<1>2. ASSUME scopes'[i] = scopes[i]  PROVE Goal
  BY <1>2 DEF Goal, Undisturbed
<1>3. ASSUME NEW id \in Idents, Open(id)  PROVE Goal
  <2>1. PICK k \in RegisteredRoom : scopes' = [scopes EXCEPT ![k] =
            [Free EXCEPT !.kind = "registered", !.gen = generations + 1, !.ident = id]]
    BY <1>3 DEF Open
  <2>2. CASE k = i
    <3>1. scopes'[i].gen = generations + 1
      BY <1>1, <2>1, <2>2 DEF Free
    <3>2. ~scopes[i].private /\ ~scopes[i].boundary
      BY <2>1, <2>2, RoomIs DEF RegisteredRoom
    <3> QED  BY <3>1, <3>2 DEF Goal, Reclaimed
  <2>3. CASE k # i
    BY <1>1, <1>2, <2>1, <2>3
  <2> QED  BY <2>2, <2>3
<1>4. ASSUME NEW id \in Idents, Hint(id)  PROVE Goal
  BY <1>2, <1>4 DEF Hint, Bound
<1>5. ASSUME NEW k \in Slots, Close(k)  PROVE Goal
  BY <1>1, <1>2, <1>5 DEF Close, Goal
<1>6. ASSUME NEW k \in Slots, Age(k)  PROVE Goal
  <2>1. scopes'[i].gen = scopes[i].gen /\ scopes'[i].owner = scopes[i].owner
        /\ scopes'[i].private = scopes[i].private
    BY <1>1, <1>6 DEF Age, Scope
  <2> QED  BY <2>1 DEF Goal, Undisturbed
<1>7. ASSUME NEW k \in Slots, NEW restricted \in BOOLEAN, NEW accepted \in BOOLEAN,
             Ingest(k, restricted, accepted)
      PROVE  Goal
  <2>1. scopes'[i].gen = scopes[i].gen /\ scopes'[i].owner = scopes[i].owner
        /\ (scopes[i].private => scopes'[i].private)
    BY <1>1, <1>7 DEF Ingest, Scope
  <2> QED  BY <2>1 DEF Goal, Undisturbed
<1>8. ASSUME NEW r \in Requests, NEW q \in Queries, Prepare(r, q)  PROVE Goal
  <2>1. ASSUME NEW from \in SUBSET Destinations, Dispatch(r, None, Free, q, from)  PROVE Goal
    BY <1>2, <2>1 DEF Dispatch
  <2>2. ASSUME NEW k \in Slots, NEW s \in Scope, Given(k, s, q), Dispatch(r, k, s, q, Chosen(s, q))
        PROVE  Goal
    <3>1. k # None /\ Chosen(s, q) \in SUBSET Destinations
      BY GatewayAssumption, ChosenIs
    <3>2. PICK f \in Destinations :
            /\ scopes' = [scopes EXCEPT ![k] = Owned(s, f)]
            /\ \E d \in Chosen(s, q) : \E h \in Healthy(d, s, q) :
                  f = Final(h, s, q) /\ ~Conflict(h, f, h # d, s, q)
      BY <2>2, <3>1, DispatchIs
    <3>3. PICK d \in Chosen(s, q) : \E h \in Healthy(d, s, q) :
                  f = Final(h, s, q) /\ ~Conflict(h, f, h # d, s, q)
      BY <3>2
    <3>4. PICK h \in Healthy(d, s, q) : f = Final(h, s, q) /\ ~Conflict(h, f, h # d, s, q)
      BY <3>3
    <3>5. d \in Destinations /\ h \in Destinations
      BY <3>1 DEF Healthy, FailoverTargets, Destinations
    <3>6. CASE k = i
      <4>1. s.kind = "registered"
        BY <2>2, <3>6 DEF Given
      <4>2. scopes'[i] = Owned(s, f)
        BY <1>1, <3>2, <3>6
      <4>3. ServedWith(i, s, q, d, h)
        BY <2>2, <3>4, <3>6, <4>1, <4>2 DEF ServedWith
      <4> QED  BY <3>5, <4>3 DEF Goal, Served
    <3>7. CASE k # i
      BY <1>1, <1>2, <3>2, <3>7
    <3> QED  BY <3>6, <3>7
  <2>3. ASSUME NEW k \in Slots, NEW s \in Scope, Given(k, s, q), Refuse(k, s)  PROVE Goal
    <3>1. CASE k = i
      <4>1. s.gen = scopes[i].gen /\ s.owner = scopes[i].owner /\ s.private = scopes[i].private
        BY <2>3, <3>1 DEF Given
      <4> QED  BY <1>1, <2>3, <3>1, <4>1 DEF Refuse, Goal, Undisturbed
    <3>2. CASE k # i
      BY <1>1, <1>2, <2>3, <3>2 DEF Refuse
    <3> QED  BY <3>1, <3>2
  <2> QED  BY <1>8, <2>1, <2>2, <2>3, PrepareIs
<1>9. ASSUME NEW r \in Requests, NEW b \in BOOLEAN, Fail(r, b)  PROVE Goal
  BY <1>2, <1>9 DEF Fail
<1>10. ASSUME NEW r \in Requests, NEW b \in BOOLEAN, Failover(r, b)  PROVE Goal
  <2>1. PICK to \in FailoverTargets(ticket[r].dest, ScopeOf(ticket[r]),
                                    MustBePrivate(ScopeOf(ticket[r]), ticket[r].ident),
                                    ticket[r].sensitive, b) :
           scopes' = IF ticket[r].scope = None THEN scopes
                     ELSE [scopes EXCEPT ![ticket[r].scope].owner = to]
    BY <1>10 DEF Failover
  <2>2. ticket[r] # None /\ ticket[r].failed
    BY <1>10 DEF Failover
  <2>3. CASE ticket[r].scope = i
    <3>1. i # None
      BY GatewayAssumption
    <3>2. ScopeOf(ticket[r]) = scopes[i]
      BY <2>3, <3>1 DEF ScopeOf
    <3>3. scopes'[i] = [scopes[i] EXCEPT !.owner = to]
      BY <1>1, <2>1, <2>3, <3>1
    <3> QED  BY <2>1, <2>2, <2>3, <3>2, <3>3 DEF Goal, Retried
  <2>4. CASE ticket[r].scope # i
    BY <1>1, <1>2, <2>1, <2>4
  <2> QED  BY <2>3, <2>4
<1>11. ASSUME NEW r \in Requests, NEW o \in Outcomes, Finish(r, o)  PROVE Goal
  <2>1. CASE ticket[r].scope = i
    <3>1. scopes'[i] = Settled(scopes[i], o)
      BY <1>1, <1>11, <2>1, GatewayAssumption DEF Finish
    <3>2. LET e == Settled(scopes[i], o) IN
          e.gen = scopes[i].gen /\ e.owner = scopes[i].owner /\ e.private = scopes[i].private
      BY <1>1, SettledIs
    <3> QED  BY <3>1, <3>2 DEF Goal, Undisturbed
  <2>2. CASE ticket[r].scope # i
    BY <1>1, <1>2, <1>11, <2>2 DEF Finish
  <2> QED  BY <2>1, <2>2
<1>12. ASSUME NEW c \in Candidates, Recover(c)  PROVE Goal
  BY <1>2, <1>12 DEF Recover
<1> QED
  BY <1>3, <1>4, <1>5, <1>6, <1>7, <1>8, <1>9, <1>10, <1>11, <1>12 DEF Next, Goal

(* A request served leaves the session its generation and restriction.     *)
LEMMA ServedIs ==
    ASSUME Inv, NEW i \in Slots, scopes[i].kind = "registered",
           NEW q \in Queries, NEW s \in Scope, NEW d, NEW h, ServedWith(i, s, q, d, h)
    PROVE  /\ s # Free
           /\ s.gen = scopes[i].gen /\ s.owner = scopes[i].owner /\ s.private = scopes[i].private
           /\ scopes[i].pinned => s.pinned
           /\ scopes'[i].gen = s.gen /\ scopes'[i].owner = Final(h, s, q)
           /\ scopes'[i].private = s.private /\ scopes'[i].tooled = s.tooled
<1>1. /\ s.gen = scopes[i].gen /\ s.owner = scopes[i].owner /\ s.private = scopes[i].private
      /\ scopes[i].pinned => s.pinned
      /\ s # Free
  BY FreeIs DEF ServedWith, Given
<1>2. Final(h, s, q) \in Destinations /\ scopes'[i] = Owned(s, Final(h, s, q))
  BY DEF ServedWith
<1>3. LET o == Owned(s, Final(h, s, q)) IN
      /\ o.gen = s.gen /\ o.owner = Final(h, s, q) /\ o.private = s.private /\ o.tooled = s.tooled
  BY <1>2, OwnedIs
<1> QED  BY <1>1, <1>2, <1>3

(* Evidence-born authority and an unanswered tool boundary are never       *)
(* reclaimed: a full table refuses the new session instead.                *)
THEOREM AuthorityIsKept == Spec => AuthoritySurvives
<1>1. ASSUME Inv, Next, NEW i \in Slots, scopes[i].kind = "registered",
             scopes[i].private \/ scopes[i].boundary
      PROVE  \/ scopes'[i] = Free
             \/ /\ scopes'[i].gen = scopes[i].gen
                /\ scopes[i].private => scopes'[i].private
  <2>1. ASSUME Served(i)
        PROVE  scopes'[i].gen = scopes[i].gen /\ (scopes[i].private => scopes'[i].private)
    <3>1. PICK q \in Queries, s \in Scope, d \in Destinations, h \in Destinations :
              ServedWith(i, s, q, d, h)
      BY <2>1 DEF Served
    <3> QED  BY <1>1, <3>1, ServedIs
  <2>2. ASSUME Retried(i)
        PROVE  scopes'[i].gen = scopes[i].gen /\ (scopes[i].private => scopes'[i].private)
    <3>1. scopes[i] \in Scope
      BY <1>1, SlotIs DEF Inv
    <3> QED  BY <2>2, <3>1 DEF Retried, Scope
  <2> QED  BY <1>1, <2>1, <2>2, RegisteredSteps DEF Reclaimed, Undisturbed
<1>2. Inv /\ [Next]_vars =>
        [\A i \in OfKind("registered") : scopes[i].private \/ scopes[i].boundary =>
            \/ scopes'[i] = Free
            \/ /\ scopes'[i].gen = scopes[i].gen
               /\ scopes[i].private => scopes'[i].private]_vars
  BY <1>1 DEF OfKind
<1> QED  BY <1>2, Invariant, PTL DEF Spec, AuthoritySurvives

(* A session that moved did so in a dispatch or in a retry.                *)
LEMMA MovesAre ==
    ASSUME Inv, Next, NEW i \in Slots, Moved(i)
    PROVE  /\ scopes[i].kind = "registered" /\ scopes[i].owner # None
           /\ scopes'[i].owner # scopes[i].owner
           /\ Served(i) \/ Retried(i)
<1>1. /\ scopes[i].gen # 0 /\ scopes'[i].gen = scopes[i].gen
      /\ scopes[i].owner # None /\ scopes'[i].owner # scopes[i].owner
  BY DEF Moved, Same
<1>2. scopes[i].kind = "registered"
  BY <1>1 DEF Inv, Kinds
<1>3. scopes'[i] # Free
  BY <1>1, FreeIs
<1>4. ~Reclaimed(i)
  <2>1. scopes[i].gen <= generations /\ generations \in Nat
    BY DEF Inv, Kinds, TypeOK
  <2>2. scopes[i].gen \in Nat
    BY SlotIs DEF Inv, Scope
  <2> QED  BY <1>1, <2>1, <2>2 DEF Reclaimed
<1> QED  BY <1>1, <1>2, <1>3, <1>4, RegisteredSteps DEF Undisturbed

(* A pinned session leaves its owner only because the owner is cooling or  *)
(* has just failed this exchange: every other redirection is a conflict    *)
(* and is refused.                                                         *)
THEOREM PinsHold == Spec => PinnedMovesOnlyOffFailure
<1>1. ASSUME Inv, Next, NEW i \in Slots, Moved(i), scopes[i].pinned
      PROVE  \/ scopes[i].owner \in cooling
             \/ \E r \in Requests : ticket[r] # None /\ ticket[r].scope = i /\ ticket[r].failed
  <2>1. /\ scopes[i].kind = "registered" /\ scopes[i].owner # None
        /\ scopes'[i].owner # scopes[i].owner
        /\ Served(i) \/ Retried(i)
    BY <1>1, MovesAre
  <2>2. ASSUME Served(i)  PROVE scopes[i].owner \in cooling
    <3>1. PICK q \in Queries, s \in Scope, d \in Destinations, h \in Destinations :
              ServedWith(i, s, q, d, h)
      BY <2>2 DEF Served
    <3>2. /\ s # Free /\ s.pinned /\ s.owner = scopes[i].owner /\ s.owner # None
          /\ Final(h, s, q) # s.owner
      BY <1>1, <2>1, <3>1, ServedIs
    <3>3. h # d
      BY <3>1, <3>2 DEF ServedWith, Conflict
    <3>4. q.automatic /\ d \in cooling
      BY <3>1, <3>3 DEF ServedWith, Healthy
    <3>5. d = s.owner
      BY <3>1, <3>2, <3>4 DEF ServedWith, Chosen
    <3> QED  BY <3>2, <3>4, <3>5
  <2> QED  BY <2>1, <2>2 DEF Retried
<1>2. Inv /\ [Next]_vars =>
        [\A i \in Slots : Moved(i) /\ scopes[i].pinned =>
            \/ scopes[i].owner \in cooling
            \/ \E r \in Requests : ticket[r] # None /\ ticket[r].scope = i /\ ticket[r].failed]_vars
  BY <1>1
<1> QED  BY <1>2, Invariant, PTL DEF Spec, PinnedMovesOnlyOffFailure

(* A session with requirements moves only to a candidate that declares     *)
(* them or to the baseline: selection and failover look at the             *)
(* requirements, and a private redirection of such a session is refused.   *)
THEOREM ToolsAreKept == Spec => ToolsNeverStranded
<1>1. ASSUME Inv, Next, NEW i \in Slots, Moved(i), scopes'[i].tooled
      PROVE  scopes'[i].owner \in Declaring \cup {Baseline}
  <2>1. /\ scopes[i].kind = "registered" /\ scopes[i].owner # None
        /\ scopes'[i].owner # scopes[i].owner
        /\ Served(i) \/ Retried(i)
    BY <1>1, MovesAre
  <2>2. CASE Served(i)
    <3>1. PICK q \in Queries, s \in Scope, d \in Destinations, h \in Destinations :
              ServedWith(i, s, q, d, h)
      BY <2>2 DEF Served
    <3>2. /\ s # Free /\ s.tooled /\ s.owner # None /\ Final(h, s, q) # s.owner
          /\ scopes'[i].owner = Final(h, s, q)
      BY <1>1, <2>1, <3>1, ServedIs
    <3>3. q.automatic /\ Final(h, s, q) = h
      BY <3>1, <3>2 DEF ServedWith, Conflict
    <3>4. CASE h = d
      <4>1. h \in Selectable(s, q)
        BY <3>1, <3>2, <3>3, <3>4 DEF ServedWith, Chosen
      <4> QED  BY <3>2, <3>3, <4>1 DEF Selectable, Quoted, Compliant, Declares
    <3>5. CASE h # d
      <4>1. h # Baseline => Declares(h, s)
        BY <3>1, <3>5 DEF ServedWith, Healthy, FailoverTargets
      <4> QED  BY <3>2, <3>3, <4>1 DEF Declares
    <3> QED  BY <3>4, <3>5
  <2>3. CASE Retried(i)
    <3>1. PICK r \in Requests, b \in BOOLEAN :
            \E to \in FailoverTargets(ticket[r].dest, scopes[i],
                           MustBePrivate(scopes[i], ticket[r].ident), ticket[r].sensitive, b) :
                scopes'[i] = [scopes[i] EXCEPT !.owner = to]
      BY <2>3 DEF Retried
    <3>2. PICK to : /\ to # Baseline => Declares(to, scopes[i])
                    /\ scopes'[i] = [scopes[i] EXCEPT !.owner = to]
      BY <3>1 DEF FailoverTargets
    <3>3. scopes'[i].owner = to /\ scopes'[i].tooled = scopes[i].tooled
      BY <1>1, <3>2, SlotIs DEF Inv, Scope
    <3> QED  BY <1>1, <3>2, <3>3 DEF Declares
  <2> QED  BY <2>1, <2>2, <2>3
<1>2. Inv /\ [Next]_vars =>
        [\A i \in Slots : Moved(i) /\ scopes'[i].tooled =>
            scopes'[i].owner \in Declaring \cup {Baseline}]_vars
  BY <1>1
<1> QED  BY <1>2, Invariant, PTL DEF Spec, ToolsNeverStranded
=============================================================================
