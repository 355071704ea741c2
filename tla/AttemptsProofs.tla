--------------------------- MODULE AttemptsProofs ---------------------------
(***************************************************************************)
(* Theorems about the ingress attempt ledger, for every set of keys, table *)
(* size, lifetime and width of the clock and of the serial.                *)
(***************************************************************************)
EXTENDS Attempts, FiniteSetTheorems, TLAPS

\* Reclaiming only removes rows, so it never makes the table larger.
LEMMA PressedShrinks ==
    ASSUME TypeOK, NEW t
    PROVE  /\ Pressed(t) \subseteq rows
           /\ IsFiniteSet(Pressed(t))
           /\ Cardinality(Pressed(t)) \in Nat
           /\ Cardinality(Pressed(t)) <= Capacity
<1>1. Pressed(t) \subseteq rows
  BY DEF Pressed, Reclaimed
<1>2. IsFiniteSet(Pressed(t)) /\ Cardinality(Pressed(t)) <= Cardinality(rows)
  BY <1>1, FS_Subset DEF TypeOK
<1>3. Cardinality(rows) \in Nat /\ Cardinality(Pressed(t)) \in Nat
  BY <1>2, FS_CardinalityType DEF TypeOK
<1> QED
  BY <1>1, <1>2, <1>3, AttemptsAssumption DEF TypeOK

\* A row replaced by an updated row, one for one, keeps the table its size.
LEMMA UpdateKeepsSize ==
    ASSUME TypeOK, NEW f \in [rows -> Row]
    PROVE  LET T == {f[r] : r \in rows}
           IN  IsFiniteSet(T) /\ Cardinality(T) <= Capacity
<1> DEFINE T == {f[r] : r \in rows}
<1>1. f \in Surjection(rows, T)
  BY DEF Surjection
<1>2. IsFiniteSet(T) /\ Cardinality(T) <= Cardinality(rows)
  BY <1>1, FS_Surjection DEF TypeOK
<1>3. Cardinality(rows) \in Nat /\ Cardinality(T) \in Nat
  BY <1>2, FS_CardinalityType DEF TypeOK
<1> QED
  BY <1>2, <1>3, AttemptsAssumption DEF TypeOK

\* The loss window is a tick, and losing one never shortens it.
LEMMA LoseWindowStep ==
    ASSUME TypeOK, NEW t \in Ticks, LoseWindow(t)
    PROVE  /\ lost' \in BOOLEAN
           /\ lostUntil' \in Nat
           /\ lostUntil' >= lostUntil
           /\ lost => lost'
           /\ ~lost' => lostUntil' >= t + TTL
<1>1. CASE WindowOverflows(t)
  <2>1. lost' = TRUE /\ lostUntil' = lostUntil
    BY <1>1 DEF LoseWindow
  <2> QED
    BY <2>1 DEF TypeOK
<1>2. CASE ~WindowOverflows(t)
  <2>1. /\ lostUntil' = IF t + TTL > lostUntil THEN t + TTL ELSE lostUntil
        /\ lost' = lost
    BY <1>2 DEF LoseWindow
  <2>2. lostUntil' \in Nat /\ lostUntil' >= lostUntil /\ lostUntil' >= t + TTL
    BY <2>1, AttemptsAssumption DEF TypeOK, Ticks
  <2> QED
    BY <2>1, <2>2 DEF TypeOK
<1> QED
  BY <1>1, <1>2

-----------------------------------------------------------------------------
LEMMA TypeInit == Init => TypeOK
<1> SUFFICES ASSUME Init PROVE TypeOK
  OBVIOUS
<1>1. IsFiniteSet(rows) /\ Cardinality(rows) <= Capacity
  BY FS_EmptySet, AttemptsAssumption DEF Init
<1>2. serial \in 0 .. MaxSerial /\ now \in Nat /\ lostUntil \in Nat
  BY AttemptsAssumption DEF Init
<1> QED
  BY <1>1, <1>2 DEF Init, TypeOK

LEMMA TypeStep == TypeOK /\ [Next]_vars => TypeOK'
<1> SUFFICES ASSUME TypeOK, [Next]_vars PROVE TypeOK'
  OBVIOUS
<1> USE AttemptsAssumption
<1>1. CASE Lose
  BY <1>1 DEF Lose, TypeOK
<1>2. ASSUME NEW t \in Ticks, NEW k \in Keys, BeginExhausted(k, t)
      PROVE TypeOK'
  BY <1>2 DEF BeginExhausted, Record, Attempt, Ticks, TypeOK
<1>3. ASSUME NEW t \in Ticks, NEW k \in Keys, BeginClockBack(k, t)
      PROVE TypeOK'
  BY <1>3 DEF BeginClockBack, ClockBack, Record, Attempt, Ticks, TypeOK
<1>4. ASSUME NEW t \in Ticks, NEW k \in Keys, BeginOverflow(k, t)
      PROVE TypeOK'
  BY <1>4 DEF BeginOverflow, Clock, Record, Attempt, Ticks, TypeOK
<1>5. ASSUME NEW t \in Ticks, BeginUnattributed(t)
      PROVE TypeOK'
  <2>1. lost' \in BOOLEAN /\ lostUntil' \in Nat
    BY <1>5, LoseWindowStep DEF BeginUnattributed
  <2> QED
    BY <1>5, <2>1 DEF BeginUnattributed, Clock, Record, Attempt, Ticks, TypeOK
<1>6. ASSUME NEW t \in Ticks, NEW k \in Keys, BeginFull(k, t)
      PROVE TypeOK'
  <2>1. lost' \in BOOLEAN /\ lostUntil' \in Nat
    BY <1>6, LoseWindowStep DEF BeginFull
  <2>2. rows' \subseteq Row /\ IsFiniteSet(rows') /\ Cardinality(rows') <= Capacity
    BY <1>6, PressedShrinks DEF BeginFull, TypeOK
  <2> QED
    BY <1>6, <2>1, <2>2 DEF BeginFull, Clock, Record, Attempt, Ticks, TypeOK
<1>7. ASSUME NEW t \in Ticks, NEW k \in Keys, BeginTracked(k, t)
      PROVE TypeOK'
  <2> DEFINE new == NewRow(k, t, serial + 1)
  <2>1. /\ IsFiniteSet(Pressed(t) \cup {new})
        /\ \/ Cardinality(Pressed(t) \cup {new}) = Cardinality(Pressed(t))
           \/ Cardinality(Pressed(t) \cup {new}) = Cardinality(Pressed(t)) + 1
    BY PressedShrinks, FS_AddElement
  <2>2. Cardinality(rows') <= Capacity /\ IsFiniteSet(rows')
    BY <1>7, <2>1, PressedShrinks DEF BeginTracked
  <2>3. new \in Row
    BY DEF NewRow, Row, Ticks, TypeOK
  <2>4. rows' \subseteq Row
    BY <1>7, <2>3, PressedShrinks DEF BeginTracked, TypeOK
  <2> QED
    BY <1>7, <2>2, <2>4 DEF BeginTracked, Clock, Record, Attempt, Ticks, TypeOK
<1>8. ASSUME NEW t \in Ticks, NEW s \in 1 .. MaxSerial, NEW complete \in BOOLEAN,
             Finish(s, complete, t)
      PROVE TypeOK'
  <2> DEFINE f == [r \in rows |-> IF r.serial = s THEN Finished(r, complete, t) ELSE r]
  <2>1. \A r \in rows : Finished(r, complete, t) \in Row
    BY DEF Finished, Row, TypeOK
  <2>2. f \in [rows -> Row]
    BY <2>1 DEF TypeOK
  <2>3. rows' = {f[r] : r \in rows}
    BY <1>8 DEF Finish
  <2>4. rows' \subseteq Row
    BY <2>2, <2>3
  <2>5. IsFiniteSet(rows') /\ Cardinality(rows') <= Capacity
    BY <2>2, <2>3, UpdateKeepsSize
  <2> QED
    BY <1>8, <2>4, <2>5 DEF Finish, Clock, Ticks, TypeOK
<1>9. ASSUME NEW t \in Ticks, NEW k \in Keys, SourceComplete(k, t)
      PROVE TypeOK'
  <2> DEFINE f == [r \in rows |-> Sourced(r, k, t)]
  <2>1. \A r \in rows : Sourced(r, k, t) \in Row
    BY DEF Sourced, Row, TypeOK
  <2>2. f \in [rows -> Row]
    BY <2>1
  <2>3. rows' = {f[r] : r \in rows}
    BY <1>9 DEF SourceComplete
  <2>4. rows' \subseteq Row
    BY <2>2, <2>3
  <2>5. IsFiniteSet(rows') /\ Cardinality(rows') <= Capacity
    BY <2>2, <2>3, UpdateKeepsSize
  <2> QED
    BY <1>9, <2>4, <2>5 DEF SourceComplete, Clock, Ticks, TypeOK
<1>10. ASSUME NEW t \in Ticks, CapacityCheck(t)
       PROVE TypeOK'
  BY <1>10, PressedShrinks DEF CapacityCheck, Clock, Ticks, TypeOK
<1>11. ASSUME NEW t \in Ticks, Get(t)
       PROVE TypeOK'
  BY <1>11 DEF Get, Clock, Ticks, TypeOK
<1>12. ASSUME NEW t \in Ticks, CallClockBack(t)
       PROVE TypeOK'
  BY <1>12 DEF CallClockBack, ClockBack, TypeOK
<1>13. ASSUME NEW t \in Ticks, LoseAt(t)
       PROVE TypeOK'
  <2>1. lost' \in BOOLEAN /\ lostUntil' \in Nat
    BY <1>13, LoseWindowStep DEF LoseAt
  <2> QED
    BY <1>13, <2>1 DEF LoseAt, Clock, Record, Attempt, Ticks, TypeOK
<1>14. CASE UNCHANGED vars
  BY <1>14 DEF vars, TypeOK
<1> QED
  BY <1>1, <1>2, <1>3, <1>4, <1>5, <1>6, <1>7, <1>8, <1>9, <1>10, <1>11, <1>12,
     <1>13, <1>14 DEF Next, Begin

\* The table never holds more rows than it was created with, and every value
\* keeps its range, whatever calls are made (attempts.c:109-139).
THEOREM TypeCorrect == Spec => []TypeOK
  BY TypeInit, TypeStep, PTL DEF Spec

-----------------------------------------------------------------------------
(* The inductive invariant.  The argument has three parts: the identity of *)
(* a row never changes, the account of an old attempt survives every step  *)
(* (KeptAccount), and each step accounts for the attempt it adds.          *)

\* Two rows stand for the same attempt.
SameRow(q, r) == q.key = r.key /\ q.serial = r.serial /\ q.begun = r.begun

\* After a step every row is an old one or one begun at this tick, and an old
\* row that is gone was reclaimable.
RowsFollow ==
    /\ \A q \in rows' : (\E r \in rows : SameRow(q, r)) \/ q.begun = now'
    /\ \A r \in rows : (\E q \in rows' : SameRow(q, r)) \/ Reclaimable(r, now')

LEMMA KeptAccount ==
    ASSUME IInv, TypeOK', RowsFollow, now' >= now, lostUntil' >= lostUntil,
           ~lost, NEW a \in accepted
    PROVE  a.begun <= now' /\ (Retained(a)' \/ Windowed(a)' \/ Outlived(a)')
<1> USE AttemptsAssumption
<1>1. a.begun \in Nat /\ a.begun <= now /\ a.key \in Keys \cup {NoKey} /\ a.serial \in Nat
  BY DEF IInv, Accounted, TypeOK, Attempt
<1>2. a.begun <= now'
  BY <1>1 DEF IInv, TypeOK
<1>3. CASE Windowed(a)
  BY <1>1, <1>2, <1>3 DEF Windowed, IInv, TypeOK
<1>4. CASE Outlived(a)
  <2>1. a.key # NoKey /\ a.begun + TTL <= now'
    BY <1>1, <1>4 DEF Outlived, IInv, TypeOK
  <2>2. ASSUME NEW q \in rows', LiveAt(q, now'), q.key = a.key
        PROVE  q.begun >= a.begun + TTL
    <3>1. CASE q.begun = now'
      BY <2>1, <3>1
    <3>2. ASSUME NEW r \in rows, SameRow(q, r)
          PROVE  q.begun >= a.begun + TTL
      <4>1. LiveAt(r, now)
        BY <2>2, <3>2 DEF LiveAt, Expires, SameRow, IInv, TypeOK, Row
      <4> QED
        BY <1>4, <2>2, <3>2, <4>1 DEF Outlived, LiveRows, SameRow
    <3> QED
      BY <3>1, <3>2 DEF RowsFollow
  <2> QED
    BY <1>2, <2>1, <2>2 DEF Outlived, LiveRows, LiveAt, Expires
<1>5. CASE Retained(a)
  <2>1. PICK r \in rows : SameAttempt(a, r)
    BY <1>5 DEF Retained
  <2> DEFINE b == [key |-> r.key, serial |-> r.serial, begun |-> r.begun]
  <2>2. a.begun = r.begun
    <3>1. b \in accepted /\ r.serial > 0
      BY DEF IInv, RowsRecorded
    <3>2. a.serial = b.serial /\ a.serial > 0
      BY <2>1, <3>1 DEF SameAttempt
    <3>3. a = b
      BY <3>1, <3>2 DEF IInv, SerialsDistinct
    <3> QED
      BY <3>3
  <2>3. CASE \E q \in rows' : SameRow(q, r)
    BY <1>2, <2>1, <2>3 DEF Retained, SameAttempt, SameRow
  <2>4. CASE Reclaimable(r, now')
    <3>1. a.key # NoKey /\ a.begun + TTL <= now'
      BY <2>1, <2>2, <2>4 DEF Reclaimable, LiveAt, Expires, SameAttempt, IInv, TypeOK, Row
    <3>2. ASSUME NEW q \in rows', LiveAt(q, now'), q.key = a.key
          PROVE  q.begun >= a.begun + TTL
      <4>1. CASE q.begun = now'
        BY <3>1, <4>1
      <4>2. ASSUME NEW p \in rows, SameRow(q, p)
            PROVE  FALSE
        BY <2>1, <2>4, <3>2, <4>2 DEF Reclaimable, LiveAt, Expires, SameRow, SameAttempt
      <4> QED
        BY <4>1, <4>2 DEF RowsFollow
    <3> QED
      BY <1>2, <3>1, <3>2 DEF Outlived, LiveRows, LiveAt, Expires
  <2> QED
    BY <2>3, <2>4 DEF RowsFollow
<1> QED
  BY <1>3, <1>4, <1>5 DEF IInv, Accounted

\* What the identities need of a step that gives out no serial.
LEMMA KeptIdentity ==
    ASSUME IInv, TypeOK', now' >= now, serial' = serial, accepted \subseteq accepted',
           \A q \in rows' : \E r \in rows : SameRow(q, r),
           \A p, q \in rows' : p.serial = q.serial => p = q,
           \A a \in accepted' : a \in accepted \/ a.serial = 0
    PROVE  RowsRecorded' /\ SerialsDistinct'
<1>1. RowsRecorded'
  <2> SUFFICES ASSUME NEW q \in rows'
               PROVE  /\ q.serial > 0
                      /\ q.begun <= now'
                      /\ [key |-> q.key, serial |-> q.serial, begun |-> q.begun] \in accepted'
    BY DEF RowsRecorded
  <2>1. PICK r \in rows : SameRow(q, r)
    OBVIOUS
  <2> QED
    BY <2>1 DEF SameRow, IInv, RowsRecorded, TypeOK, Row
<1>2. SerialsDistinct'
  <2>1. \A a \in accepted' : a.serial <= serial'
    BY AttemptsAssumption DEF IInv, SerialsDistinct, TypeOK
  <2>2. \A a, b \in accepted' : a.serial = b.serial /\ a.serial > 0 => a = b
    BY DEF IInv, SerialsDistinct
  <2> QED
    BY <2>1, <2>2 DEF SerialsDistinct
<1> QED
  BY <1>1, <1>2

\* A step that adds no attempt and only updates or reclaims rows.
LEMMA QuietStep ==
    ASSUME IInv, TypeOK', now' >= now, serial' = serial, accepted' = accepted,
           lostUntil' = lostUntil, lost' = lost,
           \A q \in rows' : \E r \in rows : SameRow(q, r),
           \A r \in rows : (\E q \in rows' : SameRow(q, r)) \/ Reclaimable(r, now'),
           \A p, q \in rows' : p.serial = q.serial => p = q
    PROVE  IInv'
<1>1. RowsRecorded' /\ SerialsDistinct'
  BY KeptIdentity
<1>2. RowsFollow
  BY DEF RowsFollow
<1>3. Accounted'
  <2> SUFFICES ASSUME ~lost, NEW a \in accepted
               PROVE  a.begun <= now' /\ (Retained(a)' \/ Windowed(a)' \/ Outlived(a)')
    BY DEF Accounted
  <2> QED
    BY <1>2, KeptAccount DEF IInv, TypeOK
<1> QED
  BY <1>1, <1>3 DEF IInv

\* Reclaiming keeps the identity of every row it keeps.
LEMMA PressedFollows ==
    ASSUME IInv, NEW t
    PROVE  /\ \A q \in Pressed(t) : q \in rows
           /\ \A r \in rows : r \in Pressed(t) \/ Reclaimable(r, t)
           /\ \A p, q \in Pressed(t) : p.serial = q.serial => p = q
  BY DEF Pressed, Reclaimed, IInv, SerialsDistinct

\* What the identities need of a step that gives attempt (k, t) the next serial
\* and keeps at most the old rows.
LEMMA IssuedIdentity ==
    ASSUME IInv, TypeOK', now' >= now, serial' = serial + 1,
           NEW k \in Keys \cup {NoKey}, NEW t \in Ticks, Record(k, t, serial + 1),
           rows' \subseteq rows
    PROVE  RowsRecorded' /\ SerialsDistinct'
<1>1. RowsRecorded'
  <2> SUFFICES ASSUME NEW q \in rows'
               PROVE  /\ q.serial > 0
                      /\ q.begun <= now'
                      /\ [key |-> q.key, serial |-> q.serial, begun |-> q.begun] \in accepted'
    BY DEF RowsRecorded
  <2>1. q \in rows /\ q.begun \in Nat /\ now \in Nat /\ now' \in Nat
    BY DEF IInv, TypeOK, Row
  <2> QED
    BY <2>1 DEF IInv, RowsRecorded, Record
<1>2. \A a \in accepted' : a.serial <= serial'
  BY DEF IInv, SerialsDistinct, Record, TypeOK, Attempt
<1>3. \A a, b \in accepted' : a.serial = b.serial /\ a.serial > 0 => a = b
  <2>1. \A a \in accepted : a.serial # serial + 1
    BY DEF IInv, SerialsDistinct, TypeOK, Attempt
  <2> QED
    BY <2>1 DEF IInv, SerialsDistinct, Record
<1>4. \A r, q \in rows' : r.serial = q.serial => r = q
  BY DEF IInv, SerialsDistinct
<1> QED
  BY <1>1, <1>2, <1>3, <1>4 DEF SerialsDistinct

LEMMA InvInit == Init => IInv
<1> SUFFICES ASSUME Init PROVE IInv
  OBVIOUS
<1>1. TypeOK
  BY TypeInit
<1>2. RowsRecorded /\ SerialsDistinct /\ Accounted
  BY DEF Init, RowsRecorded, SerialsDistinct, Accounted
<1> QED
  BY <1>1, <1>2 DEF IInv

LEMMA InvStep == IInv /\ [Next]_vars => IInv'
<1> SUFFICES ASSUME IInv, [Next]_vars PROVE IInv'
  OBVIOUS
<1>t. TypeOK /\ TypeOK'
  BY TypeStep DEF IInv
<1> USE AttemptsAssumption
<1>1. CASE Lose
  <2>1. RowsRecorded' /\ SerialsDistinct'
    BY <1>1 DEF Lose, IInv, RowsRecorded, SerialsDistinct
  <2> QED
    BY <1>1, <1>t, <2>1 DEF Lose, IInv, Accounted
<1>2. ASSUME NEW t \in Ticks, NEW k \in Keys, BeginExhausted(k, t)
      PROVE IInv'
  <2>1. \A q \in rows' : \E r \in rows : SameRow(q, r)
    BY <1>2 DEF BeginExhausted, SameRow
  <2>2. \A a \in accepted' : a \in accepted \/ a.serial = 0
    BY <1>2 DEF BeginExhausted, Record
  <2>3. RowsRecorded' /\ SerialsDistinct'
    BY <1>2, <1>t, <2>1, <2>2, KeptIdentity
       DEF BeginExhausted, Record, IInv, SerialsDistinct, TypeOK
  <2> QED
    BY <1>2, <1>t, <2>3 DEF BeginExhausted, IInv, Accounted
<1>3. ASSUME NEW t \in Ticks, NEW k \in Keys, BeginClockBack(k, t)
      PROVE IInv'
  <2>1. RowsRecorded' /\ SerialsDistinct'
    BY <1>3, <1>t, IssuedIdentity DEF BeginClockBack, ClockBack, TypeOK
  <2> QED
    BY <1>3, <1>t, <2>1 DEF BeginClockBack, ClockBack, IInv, Accounted
<1>4. ASSUME NEW t \in Ticks, NEW k \in Keys, BeginOverflow(k, t)
      PROVE IInv'
  <2>1. RowsRecorded' /\ SerialsDistinct'
    BY <1>4, <1>t, IssuedIdentity DEF BeginOverflow, Clock, TypeOK
  <2> QED
    BY <1>4, <1>t, <2>1 DEF BeginOverflow, IInv, Accounted
<1>5. ASSUME NEW t \in Ticks, BeginUnattributed(t)
      PROVE IInv'
  <2>1. RowsRecorded' /\ SerialsDistinct'
    BY <1>5, <1>t, IssuedIdentity DEF BeginUnattributed, Clock, TypeOK
  <2>2. RowsFollow
    BY <1>5 DEF BeginUnattributed, RowsFollow, SameRow
  <2>3. Accounted'
    <3> SUFFICES ASSUME ~lost', NEW a \in accepted'
                 PROVE  a.begun <= now' /\ (Retained(a)' \/ Windowed(a)' \/ Outlived(a)')
      BY DEF Accounted
    <3>1. ~lost /\ lostUntil' >= lostUntil /\ lostUntil' >= t + TTL
      BY <1>5, <1>t, LoseWindowStep DEF BeginUnattributed
    <3>2. CASE a \in accepted
      BY <1>5, <1>t, <2>2, <3>1, <3>2, KeptAccount DEF BeginUnattributed, Clock
    <3>3. CASE a.begun = t
      BY <1>5, <3>1, <3>3 DEF BeginUnattributed, Clock, Windowed, Ticks
    <3> QED
      BY <1>5, <3>2, <3>3 DEF BeginUnattributed, Record
  <2> QED
    BY <1>t, <2>1, <2>3 DEF IInv
<1>6. ASSUME NEW t \in Ticks, NEW k \in Keys, BeginFull(k, t)
      PROVE IInv'
  <2>1. rows' \subseteq rows
    BY <1>6, <1>t, PressedShrinks DEF BeginFull
  <2>2. RowsRecorded' /\ SerialsDistinct'
    BY <1>6, <1>t, <2>1, IssuedIdentity DEF BeginFull, Clock, TypeOK
  <2>3. RowsFollow
    BY <1>6, <2>1, PressedFollows DEF BeginFull, Clock, RowsFollow, SameRow
  <2>4. Accounted'
    <3> SUFFICES ASSUME ~lost', NEW a \in accepted'
                 PROVE  a.begun <= now' /\ (Retained(a)' \/ Windowed(a)' \/ Outlived(a)')
      BY DEF Accounted
    <3>1. ~lost /\ lostUntil' >= lostUntil /\ lostUntil' >= t + TTL
      BY <1>6, <1>t, LoseWindowStep DEF BeginFull
    <3>2. CASE a \in accepted
      BY <1>6, <1>t, <2>3, <3>1, <3>2, KeptAccount DEF BeginFull, Clock
    <3>3. CASE a.begun = t
      BY <1>6, <3>1, <3>3 DEF BeginFull, Clock, Windowed, Ticks
    <3> QED
      BY <1>6, <3>2, <3>3 DEF BeginFull, Record
  <2> QED
    BY <1>t, <2>2, <2>4 DEF IInv
<1>7. ASSUME NEW t \in Ticks, NEW k \in Keys, BeginTracked(k, t)
      PROVE IInv'
  <2> DEFINE new == NewRow(k, t, serial + 1)
  <2>1. /\ now' = t /\ t >= now /\ serial' = serial + 1
        /\ rows' = Pressed(t) \cup {new}
        /\ accepted' = accepted \cup {[key |-> k, serial |-> serial + 1, begun |-> t]}
        /\ lost' = lost /\ lostUntil' = lostUntil
    BY <1>7 DEF BeginTracked, Clock, Record
  <2>2. new.key = k /\ new.serial = serial + 1 /\ new.begun = t
    BY DEF NewRow
  <2>3. serial \in Nat /\ now \in Nat /\ t \in Nat
    BY <1>t DEF TypeOK, Ticks
  <2>4. RowsRecorded'
    <3> SUFFICES ASSUME NEW q \in rows'
                 PROVE  /\ q.serial > 0
                        /\ q.begun <= now'
                        /\ [key |-> q.key, serial |-> q.serial, begun |-> q.begun] \in accepted'
      BY DEF RowsRecorded
    <3>1. CASE q \in rows
      BY <1>t, <2>1, <2>3, <3>1 DEF IInv, RowsRecorded, TypeOK, Row
    <3>2. CASE q = new
      BY <2>1, <2>2, <2>3, <3>2
    <3> QED
      BY <2>1, <3>1, <3>2, PressedFollows
  <2>5. \A a \in accepted : a.serial # serial + 1 /\ a.serial <= serial + 1
    BY <1>t, <2>3 DEF IInv, SerialsDistinct, TypeOK, Attempt
  <2>6. \A r \in rows : r.serial # serial + 1
    <3> TAKE r \in rows
    <3> DEFINE b == [key |-> r.key, serial |-> r.serial, begun |-> r.begun]
    <3>1. b \in accepted
      BY DEF IInv, RowsRecorded
    <3> QED
      BY <2>5, <3>1
  <2>7. SerialsDistinct'
    <3>1. \A a \in accepted' : a.serial <= serial'
      BY <2>1, <2>3, <2>5
    <3>2. \A a, b \in accepted' : a.serial = b.serial /\ a.serial > 0 => a = b
      BY <2>1, <2>5 DEF IInv, SerialsDistinct
    <3>3. \A r, q \in rows' : r.serial = q.serial => r = q
      BY <2>1, <2>2, <2>6, PressedFollows
    <3> QED
      BY <3>1, <3>2, <3>3 DEF SerialsDistinct
  <2>8. RowsFollow
    BY <2>1, <2>2, PressedFollows DEF RowsFollow, SameRow
  <2>9. Accounted'
    <3> SUFFICES ASSUME ~lost', NEW a \in accepted'
                 PROVE  a.begun <= now' /\ (Retained(a)' \/ Windowed(a)' \/ Outlived(a)')
      BY DEF Accounted
    <3>1. CASE a \in accepted
      BY <1>t, <2>1, <2>8, <3>1, KeptAccount DEF TypeOK
    <3>2. CASE a = [key |-> k, serial |-> serial + 1, begun |-> t]
      BY <2>1, <2>2, <2>3, <3>2 DEF Retained, SameAttempt
    <3> QED
      BY <2>1, <3>1, <3>2
  <2> QED
    BY <1>t, <2>4, <2>7, <2>9 DEF IInv
<1>8. ASSUME NEW t \in Ticks, NEW s \in 1 .. MaxSerial, NEW complete \in BOOLEAN,
             Finish(s, complete, t)
      PROVE IInv'
  <2> DEFINE f(r) == IF r.serial = s THEN Finished(r, complete, t) ELSE r
  <2>1. \A r \in rows : SameRow(f(r), r)
    BY <1>t DEF SameRow, Finished, TypeOK, Row
  <2>2. rows' = {f(r) : r \in rows}
    BY <1>8 DEF Finish
  <2> HIDE DEF f
  <2>3. \A p, q \in rows' : p.serial = q.serial => p = q
    BY <2>1, <2>2 DEF SameRow, IInv, SerialsDistinct
  <2> QED
    <3>1. now' >= now /\ UNCHANGED <<serial, lostUntil, lost, accepted>>
      BY <1>8 DEF Finish, Clock
    <3>2. /\ \A q \in rows' : \E r \in rows : SameRow(q, r)
          /\ \A r \in rows : \E q \in rows' : SameRow(q, r)
      BY <2>1, <2>2
    <3> QED
      BY <1>t, <2>3, <3>1, <3>2, QuietStep
<1>9. ASSUME NEW t \in Ticks, NEW k \in Keys, SourceComplete(k, t)
      PROVE IInv'
  <2>1. \A r \in rows : SameRow(Sourced(r, k, t), r)
    BY <1>t DEF SameRow, Sourced, TypeOK, Row
  <2>2. rows' = {Sourced(r, k, t) : r \in rows}
    BY <1>9 DEF SourceComplete
  <2>3. \A p, q \in rows' : p.serial = q.serial => p = q
    BY <2>1, <2>2 DEF SameRow, IInv, SerialsDistinct
  <2> QED
    BY <1>9, <1>t, <2>1, <2>2, <2>3, QuietStep DEF SourceComplete, Clock
<1>10. ASSUME NEW t \in Ticks, CapacityCheck(t)
       PROVE IInv'
  <2>1. /\ \A q \in rows' : \E r \in rows : SameRow(q, r)
        /\ \A r \in rows : (\E q \in rows' : SameRow(q, r)) \/ Reclaimable(r, now')
        /\ \A p, q \in rows' : p.serial = q.serial => p = q
    BY <1>10, PressedFollows DEF CapacityCheck, Clock, SameRow
  <2> QED
    BY <1>10, <1>t, <2>1, QuietStep DEF CapacityCheck, Clock
<1>11. ASSUME NEW t \in Ticks, Get(t)
       PROVE IInv'
  <2>1. /\ \A q \in rows' : \E r \in rows : SameRow(q, r)
        /\ \A r \in rows : \E q \in rows' : SameRow(q, r)
        /\ \A p, q \in rows' : p.serial = q.serial => p = q
    BY <1>11 DEF Get, SameRow, IInv, SerialsDistinct
  <2> QED
    BY <1>11, <1>t, <2>1, QuietStep DEF Get, Clock
<1>12. ASSUME NEW t \in Ticks, CallClockBack(t)
       PROVE IInv'
  <2>1. RowsRecorded' /\ SerialsDistinct'
    BY <1>12 DEF CallClockBack, ClockBack, IInv, RowsRecorded, SerialsDistinct
  <2> QED
    BY <1>12, <1>t, <2>1 DEF CallClockBack, ClockBack, IInv, Accounted
<1>13. ASSUME NEW t \in Ticks, LoseAt(t)
       PROVE IInv'
  <2>1. RowsFollow /\ \A q \in rows' : \E r \in rows : SameRow(q, r)
    BY <1>13 DEF LoseAt, RowsFollow, SameRow
  <2>2. \A p, q \in rows' : p.serial = q.serial => p = q
    BY <1>13 DEF LoseAt, IInv, SerialsDistinct
  <2>3. \A a \in accepted' : a \in accepted \/ (a.serial = 0 /\ a.begun = t)
    BY <1>13 DEF LoseAt, Record
  <2>4. RowsRecorded' /\ SerialsDistinct'
    BY <1>13, <1>t, <2>1, <2>2, <2>3, KeptIdentity DEF LoseAt, Record, Clock
  <2>5. Accounted'
    <3> SUFFICES ASSUME ~lost', NEW a \in accepted'
                 PROVE  a.begun <= now' /\ (Retained(a)' \/ Windowed(a)' \/ Outlived(a)')
      BY DEF Accounted
    <3>1. ~lost /\ lostUntil' >= lostUntil /\ lostUntil' >= t + TTL
      BY <1>13, <1>t, LoseWindowStep DEF LoseAt
    <3>2. CASE a \in accepted
      BY <1>13, <1>t, <2>1, <3>1, <3>2, KeptAccount DEF LoseAt, Clock
    <3>3. CASE a.begun = t
      BY <1>13, <3>1, <3>3 DEF LoseAt, Clock, Windowed, Ticks
    <3> QED
      BY <2>3, <3>2, <3>3
  <2> QED
    BY <1>t, <2>4, <2>5 DEF IInv
<1>14. CASE UNCHANGED vars
  <2>1. /\ \A q \in rows' : \E r \in rows : SameRow(q, r)
        /\ \A r \in rows : \E q \in rows' : SameRow(q, r)
        /\ \A p, q \in rows' : p.serial = q.serial => p = q
    BY <1>14 DEF vars, SameRow, IInv, SerialsDistinct
  <2> QED
    BY <1>14, <1>t, <2>1, QuietStep DEF vars, TypeOK
<1> QED
  BY <1>1, <1>2, <1>3, <1>4, <1>5, <1>6, <1>7, <1>8, <1>9, <1>10, <1>11, <1>12,
     <1>13, <1>14 DEF Next, Begin

\* While the generation is not lost every attempt that entered the gateway is
\* retained, covered by the loss window, or outlived (attempts.c:14-31).
THEOREM Invariant == Spec => []IInv
  BY InvInit, InvStep, PTL DEF Spec

-----------------------------------------------------------------------------
\* physical_count is the number of all attempts of the key, and not a lower
\* bound of it, whenever the view says count_known (attempts.h:16,
\* attempts.c:148-150), for every table size and lifetime.
THEOREM CountIsKnown == Spec => []KnownCountCovers
<1>1. IInv => KnownCountCovers
  <2> SUFFICES ASSUME IInv, NEW r \in LiveRows, CountKnown(r),
                      NEW a \in accepted, MayShareKey(a, r), Overlap(a, r)
               PROVE  Retained(a)
    BY DEF KnownCountCovers, Retained
  <2>1. r.begun \in Nat /\ a.begun \in Nat /\ lostUntil \in Nat /\ TTL \in Nat
    BY AttemptsAssumption DEF LiveRows, IInv, TypeOK, Row, Attempt
  <2>2. r.begun < a.begun + TTL /\ lostUntil <= r.begun
    BY <2>1 DEF Overlap, CountKnown
  <2>3. ~Windowed(a)
    BY <2>1, <2>2 DEF Windowed
  <2>4. ~Outlived(a)
    BY <2>1, <2>2 DEF Outlived, MayShareKey
  <2> QED
    BY <2>3, <2>4 DEF IInv, Accounted, CountKnown
<1> QED
  BY <1>1, Invariant, PTL

\* Two rows of one key make the count exceed one.
LEMMA TwoShareKey ==
    ASSUME NEW T, IsFiniteSet(T), NEW r \in T, NEW q \in T, q.key = r.key, q # r
    PROVE  Cardinality({p \in T : p.key = r.key}) > 1
<1> DEFINE S == {p \in T : p.key = r.key}
<1>1. IsFiniteSet(S) /\ {r, q} \in SUBSET S
  BY FS_Subset
<1>2. IsFiniteSet({r}) /\ Cardinality({r}) = 1
  BY FS_Singleton
<1> HIDE DEF S
<1>3. Cardinality({r} \cup {q}) = 2
  <2>1. q \notin {r}
    OBVIOUS
  <2>2. Cardinality({r} \cup {q}) = Cardinality({r}) + 1
    BY <1>2, <2>1, FS_AddElement
  <2> QED  BY <1>2, <2>2
<1>4. {r} \cup {q} = {r, q}
  OBVIOUS
<1>5. Cardinality({r, q}) <= Cardinality(S)
  BY <1>1, FS_Subset
<1>6. Cardinality(S) \in Nat
  BY <1>1, FS_CardinalityType
<1> QED
  BY <1>3, <1>4, <1>5, <1>6 DEF S

\* A live row the ledger calls exact (attempts.c:151) shares its key with no
\* other attempt that overlaps it, be it recorded, refused, dropped or of
\* unknown key, for every table size, lifetime and clock.
THEOREM ExactnessIsSound == Spec => []ExactIsUnique
<1>1. IInv /\ KnownCountCovers => ExactIsUnique
  <2> SUFFICES ASSUME IInv, KnownCountCovers, NEW r \in LiveRows, Exact(r),
                      NEW a \in accepted, MayShareKey(a, r), Overlap(a, r)
               PROVE  SameAttempt(a, r)
    BY DEF ExactIsUnique
  <2>1. PICK q \in rows : SameAttempt(a, q)
    BY DEF KnownCountCovers, Exact
  <2>2. r \in rows /\ r.key \in Keys /\ q.key \in Keys
    BY DEF LiveRows, IInv, TypeOK, Row
  <2>3. q.key = r.key
    BY <2>1, <2>2, AttemptsAssumption DEF SameAttempt, MayShareKey
  <2>4. q = r
    BY <2>2, <2>3, TwoShareKey DEF Exact, IInv, TypeOK, Ambiguous, PhysicalCount
  <2> QED
    BY <2>1, <2>4
<1> QED
  BY <1>1, Invariant, CountIsKnown, PTL

-----------------------------------------------------------------------------
\* The other row of an ambiguous one.
LEMMA AmbiguousHasTwo ==
    ASSUME NEW r \in rows, Ambiguous(r)
    PROVE  \E p \in rows : p.key = r.key /\ p # r
<1> SUFFICES ASSUME \A p \in rows : p.key = r.key => p = r  PROVE FALSE
  OBVIOUS
<1>1. {p \in rows : p.key = r.key} = {r} /\ Cardinality({r}) = 1
  BY FS_Singleton
<1> QED
  BY <1>1 DEF Ambiguous, PhysicalCount

\* What a step leaves of a doubt: the loss, the other row of the key unless
\* both may be reclaimed, and the failure.
DoubtKept ==
    /\ lost => lost'
    /\ lostUntil' >= lostUntil
    /\ ~lost' => \A r \in rows : (\E q \in rows' : SameRow(q, r)) \/ Reclaimable(r, now')
    /\ \A r \in rows, q \in rows' : r.serial = q.serial /\ r.failed => q.failed

\* A step that only drops rows that may be reclaimed.
LEMMA DroppingKeepsDoubt ==
    ASSUME IInv, lost => lost', lostUntil' >= lostUntil, rows' \subseteq rows,
           ~lost' => \A r \in rows : r \in rows' \/ Reclaimable(r, now')
    PROVE  DoubtKept
  BY DEF DoubtKept, SameRow, IInv, SerialsDistinct

LEMMA StepKeepsDoubt == IInv /\ Next => DoubtKept
<1> SUFFICES ASSUME IInv, Next PROVE DoubtKept
  OBVIOUS
<1>t. TypeOK
  BY DEF IInv
<1>u. lostUntil >= lostUntil
  BY <1>t DEF TypeOK
<1>1. CASE Lose
  BY <1>1, <1>u, DroppingKeepsDoubt DEF Lose
<1>2. ASSUME NEW t \in Ticks, NEW k \in Keys, BeginExhausted(k, t) \/ BeginOverflow(k, t)
      PROVE DoubtKept
  BY <1>2, <1>u, DroppingKeepsDoubt DEF BeginExhausted, BeginOverflow
<1>3. ASSUME NEW t \in Ticks, ClockBack(t)
      PROVE DoubtKept
  BY <1>3, <1>u, DroppingKeepsDoubt DEF ClockBack
<1>4. ASSUME NEW t \in Ticks, BeginUnattributed(t) \/ LoseAt(t)
      PROVE DoubtKept
  <2>1. lostUntil' >= lostUntil /\ (lost => lost') /\ rows' = rows
    BY <1>4, <1>t, LoseWindowStep DEF BeginUnattributed, LoseAt
  <2> QED
    BY <2>1, DroppingKeepsDoubt
<1>5. ASSUME NEW t \in Ticks, NEW k \in Keys, BeginFull(k, t)
      PROVE DoubtKept
  <2>1. lostUntil' >= lostUntil /\ (lost => lost') /\ rows' = Pressed(t) /\ now' = t
    BY <1>5, <1>t, LoseWindowStep DEF BeginFull, Clock
  <2> QED
    BY <2>1, PressedFollows, DroppingKeepsDoubt
<1>6. ASSUME NEW t \in Ticks, CapacityCheck(t)
      PROVE DoubtKept
  <2>1. lostUntil' = lostUntil /\ lost' = lost /\ rows' = Pressed(t) /\ now' = t
    BY <1>6 DEF CapacityCheck, Clock
  <2> QED
    BY <1>u, <2>1, PressedFollows, DroppingKeepsDoubt
<1>7. ASSUME NEW t \in Ticks, Get(t)
      PROVE DoubtKept
  BY <1>7, <1>u, DroppingKeepsDoubt DEF Get
<1>8. ASSUME NEW t \in Ticks, NEW k \in Keys, BeginTracked(k, t)
      PROVE DoubtKept
  <2>1. /\ lostUntil' = lostUntil /\ lost' = lost /\ now' = t
        /\ rows' = Pressed(t) \cup {NewRow(k, t, serial + 1)}
    BY <1>8 DEF BeginTracked, Clock
  <2>2. NewRow(k, t, serial + 1).serial = serial + 1
    BY DEF NewRow
  <2>3. \A r \in rows : r.serial # serial + 1
    <3> TAKE r \in rows
    <3>1. [key |-> r.key, serial |-> r.serial, begun |-> r.begun] \in accepted
      BY DEF IInv, RowsRecorded
    <3>2. r.serial <= serial /\ r.serial \in Nat /\ serial \in Nat
      BY <1>t, <3>1 DEF IInv, SerialsDistinct, TypeOK, Row
    <3> QED
      BY <3>2
  <2>4. \A r \in rows, q \in rows' : r.serial = q.serial /\ r.failed => q.failed
    BY <2>1, <2>2, <2>3, PressedFollows DEF IInv, SerialsDistinct
  <2>5. \A r \in rows : (\E q \in rows' : SameRow(q, r)) \/ Reclaimable(r, now')
    BY <2>1, PressedFollows DEF SameRow
  <2> QED
    BY <1>u, <2>1, <2>4, <2>5 DEF DoubtKept
<1>9. ASSUME NEW t \in Ticks, NEW s \in 1 .. MaxSerial, NEW complete \in BOOLEAN,
             Finish(s, complete, t)
      PROVE DoubtKept
  <2> DEFINE f(r) == IF r.serial = s THEN Finished(r, complete, t) ELSE r
  <2>1. \A r \in rows : SameRow(f(r), r) /\ (r.failed => f(r).failed)
    BY <1>t DEF SameRow, Finished, TypeOK, Row
  <2>2. rows' = {f(r) : r \in rows} /\ lostUntil' = lostUntil /\ lost' = lost
    BY <1>9 DEF Finish
  <2> HIDE DEF f
  <2> QED
    BY <1>u, <2>1, <2>2 DEF DoubtKept, SameRow, IInv, SerialsDistinct
<1>10. ASSUME NEW t \in Ticks, NEW k \in Keys, SourceComplete(k, t)
       PROVE DoubtKept
  <2>1. \A r \in rows : SameRow(Sourced(r, k, t), r) /\ (r.failed => Sourced(r, k, t).failed)
    BY <1>t DEF SameRow, Sourced, TypeOK, Row
  <2>2. rows' = {Sourced(r, k, t) : r \in rows} /\ lostUntil' = lostUntil /\ lost' = lost
    BY <1>10 DEF SourceComplete
  <2> QED
    BY <1>u, <2>1, <2>2 DEF DoubtKept, SameRow, IInv, SerialsDistinct
<1> QED
  BY <1>1, <1>2, <1>3, <1>4, <1>5, <1>6, <1>7, <1>8, <1>9, <1>10
     DEF Next, Begin, BeginClockBack, CallClockBack

\* A row keeps its identity.
LEMMA RowsKeepIdentity ==
    ASSUME IInv, IInv', accepted \subseteq accepted',
           NEW r \in rows, NEW q \in rows', r.serial = q.serial
    PROVE  SameRow(q, r)
<1> DEFINE a == [key |-> r.key, serial |-> r.serial, begun |-> r.begun]
           b == [key |-> q.key, serial |-> q.serial, begun |-> q.begun]
<1>1. a \in accepted' /\ b \in accepted' /\ r.serial > 0
  BY DEF IInv, RowsRecorded
<1>2. a.serial = b.serial /\ a.serial > 0
  BY <1>1
<1> HIDE DEF a, b
<1>3. a = b
  BY <1>1, <1>2 DEF IInv, SerialsDistinct
<1> QED
  BY <1>3 DEF SameRow, a, b

\* The history only grows.
LEMMA HistoryGrows == Next => accepted \subseteq accepted'
  BY DEF Next, Lose, Begin, BeginExhausted, BeginClockBack, BeginOverflow, BeginFull,
         BeginTracked, SourceComplete, Finish, BeginUnattributed, CapacityCheck, Get,
         CallClockBack, LoseAt, Record

\* A live row in doubt stays in doubt: no call that reclaims, finishes or
\* completes rows makes it exact again (attempts.c:14-24), for every table
\* size, lifetime and clock.
THEOREM DoubtIsLasting == Spec => DoubtNeverHeals
<1>1. ASSUME IInv, IInv', Next, NEW r \in rows, NEW q \in rows',
             r.serial = q.serial, LiveAt(q, now'), Doubtful(r)
      PROVE  Doubtful(q)'
  <2>1. DoubtKept /\ SameRow(q, r)
    BY <1>1, StepKeepsDoubt, HistoryGrows, RowsKeepIdentity
  <2>2. CASE ~CountKnown(r)
    <3>1. r.begun \in Nat /\ lostUntil \in Nat /\ lostUntil' \in Nat
      BY <1>1 DEF IInv, TypeOK, Row
    <3>2. ~CountKnown(q)'
      BY <2>1, <2>2, <3>1 DEF CountKnown, DoubtKept, SameRow
    <3> QED
      BY <3>2 DEF Doubtful
  <2>3. CASE r.failed
    BY <1>1, <2>1, <2>3 DEF DoubtKept, Doubtful
  <2>4. CASE Ambiguous(r) /\ ~lost'
    <3>1. PICK p \in rows : p.key = r.key /\ p # r
      BY <1>1, <2>4, AmbiguousHasTwo
    <3>2. ~Reclaimable(p, now')
      BY <1>1, <2>1, <3>1 DEF Reclaimable, LiveAt, Expires, SameRow
    <3>3. PICK o \in rows' : SameRow(o, p)
      BY <2>1, <2>4, <3>1, <3>2 DEF DoubtKept
    <3>4. o.key = q.key /\ o # q
      BY <1>1, <2>1, <3>1, <3>3 DEF SameRow, IInv, SerialsDistinct
    <3>5. Ambiguous(q)'
      <4>1. IsFiniteSet(rows')
        BY <1>1 DEF IInv, TypeOK
      <4>2. Cardinality({x \in rows' : x.key = q.key}) > 1
        BY <1>1, <3>3, <3>4, <4>1, TwoShareKey
      <4> QED
        BY <4>2 DEF Ambiguous, PhysicalCount
    <3> QED
      BY <3>5 DEF Doubtful
  <2>5. CASE lost'
    BY <2>5 DEF Doubtful, CountKnown
  <2> QED
    BY <1>1, <2>2, <2>3, <2>4, <2>5 DEF Doubtful
<1>2. IInv /\ IInv' /\ [Next]_vars =>
        [\A r \in rows : \A q \in rows' :
            r.serial = q.serial /\ LiveAt(q, now') /\ Doubtful(r) => Doubtful(q)']_vars
  BY <1>1
<1> QED
  BY <1>2, Invariant, PTL DEF Spec, DoubtNeverHeals
=============================================================================
