------------------------------ MODULE Attempts ------------------------------
(***************************************************************************)
(* The ingress attempt ledger (core/src/context/attempts.c).               *)
(*                                                                         *)
(* Every chat request the gateway dispatches is a physical attempt.  The   *)
(* ledger keeps a bounded table of them, keyed by the project and the five *)
(* attribution headers, and answers one question: is this live attempt the *)
(* only one its key can have had while it was live (an "exact" view)?  The *)
(* table may refuse a row, drop an old one, or be told of an attempt it    *)
(* never saw; it must then stop claiming exactness, and for long enough.   *)
(*                                                                         *)
(* All calls are serialized by the caller (attempts.h:24-26), so an action *)
(* is a whole call.  A caller that is not authorized returns before any    *)
(* state change and is not a step here.                                    *)
(***************************************************************************)
EXTENDS Integers, FiniteSets

CONSTANTS
    Keys,       \* (project, five headers): what key() compares
    NoKey,      \* headers that valid() rejects
    Capacity,   \* rows of the table, at most RC_ATTEMPT_MAX_ROWS
    TTL,        \* lifetime of a row in ticks
    MaxTime,    \* UINT64_MAX as a tick
    MaxSerial   \* UINT64_MAX as a serial

ASSUME AttemptsAssumption ==
    /\ NoKey \notin Keys
    /\ Capacity \in Nat \ {0}
    /\ TTL \in Nat \ {0}
    /\ MaxTime \in Nat /\ TTL <= MaxTime
    /\ MaxSerial \in Nat

VARIABLES
    rows,       \* the used prefix of the table; its order is never observed
    serial,     \* the last serial issued
    now,        \* the greatest tick any call has carried
    lostUntil,  \* rows begun before this tick can no longer be exact
    lost,       \* no row of this generation can be exact
    accepted    \* history: every physical attempt that entered the gateway

vars == <<rows, serial, now, lostUntil, lost, accepted>>

Ticks == 0 .. MaxTime

Row == [key: Keys, serial: Nat, begun: Nat,
        finished: BOOLEAN, source: BOOLEAN, failed: BOOLEAN, settled: BOOLEAN]

\* An attempt of the history.  Serial 0 is one that was never given an id.
Attempt == [key: Keys \cup {NoKey}, serial: Nat, begun: Nat]

TypeOK ==
    /\ rows \subseteq Row
    /\ IsFiniteSet(rows)
    /\ Cardinality(rows) <= Capacity
    /\ serial \in 0 .. MaxSerial
    /\ now \in Nat
    /\ lostUntil \in Nat
    /\ lost \in BOOLEAN
    /\ accepted \subseteq Attempt

-----------------------------------------------------------------------------
Expires(r) == r.begun + TTL
LiveAt(r, t) == t < Expires(r)

MutReclaimNoTombstone(r, t) == r.settled /\ ~LiveAt(r, t)
\* A row is dropped once it is settled and expired and no live row shares its
\* key: until then it is the evidence that the key was used twice.
Reclaimable(r, t) ==
    /\ r.settled
    /\ ~LiveAt(r, t)
    /\ \A q \in rows : q.key = r.key => ~LiveAt(q, t)

Reclaimed(t) == {r \in rows : ~Reclaimable(r, t)}

\* Reclamation happens under capacity pressure only.
Pressed(t) == IF Cardinality(rows) = Capacity THEN Reclaimed(t) ELSE rows

WindowOverflows(t) == t > MaxTime - TTL

MutLoseWindow(t) ==
    IF WindowOverflows(t)
    THEN lost' = TRUE /\ UNCHANGED lostUntil
    ELSE lostUntil' = (IF t > lostUntil THEN t ELSE lostUntil) /\ UNCHANGED lost

LoseWindow(t) ==
    IF WindowOverflows(t)
    THEN lost' = TRUE /\ UNCHANGED lostUntil
    ELSE /\ lostUntil' = IF t + TTL > lostUntil THEN t + TTL ELSE lostUntil
         /\ UNCHANGED lost

\* clock_ok: a tick that goes back loses the generation and ends the call.
ClockBack(t) ==
    /\ t < now
    /\ lost' = TRUE
    /\ UNCHANGED <<rows, now, lostUntil>>

Clock(t) == t >= now /\ now' = t

-----------------------------------------------------------------------------
(* What rc_attempt_get computes for a row it found.                        *)

PhysicalCount(r) == Cardinality({q \in rows : q.key = r.key})
Ambiguous(r) == PhysicalCount(r) > 1
CountKnown(r) == ~lost /\ r.begun >= lostUntil
Exact(r) == CountKnown(r) /\ ~Ambiguous(r) /\ ~r.failed /\ r.finished /\ r.source

-----------------------------------------------------------------------------
Record(k, t, s) == accepted' = accepted \cup {[key |-> k, serial |-> s, begun |-> t]}

NewRow(k, t, s) ==
    [key |-> k, serial |-> s, begun |-> t,
     finished |-> FALSE, source |-> FALSE, failed |-> FALSE, settled |-> FALSE]

\* rc_attempt_begin with no serial left.
BeginExhausted(k, t) ==
    /\ serial = MaxSerial
    /\ lost' = TRUE
    /\ Record(k, t, 0)
    /\ UNCHANGED <<rows, serial, now, lostUntil>>

BeginClockBack(k, t) ==
    /\ serial < MaxSerial
    /\ serial' = serial + 1
    /\ ClockBack(t)
    /\ Record(k, t, serial + 1)

BeginOverflow(k, t) ==
    /\ serial < MaxSerial
    /\ serial' = serial + 1
    /\ Clock(t)
    /\ WindowOverflows(t)
    /\ lost' = TRUE
    /\ Record(k, t, serial + 1)
    /\ UNCHANGED <<rows, lostUntil>>

BeginUnattributed(t) ==
    /\ serial < MaxSerial
    /\ serial' = serial + 1
    /\ Clock(t)
    /\ ~WindowOverflows(t)
    /\ LoseWindow(t)
    /\ Record(NoKey, t, serial + 1)
    /\ UNCHANGED rows

BeginFull(k, t) ==
    /\ serial < MaxSerial
    /\ serial' = serial + 1
    /\ Clock(t)
    /\ ~WindowOverflows(t)
    /\ rows' = Pressed(t)
    /\ Cardinality(Pressed(t)) = Capacity
    /\ LoseWindow(t)
    /\ Record(k, t, serial + 1)

BeginTracked(k, t) ==
    /\ serial < MaxSerial
    /\ serial' = serial + 1
    /\ Clock(t)
    /\ ~WindowOverflows(t)
    /\ Cardinality(Pressed(t)) # Capacity
    /\ rows' = Pressed(t) \cup {NewRow(k, t, serial + 1)}
    /\ Record(k, t, serial + 1)
    /\ UNCHANGED <<lostUntil, lost>>

-----------------------------------------------------------------------------
MutFinished(r, complete, t) ==
    IF LiveAt(r, t)
    THEN [r EXCEPT !.settled = TRUE, !.finished = complete, !.failed = ~complete]
    ELSE [r EXCEPT !.settled = TRUE]

\* rc_attempt_finish: the transport of attempt s ended.  Failure is sticky, an
\* expired row is only settled.
Finished(r, complete, t) ==
    IF LiveAt(r, t)
    THEN [r EXCEPT !.settled = TRUE, !.finished = complete, !.failed = @ \/ ~complete]
    ELSE [r EXCEPT !.settled = TRUE]

Finish(s, complete, t) ==
    /\ Clock(t)
    /\ rows' = {IF r.serial = s THEN Finished(r, complete, t) ELSE r : r \in rows}
    /\ UNCHANGED <<serial, lostUntil, lost, accepted>>

\* rc_attempt_source_complete: trusted evidence that the source of key k is complete.
Sourced(r, k, t) ==
    IF r.key = k /\ LiveAt(r, t) THEN [r EXCEPT !.source = TRUE] ELSE r

SourceComplete(k, t) ==
    /\ Clock(t)
    /\ rows' = {Sourced(r, k, t) : r \in rows}
    /\ UNCHANGED <<serial, lostUntil, lost, accepted>>

\* rc_attempt_capacity: the fence the gateway raises before it selects.
CapacityCheck(t) ==
    /\ Clock(t)
    /\ rows' = Pressed(t)
    /\ UNCHANGED <<serial, lostUntil, lost, accepted>>

\* rc_attempt_get: only its clock changes state; the view is a function of it.
Get(t) ==
    /\ Clock(t)
    /\ UNCHANGED <<rows, serial, lostUntil, lost, accepted>>

\* Any of the calls above, when its tick goes back.
CallClockBack(t) == ClockBack(t) /\ UNCHANGED <<serial, accepted>>

\* rc_attempt_lost: a gap of unknown extent in the source channel.
Lose ==
    /\ lost' = TRUE
    /\ UNCHANGED <<rows, serial, now, lostUntil, accepted>>

\* rc_attempt_lost_at: an attempt, of any key, entered at t unrecorded.
LoseAt(t) ==
    /\ Clock(t)
    /\ LoseWindow(t)
    /\ Record(NoKey, t, 0)
    /\ UNCHANGED <<rows, serial>>

-----------------------------------------------------------------------------
Init ==
    /\ rows = {}
    /\ serial = 0
    /\ now = 0
    /\ lostUntil = 0
    /\ lost = FALSE
    /\ accepted = {}

Begin(k, t) ==
    \/ BeginExhausted(k, t)
    \/ BeginClockBack(k, t)
    \/ BeginOverflow(k, t)
    \/ BeginFull(k, t)
    \/ BeginTracked(k, t)

Next ==
    \/ Lose
    \/ \E t \in Ticks :
        \/ \E k \in Keys : Begin(k, t) \/ SourceComplete(k, t)
        \/ \E s \in 1 .. MaxSerial, complete \in BOOLEAN : Finish(s, complete, t)
        \/ BeginUnattributed(t)
        \/ CapacityCheck(t)
        \/ Get(t)
        \/ CallClockBack(t)
        \/ LoseAt(t)

Spec == Init /\ [][Next]_vars

-----------------------------------------------------------------------------
(* Properties.                                                             *)

LiveRows == {r \in rows : LiveAt(r, now)}

SameAttempt(a, r) == a.serial = r.serial /\ a.key = r.key

\* Two attempts overlap when their lifetimes do.
Overlap(a, r) == a.begun < r.begun + TTL /\ r.begun < a.begun + TTL

\* An attempt may bear the key of r: it has that key, or its key is unknown.
MayShareKey(a, r) == a.key \in {r.key, NoKey}

(* The inductive invariant.  Its parts say what the table must remember of *)
(* the history for a count to be trusted.                                  *)

\* A retained row is an attempt of the history, begun by now.
RowsRecorded ==
    \A r \in rows :
        /\ r.serial > 0
        /\ r.begun <= now
        /\ [key |-> r.key, serial |-> r.serial, begun |-> r.begun] \in accepted

\* A serial names one attempt and one row.
SerialsDistinct ==
    /\ \A a \in accepted : a.serial <= serial
    /\ \A a, b \in accepted : a.serial = b.serial /\ a.serial > 0 => a = b
    /\ \A r, q \in rows : r.serial = q.serial => r = q

Retained(a) == \E q \in rows : SameAttempt(a, q)
Windowed(a) == lostUntil >= a.begun + TTL
Outlived(a) ==
    /\ a.key # NoKey
    /\ a.begun + TTL <= now
    /\ \A q \in LiveRows : q.key = a.key => q.begun >= a.begun + TTL

\* While the generation is not lost, every attempt is in the table, or covered
\* by the loss window, or dropped too early to overlap any live row of its key.
Accounted ==
    ~lost => \A a \in accepted :
        a.begun <= now /\ (Retained(a) \/ Windowed(a) \/ Outlived(a))

IInv == TypeOK /\ RowsRecorded /\ SerialsDistinct /\ Accounted

\* What the gateway relies on before it reads context for a request
\* (rc_attempt_get, attempts.c:147-151): when a live row is exact, no other
\* attempt that entered the gateway, recorded or not, can have carried the same
\* key while that row was live.
ExactIsUnique ==
    \A r \in LiveRows : Exact(r) =>
        \A a \in accepted :
            MayShareKey(a, r) /\ Overlap(a, r) => SameAttempt(a, r)

\* physical_count is a true count, not a lower bound, when count_known is set
\* (attempts.h:16): every attempt of the key that overlaps the row is still in
\* the table, and none of unknown key overlaps it.
KnownCountCovers ==
    \A r \in LiveRows : CountKnown(r) =>
        \A a \in accepted :
            MayShareKey(a, r) /\ Overlap(a, r) => \E q \in rows : SameAttempt(a, q)

\* Doubt never heals: a live row that is ambiguous, of unknown count or failed
\* stays inexact for as long as it lives (attempts.c:14-24), whatever is
\* reclaimed, finished or completed meanwhile.
Doubtful(r) == ~CountKnown(r) \/ Ambiguous(r) \/ r.failed

DoubtNeverHeals ==
    [][\A r \in rows : \A q \in rows' :
        r.serial = q.serial /\ LiveAt(q, now') /\ Doubtful(r) => Doubtful(q)']_vars
=============================================================================
