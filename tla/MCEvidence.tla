----------------------------- MODULE MCEvidence -----------------------------
(* Evidence with one session.  The events that arrive: any tuple of        *)
(* attribution and any revision, in sequence, and responses of a later     *)
(* revision out of it; malformed and lossy ones at the last revision.      *)
EXTENDS Evidence, TLC

Arriving ==
    {ev \in Event :
        /\ ev.sequence # ev.revision => ev.sequence = 1 /\ ev.kind = "response"
        /\ ev.shape # "sound" =>
              ev.kind = "response" /\ {ev.sequence, ev.revision} = {MaxRevision}}

Symmetry == Permutations(Keys)

(***************************************************************************)
(* With up to one row everything is explored.  With two, at most one of    *)
(* three complications at a time: the session was reopened, the ledger has *)
(* lost something, a row is past its time.  A third exchange with a row of *)
(* its own is followed only while there is none of them, nothing but       *)
(* responses has been told, without a gap, and every row is of a key of    *)
(* its own: the case AdviceIsAboutLastTurn needs three rows for.           *)
(***************************************************************************)
Reopened == opened > 1
Lost == loss # "none"
Stale == \E r \in DOMAIN row : row[r].expired

Bounded ==
    /\ Len(row) = 2 => ~(Reopened /\ Lost) /\ ~(Reopened /\ Stale) /\ ~(Lost /\ Stale)
    /\ Len(row) = 3 =>
          /\ ~Reopened /\ ~Lost /\ ~Stale
          /\ \A m \in told : m.kind = "response"
          /\ \A s \in Slots : scope[s].sequence = scope[s].revision
          /\ \A q, r \in DOMAIN row : q # r => row[q].key # row[r].key
=============================================================================
