----------------------------- MODULE MCAttempts -----------------------------
(***************************************************************************)
(* Instance of Attempts for TLC.  Two keys, a table of two rows and a clock*)
(* of a few ticks let rows expire, be reclaimed and overlap a loss window. *)
(***************************************************************************)
EXTENDS Attempts, TLC

\* Bound of the run: at most this many attempts in a history.
HistoryBound == Cardinality(accepted) <= 3

Symmetry == Permutations(Keys)
=============================================================================
