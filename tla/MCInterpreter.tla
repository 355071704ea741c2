---------------------------- MODULE MCInterpreter ----------------------------
(* Interpreter with two slots: enough for a job queued behind a running    *)
(* one and for a slot reused while another runs.  No symmetry: the run     *)
(* checks liveness.                                                        *)
EXTENDS Interpreter
=============================================================================
