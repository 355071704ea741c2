------------------------------- MODULE MCRelay -------------------------------
(* Relay with a ring that a body overruns: it fills and drains more than   *)
(* once, and up to two retries follow a failed exchange.                   *)
EXTENDS Relay
=============================================================================
