----------------------------- MODULE MCGateway ------------------------------
(* GatewaySessions on small tables.  A history is about restriction (labels,   *)
(* restricted content, private placement) or about continuity (tools, a        *)
(* second registered session); both are in one run, and a state that is about  *)
(* both is not followed further.                                               *)
EXTENDS GatewaySessions, TLC

Symmetry == Permutations(Slots) \cup Permutations(Requests)

Talker == CHOOSE id \in Idents : TRUE

(* One thing to tell at a time, and nothing of a request by fixed alias.   *)
AllQueries ==
    {q \in Query :
        /\ q.ident = Talker
        /\ ~(q.breaks /\ q.tools)
        /\ q.sensitive \/ ~q.automatic => ~(q.breaks \/ q.tools)}

AllOutcomes == {"plain", "tools", "opaque"}

AboutRestriction ==
    /\ generations < 2 /\ (generations = 1 => cooling = {})
    /\ \A i \in Slots : scopes[i].ident \in {Talker, NoIdent} /\ ~scopes[i].tooled /\ ~scopes[i].boundary

AboutContinuity ==
    /\ labels = {} /\ (\A i \in Slots : ~scopes[i].private)
    /\ \A r \in Requests : ticket[r] # None => ticket[r].dest # PrivateModel /\ ~ticket[r].sensitive

(* Of the candidates the baseline cools, until a second session is         *)
(* registered.                                                             *)
Bounded ==
    /\ cooling \subseteq {Baseline} /\ (generations < 2 \/ cooling = {})
    /\ AboutRestriction \/ AboutContinuity
=============================================================================
