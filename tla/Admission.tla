------------------------------ MODULE Admission ------------------------------
(***************************************************************************)
(* Who may use the tracer (core/src/auth/auth.c) and in what order a       *)
(* request is refused (core/src/http/admission.c).  A credential is its    *)
(* scheme, in lower case, and its token, or None.                          *)
(***************************************************************************)
EXTENDS StrictConfig

(* One token for every project, or no table at all.                        *)
rc_auth_table_init(d, env) ==
    IF \A p \in ToSet(d.projects) : env[p.token_env] # None
    THEN [i \in DOMAIN d.projects |-> env[d.projects[i].token_env]]
    ELSE None

(* The first project with the token, 0 if there is none.                   *)
rc_auth_bearer(tokens, credential) ==
    IF credential = None \/ credential.scheme # "bearer" \/ credential.token = None THEN 0
    ELSE SelectInSeq(tokens, LAMBDA t : t = credential.token)

rc_admit_requestLast(tokens, policy, credential, length, inflight) ==
    IF policy.body <= 0 \/ policy.inflight < 0 \/ inflight > policy.inflight THEN "invalid"
    ELSE IF rc_auth_bearer(tokens, credential) = 0 THEN "auth"
    ELSE IF length > policy.body THEN "too_large"
    ELSE IF inflight > policy.inflight THEN "overload"
    ELSE "ok"

(* length is the declared length, inflight the requests that run besides.  *)
rc_admit_request(tokens, policy, credential, length, inflight) ==
    IF policy.body <= 0 \/ policy.inflight < 0 \/ inflight > policy.inflight THEN "invalid"
    ELSE IF rc_auth_bearer(tokens, credential) = 0 THEN "auth"
    ELSE IF length > policy.body THEN "too_large"
    ELSE IF inflight >= policy.inflight THEN "overload"
    ELSE "ok"
=============================================================================
