---------------------------- MODULE StrictConfig ----------------------------
(***************************************************************************)
(* The strict configuration form of core/src/config/config.c, which the    *)
(* tracer starts from and recursant-validate checks: a private and a       *)
(* public section, aliases to them, projects with their token variables,   *)
(* and limits.  The router reads the forms of module Registry instead.     *)
(*                                                                         *)
(* A document has the JSON's fields, None where a field is absent; unknown *)
(* says that some object has a key the parser does not know.  A name is a  *)
(* string, well formed unless it is in Malformed; a url is its scheme and  *)
(* whether the rest of it is sound.  An environment maps the names of      *)
(* variables to their values, None when unset or empty.                    *)
(***************************************************************************)
EXTENDS Naturals, SequencesExt

CONSTANTS
    None,
    Malformed,         \* names that are not printable, or no variable's name
    DefaultBody,       \* 8 MiB
    DefaultInflight,   \* 64
    BodyLimit,         \* 1 GiB
    InflightLimit      \* 4096

-----------------------------------------------------------------------------
(* rc_config_load: what a parsed document binds to, None if it is refused. *)
bind_endpoint_section(s) == s # None /\ s.url # None

(* A limit that is absent, zero or negative is the default.                *)
Limit(given, default) == IF given = None \/ given <= 0 THEN default ELSE given

legacy_providers(d) ==
    <<[name |-> "private", trust |-> "private", url |-> d.private.url, key |-> d.private.key],
      [name |-> "public", trust |-> "public", url |-> d.public.url, key |-> d.public.key]>>

provider_of(endpoint) == IF endpoint = "public" THEN 2 ELSE 1

bind_root(d) ==
    [d EXCEPT !.body = Limit(@, DefaultBody), !.inflight = Limit(@, DefaultInflight)]

rc_config_load(d) ==
    IF /\ ~d.unknown /\ d.host # None /\ d.port # None
       /\ bind_endpoint_section(d.private) /\ bind_endpoint_section(d.public)
       /\ \A a \in ToSet(d.aliases) : a.endpoint \in {"private", "public"}
    THEN bind_root(d) ELSE None

-----------------------------------------------------------------------------
(* rc_config_validate, on what was loaded.                                 *)
rc_config_url_is_valid(u, https_only) ==
    u.scheme \in (IF https_only THEN {"https"} ELSE {"http", "https"}) /\ u.sound

provider_ok(p) ==
    /\ p.trust = "public" => p.key # None
    /\ p.key \notin Malformed

rc_config_validate_providers(d) ==
    LET ps == legacy_providers(d) IN
    /\ IsInjective([i \in DOMAIN ps |-> ps[i].name])
    /\ \A p \in ToSet(ps) : provider_ok(p)
    /\ \A a \in ToSet(d.aliases) : a.endpoint = ps[provider_of(a.endpoint)].trust

alias_ok(a) == {a.from, a.model} \cap Malformed = {} /\ a.from \notin {"private", "public"}

project_ok(p) == {p.name, p.token_env} \cap Malformed = {}

rc_config_validate(d) ==
    /\ d.port \in 1..65535
    /\ d.body <= BodyLimit /\ d.inflight <= InflightLimit
    /\ rc_config_url_is_valid(d.private.url, FALSE)
    /\ rc_config_url_is_valid(d.public.url, TRUE)
    /\ {d.private.model, d.private.key, d.public.key} \cap Malformed = {} /\ d.public.key # None
    /\ \A a \in ToSet(d.aliases) : alias_ok(a)
    /\ IsInjective([i \in DOMAIN d.aliases |-> d.aliases[i].from])
    /\ d.projects # <<>>
    /\ \A p \in ToSet(d.projects) : project_ok(p)
    /\ IsInjective([i \in DOMAIN d.projects |-> d.projects[i].name])
    /\ rc_config_validate_providers(d)

-----------------------------------------------------------------------------
(* recursant-validate.                                                     *)
secret_present(name, env) == name # None => env[name] # None

check_secretsEndpoints(d, env) ==
    secret_present(d.private.key, env) /\ secret_present(d.public.key, env)

rc_config_check_secrets(d, env) ==
    /\ secret_present(d.private.key, env) /\ secret_present(d.public.key, env)
    /\ \A p \in ToSet(d.projects) : secret_present(p.token_env, env)

(* The validator looks up only the names of the two endpoints' keys.       *)
env_lookup(d, env) ==
    [name \in DOMAIN env |-> IF name \in {d.private.key, d.public.key} THEN env[name] ELSE None]

recursant_validate(d, env) ==
    LET c == rc_config_load(d) IN
    c # None /\ rc_config_validate(c) /\ rc_config_check_secrets(c, env_lookup(c, env))
=============================================================================
