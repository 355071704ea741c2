------------------------------ MODULE Registry ------------------------------
(***************************************************************************)
(* The configuration document: what `recursant configure` edits            *)
(* (core/src/cli/configure.c), what the daemon accepts and which provider  *)
(* serves a model name under it (core/src/runtime.c, core/src/http/        *)
(* router.c).                                                              *)
(*                                                                         *)
(* A document has the JSON's own fields: either the legacy private and     *)
(* public sections, whose aliases name an endpoint, or providers with an   *)
(* optional private_default.  A url is only its scheme; adapters, patterns, *)
(* the listen address and the limits, which each stand alone, are left     *)
(* out.  context is the set of aliases its candidates name, {} for none,   *)
(* and source the variable of its source key.                              *)
(***************************************************************************)
EXTENDS Naturals, SequencesExt

CONSTANTS
    None,
    Catalog,   \* the known public gateways: name -> key variable (catalog.c)
    Auto       \* context's automatic model name

-----------------------------------------------------------------------------
(* The daemon's view: legacy sections are the implicit providers private   *)
(* and public.                                                             *)
Legacy(d) == d.providers = <<>>

Section(name, s) == [name |-> name, url |-> s.url, trust |-> name, key |-> s.key]

Providers(d) ==
    IF ~Legacy(d) THEN d.providers
    ELSE (IF d.private = None THEN <<>> ELSE <<Section("private", d.private)>>)
      \o (IF d.public = None THEN <<>> ELSE <<Section("public", d.public)>>)

find_provider(ps, name) == SelectInSeq(ps, LAMBDA p : p.name = name)

Trust(d, name) == Providers(d)[find_provider(Providers(d), name)].trust

Default(d) ==
    IF ~Legacy(d) THEN d.default
    ELSE IF d.private = None THEN None
    ELSE [provider |-> "private", model |-> d.private.model]

PublicModel(d) == IF Legacy(d) /\ d.public # None THEN d.public.model ELSE None

(* route: what a requested name stands for.                                *)
Route(d, name) ==
    LET at == SelectInSeq(d.aliases, LAMBDA a : name \in {a.from, a.model}) IN
    IF at # 0 THEN [trust |-> Trust(d, d.aliases[at].to), model |-> d.aliases[at].model]
    ELSE IF Default(d) # None /\ name = Default(d).model THEN [trust |-> "private", model |-> name]
    ELSE IF name = PublicModel(d) THEN [trust |-> "public", model |-> name]
    ELSE None

(* rc_runtime_dispatch_provider: who serves a concrete model.              *)
dispatch_provider(d, trust, model) ==
    LET at == SelectInSeq(d.aliases, LAMBDA a : a.model = model)
        found == IF at # 0 THEN d.aliases[at].to
                 ELSE IF Default(d) # None /\ model = Default(d).model THEN Default(d).provider
                 ELSE IF model = PublicModel(d) THEN "public"
                 ELSE None
    IN IF found # None /\ Trust(d, found) = trust THEN found ELSE None

Served(d, name) ==
    LET r == Route(d, name) IN
    IF r = None THEN None
    ELSE [provider |-> dispatch_provider(d, r.trust, r.model), model |-> r.model]

-----------------------------------------------------------------------------
(* rc_runtime_load, the secrets aside.                                     *)
EndpointOk(p) ==
    /\ p.trust \in {"private", "public"} /\ p.url \in {"http", "https"}
    /\ p.trust = "public" => p.url = "https" /\ p.key # None

RegistryLoads(d) ==
    /\ d.private = None /\ d.public = None
    /\ \A i \in DOMAIN d.providers :
          /\ EndpointOk(d.providers[i])
          /\ \A j \in 1..i - 1 : d.providers[j].name # d.providers[i].name
    /\ d.default # None =>
          \E p \in ToSet(d.providers) : p.name = d.default.provider /\ p.trust = "private"

LegacyLoads(d) ==
    /\ d.default = None /\ d.private # None /\ d.private.model # None
    /\ \A p \in ToSet(Providers(d)) : EndpointOk(p)

AgreeAliases(a, b) ==
    a.from = b.model \/ a.model = b.from => a.to = b.to /\ a.model = b.model

(* A concrete name means one thing, whether an alias or a model says it.   *)
Agree(a, b) ==
    a.from = b.model \/ a.model = b.from \/ a.model = b.model =>
        a.to = b.to /\ a.model = b.model

IdentifiersAgree(d) ==
    /\ Default(d) # None /\ PublicModel(d) # None => Default(d).model # PublicModel(d)
    /\ \A i \in DOMAIN d.aliases :
          LET a == d.aliases[i] IN
          /\ Default(d) # None /\ Default(d).model \in {a.from, a.model} =>
                a.to = Default(d).provider /\ a.model = Default(d).model
          /\ PublicModel(d) # None /\ PublicModel(d) \in {a.from, a.model} =>
                Trust(d, a.to) = "public" /\ a.model = PublicModel(d)
          /\ \A j \in 1..i - 1 :
                /\ d.aliases[j].from # a.from
                /\ Agree(a, d.aliases[j])

(* context calls private_default for its interpreter without a key.        *)
ContextLoads(d) ==
    /\ d.source # None => d.source # d.auth
    /\ d.context # {} =>
        /\ d.source # None
        /\ Default(d) # None /\ Auto # Default(d).model /\ Auto # PublicModel(d)
        /\ \A p \in ToSet(Providers(d)) : p.name = Default(d).provider => p.key = None
        /\ \A a \in ToSet(d.aliases) : Auto \notin {a.from, a.model}
        /\ \A name \in d.context : \E a \in ToSet(d.aliases) : a.from = name

Loads(d) ==
    /\ d # None
    /\ IF Legacy(d) THEN LegacyLoads(d) ELSE RegistryLoads(d)
    /\ \A a \in ToSet(d.aliases) : find_provider(Providers(d), a.to) # 0
    /\ IdentifiersAgree(d)
    /\ d.compliance => Default(d) # None
    /\ ContextLoads(d)

Secrets(d) == ({d.auth, d.source} \cup {p.key : p \in ToSet(Providers(d))}) \ {None}

-----------------------------------------------------------------------------
(* The edits.  Each gives the document it leaves, also when it refuses:    *)
(* what it changed before the refusal stays in memory.                     *)
Done(d) == [doc |-> d, ok |-> TRUE]
Refused(d) == [doc |-> d, ok |-> FALSE]

to_registryBare(d) ==
    IF ~Legacy(d) \/ d.private = None THEN d
    ELSE [d EXCEPT !.private = None, !.public = None, !.providers = Providers(d),
                   !.default = IF d.private.model # None THEN Default(d) ELSE d.default]

(* The legacy form becomes the providers form: "same meaning, named        *)
(* providers".  public.model was a name of its own, so it gets an alias.   *)
to_registry(d) ==
    IF ~Legacy(d) \/ d.private = None THEN d
    ELSE [d EXCEPT
            !.private = None, !.public = None, !.providers = Providers(d),
            !.default = IF d.private.model # None THEN Default(d) ELSE d.default,
            !.aliases = IF PublicModel(d) = None \/ \E a \in ToSet(@) : a.model = PublicModel(d)
                        THEN @
                        ELSE Append(@, [from |-> PublicModel(d), to |-> "public",
                                        model |-> PublicModel(d)])]

Given(new, old) == IF new = None THEN old ELSE new

upsert_provider(d0, e) ==
    LET d     == to_registry(d0)
        at    == find_provider(d.providers, e.name)
        known == e.name \in DOMAIN Catalog
        blank == [name |-> e.name, url |-> None, trust |-> None, key |-> None]
        p0    == IF at # 0 THEN d.providers[at]
                 ELSE IF e.url # None THEN blank
                 ELSE [blank EXCEPT !.url = "https", !.trust = "public", !.key = Catalog[e.name]]
        p1    == [p0 EXCEPT !.url = Given(e.url, @)]
        p2    == [p1 EXCEPT !.trust = Given(e.trust, @),
                            !.key = IF e.key = "none" THEN None ELSE Given(e.key, @)]
        p3    == [p2 EXCEPT !.trust = Given(@, "public")]
        With(p) == [d EXCEPT !.providers = IF at = 0 THEN Append(@, p) ELSE [@ EXCEPT ![at] = p]]
    IN IF at = 0 /\ e.url = None /\ ~known THEN Refused(d)
       ELSE IF e.trust \notin {None, "private", "public"} THEN Refused(With(p1))
       ELSE IF p2.trust = None /\ ~known THEN Refused(With(p2))
       ELSE IF p3.key = None /\ p3.trust = "public" THEN Refused(With(p3))
       ELSE Done(With(p3))

remove_provider(d0, e) ==
    LET d  == to_registry(d0)
        at == find_provider(d.providers, e.name)
    IN IF at = 0 \/ (\E a \in ToSet(d.aliases) : a.to = e.name)
             \/ (d.default # None /\ d.default.provider = e.name)
       THEN Refused(d)
       ELSE Done([d EXCEPT !.providers = RemoveAt(@, at)])

set_alias(d0, e) ==
    LET d  == to_registry(d0)
        at == SelectInSeq(d.aliases, LAMBDA a : a.from = e.from)
        a  == [from |-> e.from, to |-> e.to, model |-> e.model]
    IN IF find_provider(d.providers, e.to) = 0 THEN Refused(d)
       ELSE Done([d EXCEPT !.aliases = IF at = 0 THEN Append(@, a) ELSE [@ EXCEPT ![at] = a]])

remove_alias(d, e) ==
    LET at == SelectInSeq(d.aliases, LAMBDA a : a.from = e.from) IN
    IF at = 0 THEN Refused(d) ELSE Done([d EXCEPT !.aliases = RemoveAt(@, at)])

set_private_default(d0, e) ==
    LET d  == to_registry(d0)
        at == find_provider(d.providers, e.provider)
    IN IF at = 0 \/ d.providers[at].trust # "private" THEN Refused(d)
       ELSE Done([d EXCEPT !.default = [provider |-> e.provider, model |-> e.model]])

set_compliance(d, e) == Done([d EXCEPT !.compliance = e.on])

Apply(d, e) ==
    CASE e.op = "add-provider"    -> upsert_provider(d, e)
      [] e.op = "remove-provider" -> remove_provider(d, e)
      [] e.op = "alias"           -> set_alias(d, e)
      [] e.op = "remove-alias"    -> remove_alias(d, e)
      [] e.op = "private-default" -> set_private_default(d, e)
      [] e.op = "compliance"      -> set_compliance(d, e)

-----------------------------------------------------------------------------
(* What a document gives a name to mean.                                   *)
Names(d) ==
    UNION {{a.from, a.model} : a \in ToSet(d.aliases)}
    \cup {m \in {IF Default(d) = None THEN None ELSE Default(d).model, PublicModel(d)} : m # None}

Meanings(d, name) ==
    {[provider |-> a.to, model |-> a.model] : a \in {b \in ToSet(d.aliases) : name \in {b.from, b.model}}}
    \cup (IF Default(d) # None /\ name = Default(d).model THEN {Default(d)} ELSE {})
    \cup (IF name = PublicModel(d) THEN {[provider |-> "public", model |-> name]} ELSE {})
=============================================================================
