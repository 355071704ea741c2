------------------------------ MODULE MCSetup -------------------------------
(* Setup over documents of one or two providers: the legacy form with and  *)
(* without an alias for its public model, and the providers form with a    *)
(* context.                                                                *)
EXTENDS Setup, TLC

Gateways == ("router" :> "ROUTER_KEY")

NoShell == [o \in Operators |-> {}]

Exports == [o \in Operators |-> {"ROUTER_KEY"}]

Blank == [private |-> None, public |-> None, providers |-> <<>>, default |-> None, aliases |-> <<>>,
          auth |-> "CLIENT_KEY", compliance |-> TRUE, context |-> {},
          source |-> None]

Alias(from, to, model) == [from |-> from, to |-> to, model |-> model]

Local == [name |-> "local", url |-> "http", trust |-> "private", key |-> None]

Fresh == [Blank EXCEPT !.providers = <<Local>>, !.default = [provider |-> "local", model |-> "small"],
                       !.aliases = <<Alias("local", "local", "small")>>]

Old(model, aliases) ==
    [Blank EXCEPT !.private = [url |-> "http", model |-> "small", key |-> None],
                  !.public = [url |-> "https", model |-> model, key |-> "PUBLIC_KEY"],
                  !.aliases = aliases]

Gpu == [name |-> "gpu", url |-> "http", trust |-> "private", key |-> None]

Router == [name |-> "router", url |-> "https", trust |-> "public", key |-> "ROUTER_KEY"]

Agent == [Fresh EXCEPT !.providers = <<Local, Gpu, Router>>,
                       !.aliases = @ \o <<Alias("cheap", "router", "large")>>,
                       !.context = {"local", "cheap"}, !.source = "SOURCE_KEY"]

Starting ==
    {None, Agent, Old(None, <<Alias("big", "public", "large")>>), Old("large", <<>>),
     Old("large", <<Alias("home", "private", "small"), Alias("big", "public", "large")>>)}

Endpoint(name, url, trust, key) ==
    [op |-> "add-provider", name |-> name, url |-> url, trust |-> trust, key |-> key]

Entries ==
    {Endpoint("router", None, None, None),
     Endpoint("gpu", "http", "private", "none"),
     Endpoint("gpu", "http", "public", "ROUTER_KEY"),
     Endpoint("local", "https", "public", "ROUTER_KEY"),
     Endpoint("local", "https", "elsewhere", None)}
    \cup {[op |-> "remove-provider", name |-> n] : n \in {"gpu", "public"}}
    \cup {[op |-> "alias", from |-> a[1], to |-> a[2], model |-> a[3]] :
            a \in {<<"cheap", "router", "large">>, <<"big", "gpu", "large">>,
                   <<"small", "gpu", "large">>, <<"auto", "local", "small">>}}
    \cup {[op |-> "remove-alias", from |-> n] : n \in {"local", "big", "cheap"}}
    \cup {[op |-> "private-default", provider |-> "gpu", model |-> m] : m \in {"small", "large"}}
    \cup {[op |-> "compliance", on |-> FALSE]}
    \cup {[op |-> "set-key", key |-> "ROUTER_KEY"]}
=============================================================================
