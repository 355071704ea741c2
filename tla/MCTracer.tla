------------------------------ MODULE MCTracer ------------------------------
(* Tracer with two connections at once, a limit of one request in flight,  *)
(* and one request or answer of every kind the code tells apart.           *)
EXTENDS Tracer

Section(scheme, key) ==
    [url |-> [scheme |-> scheme, sound |-> TRUE], model |-> None, key |-> key]

Plain ==
    [unknown |-> FALSE, host |-> "localhost", port |-> 8080,
     private |-> Section("http", "PK"), public |-> Section("https", "QK"),
     aliases |-> <<[from |-> "m", endpoint |-> "public", model |-> "n"]>>,
     projects |-> <<[name |-> "a", token_env |-> "PK"], [name |-> "b", token_env |-> "QK"]>>,
     body |-> 1, inflight |-> 1]

(* Documents the tracer starts with, none, and some it must refuse.        *)
MCDocuments == {
    None, Plain,
    [Plain EXCEPT !.projects = <<[name |-> "a", token_env |-> "T"]>>, !.inflight = 0],
    [Plain EXCEPT !.private.url.scheme = "https", !.private.key = None, !.aliases = <<>>],
    [Plain EXCEPT !.unknown = TRUE],
    [Plain EXCEPT !.public.url.scheme = "http"],
    [Plain EXCEPT !.public.key = None],
    [Plain EXCEPT !.port = 0],
    [Plain EXCEPT !.projects = <<>>],
    [Plain EXCEPT !.aliases = @ \o @],
    [Plain EXCEPT !.projects = @ \o @],
    [Plain EXCEPT !.inflight = 3]}

MCEnvironments == [{"PK", "QK", "T"} -> {"t1", None}]

MCArguments == {[inflight |-> None, body |-> 2]}

Good == [head |-> "whole", path |-> "chat", method |-> "POST", length |-> 2, chunked |-> FALSE,
         extra |-> 1, credential |-> [scheme |-> "bearer", token |-> "t1"]]

MCRequests == {
    Good, [Good EXCEPT !.length = 0],
    [Good EXCEPT !.path = "models", !.method = "GET", !.length = None, !.extra = 0],
    [Good EXCEPT !.path = "models", !.method = "GET", !.length = None],
    [Good EXCEPT !.method = "GET"], [Good EXCEPT !.path = "other"],
    [Good EXCEPT !.head = "malformed"], [Good EXCEPT !.head = "version"],
    [Good EXCEPT !.credential.token = "t2"],
    [Good EXCEPT !.length = 3], [Good EXCEPT !.length = None, !.chunked = TRUE]}

MCSizes == {<<"1">>, <<"0", "1">>, <<"1", "0">>}

Sound == [head |-> "ok", length |-> None, chunked |-> TRUE,
          body |-> Encoding(<<[digits |-> <<"1">>, ext |-> FALSE]>>)]

Sized(n, body) == [Sound EXCEPT !.chunked = FALSE, !.length = n, !.body = body]

MCAnswers == {
    Sound, [Sound EXCEPT !.body = <<"1", "x">>],
    Sized(2, <<"x", "x">>), Sized(1, <<"x", "x">>), Sized(None, <<"x">>), Sized(0, <<>>),
    [Sound EXCEPT !.head = "bad"]}
=============================================================================
