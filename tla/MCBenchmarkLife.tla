-------------------------- MODULE MCBenchmarkLife ---------------------------
(* Instances of BenchmarkLife for TLC.  Contents 1 and 2 are definitions, the second
   without a limit, 3 and 4 are prompts of one size, 5 is a definition of something
   else. *)
EXTENDS BenchmarkLife, TLC

MCSizeOf == [c \in 1..5 |-> 1]
MCDefinitionOf ==
    (1 :> Definition("b", TRUE, TRUE, <<"prompt.txt">>, 1)) @@
    (2 :> Definition("b", TRUE, TRUE, <<"prompt.txt">>, NULL)) @@
    (5 :> Definition("c", TRUE, TRUE, <<"prompt.txt">>, 1)) @@ [c \in {3, 4} |-> NULL]

Resource(id, kind, path, content) ==
    [id |-> id, kind |-> kind, path |-> path, url |-> "https", sha256 |-> content, size |-> 1]
Bundle(definition, prompt) ==
    << Resource(1, "definition", <<"b", "quantiles.toml">>, definition),
       Resource(2, "prompt_template", <<"b", "prompt.txt">>, prompt) >>
Response(version, sha256, resources) ==
    [name |-> "b", version |-> version, sha256 |-> sha256, resources |-> resources]

SomeResponses ==
    { Response(1, 11, Bundle(1, 3)),
      Response(1, 12, Bundle(2, 4)),
      Response(2, 21, Bundle(1, 4)) }

Section(kind, limit, prompt) ==
    [kind |-> kind, limit |-> limit, prompt |-> prompt, sound |-> TRUE, command |-> TRUE, text |-> NULL]
SomeSections == { Section("nocode", 3, "own"), Section("code", NULL, NULL) }

Overriding == {NoInput, [NoInput EXCEPT !.limit = 1], [NoInput EXCEPT !.prompt = "own"]}

Commands == Permutations(Proc)
=============================================================================
