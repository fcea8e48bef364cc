------------------------------ MODULE Registry ------------------------------
(***************************************************************************)
(* What the client of the benchmark registry accepts: a response that      *)
(* names what was asked for, resources within the limits, downloads that   *)
(* match what is declared, and a definition that can be assembled with the *)
(* prompt it names.  The operators are used by BenchmarkLife.              *)
(*                                                                         *)
(* Contents are numbers, a content's SHA-256 is the content itself, and a  *)
(* path is the sequence of its components.                                 *)
(***************************************************************************)
EXTENDS Naturals, Sequences, FiniteSets, Folds

CONSTANTS
    MaxResourceCount, MaxResourceBytes, MaxBundleBytes,
    SizeOf,          \* [Content -> its number of bytes]
    DefinitionOf,    \* [Content -> the benchmark it defines, or NULL]
    NULL

Malformed == NULL      \* what is no digest, identifier or version

(* A definition, as far as it is looked at: is it custom_nocode, do its style and
   metrics pass validation, where is its prompt. *)
Definition(name, nocode, sound, prompt, limit) ==
    [name |-> name, nocode |-> nocode, sound |-> sound, prompt |-> prompt, limit |-> limit]

-----------------------------------------------------------------------------
ValidatePath(path) ==
    /\ path # <<>>
    /\ \A i \in DOMAIN path : path[i] \notin {"/", ".", "..", "\\"}

ValidateUrl(url, allowPlaintext) ==
    url = "https" \/ (url = "http" /\ allowPlaintext)

ValidateSha256(digest) == digest # Malformed

ValidateIdentity(name, version, response) ==
    /\ response.name = name
    /\ response.version # Malformed
    /\ version # NULL => response.version = version
    /\ ValidateSha256(response.sha256)

SumOfSizes(resources) ==
    MapThenFoldSet(+, 0, LAMBDA i : resources[i].size, LAMBDA s : CHOOSE i \in s : TRUE, DOMAIN resources)

ValidateResources(resources, allowPlaintext) ==
    /\ Len(resources) \in 1..MaxResourceCount
    /\ \A i \in DOMAIN resources :
          /\ resources[i].id # Malformed
          /\ ValidatePath(resources[i].path)
          /\ resources[i].kind \in {"definition", "prompt_template", "other"}
          /\ ValidateUrl(resources[i].url, allowPlaintext)
          /\ ValidateSha256(resources[i].sha256)
          /\ resources[i].size <= MaxResourceBytes
    /\ \A i, j \in DOMAIN resources :
          i # j => resources[i].id # resources[j].id /\ resources[i].path # resources[j].path
    /\ SumOfSizes(resources) <= MaxBundleBytes
    /\ Cardinality({i \in DOMAIN resources : resources[i].kind = "definition"}) = 1

(* Mutant: the size is believed. *)
VerifySizeOnly(resource, bytes) == SizeOf[bytes] = resource.size

(* What is served at the resource's URL passes for it. *)
Verify(resource, bytes) ==
    /\ SizeOf[bytes] <= MaxResourceBytes
    /\ SizeOf[bytes] = resource.size
    /\ bytes = resource.sha256

(* The downloads, by path; served[i] is what is served for resource i. *)
Download(resources, served) ==
    [p \in {resources[i].path : i \in DOMAIN resources} |->
        served[CHOOSE i \in DOMAIN resources : resources[i].path = p]]

Parent(path) == SubSeq(path, 1, Len(path) - 1)

(* The benchmark of a response and its downloads, or NULL. *)
Assemble(name, response, downloaded) ==
    LET rs == response.resources
        path == (CHOOSE r \in {rs[i] : i \in DOMAIN rs} : r.kind = "definition").path
        def == DefinitionOf[downloaded[path]]
        prompt == Parent(path) \o def.prompt
        IsPrompt(r) == r.kind = "prompt_template" /\ ValidatePath(r.path) /\ r.path = prompt
    IN  IF /\ def # NULL /\ def.name = name /\ def.nocode /\ def.sound
           /\ ValidatePath(def.prompt)
           /\ \E i \in DOMAIN rs : IsPrompt(rs[i])
        THEN [limit |-> def.limit, text |-> downloaded[prompt],
              version |-> response.version, sha256 |-> response.sha256]
        ELSE NULL
=============================================================================
