----------------------------- MODULE AdapterConfig -----------------------------
(***************************************************************************)
(* What the adapters make of their configuration file and of the           *)
(* environment before they serve. The credential of the git-adapter is in  *)
(* GitCredential. A configuration records which fields have a value:       *)
(*                                                                         *)
(*   file       "missing", "malformed" or "ok"                             *)
(*   given      the top-level and provider fields that are not empty       *)
(*   endpoint   "", ":port" or "host:port"                                 *)
(*   advertise  the advertise_endpoint, likewise                           *)
(*   provider   the name of the model or CI provider, or ""                *)
(*   caps       the capabilities: the fields given, and whether each       *)
(*              schema is "", "ok" or one that does not compile            *)
(*   secret     whether the variable that holds the credential has a value *)
(***************************************************************************)
EXTENDS Naturals, Sequences

Addresses == {"", ":port", "host:port"}
Schemas == {"", "ok", "bad"}

Configuration ==
    [file : {"missing", "malformed", "ok"}, given : SUBSET STRING, endpoint : Addresses, advertise : Addresses,
     provider : STRING, caps : Seq([given : SUBSET STRING, input : Schemas, output : Schemas]), secret : BOOLEAN]

Configured == {"llm-adapter", "adk-adapter", "ci-adapter", "git-adapter", "http-adapter"}

\* Those whose credential is a variable with a value or without.
Keyed == {"llm-adapter", "ci-adapter"}

\* At least one capability, and the required fields in every one.
Declare(c, fields) == Len(c.caps) > 0 /\ \A i \in DOMAIN c.caps : fields \subseteq c.caps[i].given

-----------------------------------------------------------------------------
(* llm-adapter *)

hasExplicitHost(addr) == addr = "host:port"

validateIdentity(c) ==
    /\ "agent_id" \in c.given
    /\ c.endpoint # ""
    /\ c.advertise # "" \/ hasExplicitHost(c.endpoint)

validProviders == {"openai", "bedrock", "ollama"}

validateRequiredByProvider(c) ==
    /\ (c.provider \in {"openai", "bedrock"}) => "api_key_env" \in c.given
    /\ (c.provider = "ollama") => "ollama_base_url" \in c.given
    /\ (c.provider = "bedrock") => "region" \in c.given

validateProvider(c) ==
    /\ c.provider \in validProviders
    /\ "model" \in c.given
    /\ validateRequiredByProvider(c)

validateLLM(c) == validateIdentity(c) /\ Declare(c, {"name"}) /\ validateProvider(c)

\* ErrSecretMissing: a key is named and has no value. Ollama may name none.
ResolveSecret(c) == "api_key_env" \in c.given => c.secret

\* A handler is built for every capability; only input schemas are compiled.
NewRouter(c) == \A i \in DOMAIN c.caps : c.caps[i].input # "bad"

-----------------------------------------------------------------------------
(* adk-adapter *)

withDefaults(c) == [c EXCEPT !.endpoint = IF @ = "" THEN ":port" ELSE @,
                             !.provider = IF @ = "" THEN "ollama" ELSE @]

validateADK(c) ==
    /\ "agent_id" \in c.given
    /\ c.advertise # "" \/ hasExplicitHost(c.endpoint)
    /\ c.provider = "ollama"
    /\ Declare(c, {"name"})

newAgentServer(c) == \A i \in DOMAIN c.caps : "bad" \notin {c.caps[i].input, c.caps[i].output}

-----------------------------------------------------------------------------
(* ci-adapter, git-adapter and http-adapter *)

validateCI(c) ==
    /\ {"agent_id", "token_env"} \subseteq c.given
    /\ c.endpoint # "" /\ c.provider # ""
    /\ Declare(c, {"name", "owner", "repo", "workflow_id"})

\* ErrTokenMissing
ResolveCIToken(c) == c.secret

\* App mode needs the names of all three variables, and wins over a token.
validateGitAuth(c) ==
    IF "app" \in c.given THEN {"app_id_env", "installation_id_env", "private_key_env"} \subseteq c.given
    ELSE "auth_env" \in c.given

validateGit(c) ==
    /\ "agent_id" \in c.given
    /\ c.endpoint # "" /\ c.provider # ""
    /\ validateGitAuth(c)
    /\ Declare(c, {"name", "owner", "repo"})

validateHTTP(c) ==
    /\ "agent_id" \in c.given
    /\ c.endpoint # ""
    /\ Declare(c, {"name", "method", "url"})

-----------------------------------------------------------------------------
(* The steps of a startup that depend on the configuration. *)

loadLLM(c) == c.file = "ok" /\ validateLLM(c)
loadADK(c) == c.file = "ok" /\ validateADK(withDefaults(c))
loadCI(c) == c.file = "ok" /\ validateCI(c)
loadGit(c) == c.file = "ok" /\ validateGit(c)
loadHTTP(c) == c.file = "ok" /\ validateHTTP(c)

LoadConfig(adapter, c) ==
    CASE adapter = "llm-adapter" -> loadLLM(c)
      [] adapter = "adk-adapter" -> loadADK(c)
      [] adapter = "ci-adapter" -> loadCI(c)
      [] adapter = "git-adapter" -> loadGit(c)
      [] adapter = "http-adapter" -> loadHTTP(c)

CredentialFound(adapter, c) == IF adapter = "ci-adapter" THEN ResolveCIToken(c) ELSE ResolveSecret(c)

NewAgentServer(adapter, c) == IF adapter = "adk-adapter" THEN newAgentServer(c) ELSE NewRouter(c)

-----------------------------------------------------------------------------
(* The fields that the calls of an adapter read once it serves, stated     *)
(* without regard to where the startup checks them. Only whether they are  *)
(* there: the ci- and git-adapter take any provider and any capability     *)
(* name, and a call of one they do not know fails.                         *)

HasCredential(adapter, c) ==
    CASE adapter = "ci-adapter" -> c.secret
      [] adapter = "llm-adapter" /\ c.provider \in {"openai", "bedrock"} -> c.secret
      [] OTHER -> TRUE

HasUpstream(adapter, c) ==
    CASE adapter = "llm-adapter" -> "model" \in c.given /\ (c.provider = "ollama" => "ollama_base_url" \in c.given)
      [] adapter = "ci-adapter" -> \A i \in DOMAIN c.caps : {"owner", "repo", "workflow_id"} \subseteq c.caps[i].given
      [] adapter = "git-adapter" -> \A i \in DOMAIN c.caps : {"owner", "repo"} \subseteq c.caps[i].given
      [] adapter = "http-adapter" -> \A i \in DOMAIN c.caps : {"method", "url"} \subseteq c.caps[i].given
      [] OTHER -> TRUE

\* The model adapters validate the input against the schema, if there is one.
HasSchemas(adapter, c) ==
    adapter \in {"llm-adapter", "adk-adapter"} => \A i \in DOMAIN c.caps : c.caps[i].input # "bad"

\* Reached by the broker: not by a bind address without a host, for the model adapters.
IsReachable(adapter, c) ==
    adapter \in {"llm-adapter", "adk-adapter"} => c.advertise # "" \/ c.endpoint = "host:port"

FieldsGiven(adapter, c) ==
    /\ Len(c.caps) > 0
    /\ HasCredential(adapter, c) /\ HasUpstream(adapter, c)
    /\ HasSchemas(adapter, c) /\ IsReachable(adapter, c)

=============================================================================
