---------------------------- MODULE GitCredential ----------------------------
(***************************************************************************)
(* The credential of the git-adapter: how it is resolved at startup (a     *)
(* personal token, or a GitHub App whose installation tokens are minted    *)
(* and refreshed), the least-privilege gate, and the tokens that           *)
(* concurrent requests take from the source.                               *)
(***************************************************************************)
EXTENDS Naturals, FiniteSets

CONSTANTS Environments,  \* configurations and environments, see Environment
          Outbound,      \* concurrent outbound requests
          RefreshSkew,   \* refreshSkew
          Lifetime,      \* lifetime of an installation token
          MaxTime        \* bound on the clock

\* GitHub's tokens last an hour, and are replaced five minutes before.
ASSUME GitCredentialAssumption ==
    /\ RefreshSkew \in Nat \ {0}
    /\ Lifetime \in Nat /\ Lifetime >= RefreshSkew
    /\ MaxTime \in Nat \ {0}

VARIABLES env,      \* the environment of this run
          stage,    \* "config", "credential", "gate", then what the process does
          now,      \* the clock
          held,     \* the held installation token's expiry; 0: none is held
          holder,   \* the request that holds the source's mutex, or "none"
          sending,  \* of each request: "idle", "wait", "mint", "sent" or "failed"
          sent      \* of each request, its token: [expires, at, fallback]

credVars == <<env, stage, now, held, holder, sending, sent>>

NoToken == [expires |-> 0, at |-> 0, fallback |-> FALSE]

\* app: whether git.app is configured; names: whether the config names the
\* variables; ids: the App's ids; key: the private key, or the token; scopes: what
\* the probe of the token finds.
Environment == [app : BOOLEAN, names : BOOLEAN, ids : {"missing", "malformed", "ok"},
                key : {"missing", "malformed", "ok"}, mode : STRING, mcp : BOOLEAN,
                scopes : SUBSET STRING \cup {"none", "error"}]

validateAuth == env.names

\* A missing variable is told apart from a malformed one.
envInt64 == env.ids
ResolveAppCredentials ==
    CASE envInt64 # "ok" -> envInt64
      [] envInt64 = "ok" /\ env.key = "missing" -> "missing"
      [] OTHER -> "ok"
parseRSAPrivateKey == env.key = "ok"
NewGitHubAppMinter == IF parseRSAPrivateKey THEN "ok" ELSE "malformed"
ResolveToken == IF env.key = "missing" THEN "missing" ELSE "ok"

resolveCredentialSource ==
    IF ~env.app THEN ResolveToken
    ELSE IF ResolveAppCredentials = "ok" THEN NewGitHubAppMinter
    ELSE ResolveAppCredentials

\* An unknown mode enforces.
ParseMode == IF env.mode = "warn" THEN "warn" ELSE "enforce"

overBroadScopes == {"repo", "write:org", "admin:org", "delete_repo", "admin:repo_hook", "admin:org_hook",
                    "admin:public_key", "admin:gpg_key", "user", "delete:packages", "site_admin"}

\* A token without the scope header is fine-grained.
Inspect == IF env.scopes = {"none"} THEN {} ELSE env.scopes \cap overBroadScopes
Probed == env.scopes # {"error"}

\* A probe that could not run does not stop the adapter.
validateTokenScope == ~Probed \/ Inspect = {} \/ ParseMode = "warn"

-----------------------------------------------------------------------------
CredentialInit ==
    /\ env \in Environments
    /\ stage = "config" /\ now = 1 /\ held = 0 /\ holder = "none"
    /\ sending = [r \in Outbound |-> "idle"]
    /\ sent = [r \in Outbound |-> NoToken]

Load ==
    /\ stage = "config"
    /\ stage' = IF validateAuth THEN "credential" ELSE "exit"
    /\ UNCHANGED <<env, now, held, holder, sending, sent>>

\* A missing credential degrades the adapter; any other failure ends it.
Resolve ==
    /\ stage = "credential"
    /\ stage' = CASE resolveCredentialSource = "ok" -> "gate"
                  [] resolveCredentialSource = "missing" -> "degraded"
                  [] OTHER -> "exit"
    /\ UNCHANGED <<env, now, held, holder, sending, sent>>

\* The gate takes a token from the source, which an App mints for it.
runScopeGate(minted) ==
    /\ stage = "gate"
    /\ ~env.app => minted
    /\ stage' = CASE ~minted \/ ~validateTokenScope -> "exit"
                  [] minted /\ validateTokenScope -> IF env.mcp THEN "mcp" ELSE "grpc"
    /\ held' = IF env.app /\ minted THEN now + Lifetime ELSE held
    /\ UNCHANGED <<env, now, holder, sending, sent>>

-----------------------------------------------------------------------------
(* Token of the AppSource; a StaticSource just hands out its token.        *)

Serving == stage \in {"mcp", "grpc"}

\* Mutant: a token is held until it expires.
validUntilExpiry == held # 0 /\ now < held

valid == held # 0 /\ now + RefreshSkew < held

Send(r, expires, fallback) ==
    /\ sending' = [sending EXCEPT ![r] = "sent"]
    /\ sent' = [sent EXCEPT ![r] = [expires |-> expires, at |-> now, fallback |-> fallback]]

\* The expiry of a personal token is not known to the adapter: beyond the clock.
Static == MaxTime + RefreshSkew

RoundTrip(r) ==
    /\ Serving /\ sending[r] = "idle"
    /\ IF env.app
       THEN sending' = [sending EXCEPT ![r] = "wait"] /\ UNCHANGED sent
       ELSE Send(r, Static, FALSE)
    /\ UNCHANGED <<env, stage, now, held, holder>>

\* The mutex is taken: a valid token is handed out, otherwise one is minted, with
\* the mutex held.
Token(r) ==
    /\ sending[r] = "wait" /\ holder = "none"
    /\ \/ valid /\ Send(r, held, FALSE) /\ UNCHANGED holder
       \/ /\ ~valid
          /\ holder' = r
          /\ sending' = [sending EXCEPT ![r] = "mint"]
          /\ UNCHANGED sent
    /\ UNCHANGED <<env, stage, now, held>>

\* A new token; without an expiry it is taken to last for RefreshSkew.
Mint(r, dated) ==
    /\ sending[r] = "mint"
    /\ held' = now + (IF dated THEN Lifetime ELSE RefreshSkew)
    /\ holder' = "none"
    /\ Send(r, held', FALSE)
    /\ UNCHANGED <<env, stage, now>>

\* Minting fails: a held token that has not expired serves this request.
MintFails(r) ==
    /\ sending[r] = "mint"
    /\ holder' = "none"
    /\ IF held # 0 /\ now < held THEN Send(r, held, TRUE)
       ELSE sending' = [sending EXCEPT ![r] = "failed"] /\ UNCHANGED sent
    /\ UNCHANGED <<env, stage, now, held>>

\* A request ends, and its goroutine may send another one.
Answered(r) ==
    /\ sending[r] \in {"sent", "failed"}
    /\ sending' = [sending EXCEPT ![r] = "idle"]
    /\ sent' = [sent EXCEPT ![r] = NoToken]
    /\ UNCHANGED <<env, stage, now, held, holder>>

Tick ==
    /\ now < MaxTime /\ Serving
    /\ now' = now + 1
    /\ UNCHANGED <<env, stage, held, holder, sending, sent>>

CredentialNext ==
    \/ Load \/ Resolve \/ Tick
    \/ \E b \in BOOLEAN : runScopeGate(b)
    \/ \E r \in Outbound : RoundTrip(r) \/ Token(r) \/ MintFails(r) \/ Answered(r)
    \/ \E r \in Outbound, b \in BOOLEAN : Mint(r, b)

CredentialSpec == CredentialInit /\ [][CredentialNext]_credVars

-----------------------------------------------------------------------------
(* Properties.                                                             *)

\* A request never carries an expired token, and keeps the whole refresh margin
\* unless minting failed or GitHub gave no expiry: of two requests that find the
\* token stale, the second uses what the first has minted. No request is sent with
\* a token whose known scopes are too broad while the gate enforces.
TokenOutlivesRequest ==
    \A r \in Outbound : sending[r] = "sent" =>
       /\ sent[r].at < sent[r].expires
       /\ sent[r].fallback \/ sent[r].at + RefreshSkew <= sent[r].expires
       /\ Probed /\ Inspect # {} => ParseMode = "warn"

=============================================================================
