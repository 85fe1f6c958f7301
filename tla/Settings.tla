------------------------------ MODULE Settings ------------------------------
(***************************************************************************)
(* What the broker and the proxy make of their environment at start: the   *)
(* broker's configuration, the back ends it selects, the key it signs with *)
(* and what the proxy verifies id_tokens against.                          *)
(*                                                                         *)
(* An environment gives every variable a value.  Names that are only       *)
(* tested for being there are strings, "" when unset.  Lists and issuer    *)
(* URLs are texts, sequences of characters.  A duration stands for those   *)
(* of its form: "12h" for a whole number with its unit, "1h30m" for a sum, *)
(* "1.5h" for a fraction, "-1h" for one with a sign, "soon" for the rest.  *)
(***************************************************************************)
EXTENDS Integers, SequencesExt

-----------------------------------------------------------------------------
(* Texts.                                                                  *)

\* s without the characters of cut at its ends, or at its right end.
Trim(s, cut) ==
  LET kept == {i \in DOMAIN s : s[i] \notin cut}
  IN IF kept = {} THEN <<>> ELSE SubSeq(s, Min(kept), Max(kept))

TrimRight(s, cut) == SubSeq(s, 1, Max({0} \cup {i \in DOMAIN s : s[i] \notin cut}))

Split(s, sep) ==
  LET cuts == {0, Len(s) + 1} \cup {i \in DOMAIN s : s[i] = sep}
  IN {SubSeq(s, i + 1, Min({j \in cuts : j > i}) - 1) : i \in cuts \ {Len(s) + 1}}

\* "A" stands for the upper-case letters.
ToLower(s) == [i \in DOMAIN s |-> IF s[i] = "A" THEN "a" ELSE s[i]]

\* Mutant: blank fields stay in the list.
SplitCSVKeepingBlanks(s) == {Trim(field, {" "}) : field \in Split(s, ",")}

\* The fields of a list, trimmed, the blank ones left out.
SplitCSV(s) == {Trim(field, {" "}) : field \in Split(s, ",")} \ {<<>>}

-----------------------------------------------------------------------------
(* Load.                                                                   *)

Env(value, default) == IF value = "" THEN default ELSE value

IdPIssuer(env) ==
  IF env.IDP_TYPE = "google" THEN Env(env.IDP_ISSUER, "accounts.google.com") ELSE env.IDP_ISSUER

Load(env) ==
  [required       |-> <<env.CLIENT_ID, IdPIssuer(env), env.IDP_CLIENT_ID,
                        env.IDP_CLIENT_SECRET, env.IDP_REDIRECT_URL>>,
   issuer         |-> env.ISSUER,
   allowedDomains |-> SplitCSV(env.ALLOWED_DOMAINS),
   redirectURIs   |-> SplitCSV(env.REDIRECT_URIS),
   idpType        |-> Env(env.IDP_TYPE, "oidc"),
   delegatedAdmin |-> env.GOOGLE_DELEGATED_ADMIN,
   backend        |-> Env(env.SESSION_STORE, "memory"),
   redisAddr      |-> env.REDIS_ADDR,
   signingKey     |-> env.ID_TOKEN_SIGNING_KEY,
   bindTTL        |-> Env(env.BIND_TTL, "12h")]

AllowedDomain(cfg, domain) == \E d \in cfg.allowedDomains : ToLower(d) = ToLower(domain)

RedirectAllowed(cfg, uri) == uri \in cfg.redirectURIs

\* Mutant: any backend will do.
ValidateAnyStore(cfg) ==
  /\ cfg.issuer # <<>> /\ "" \notin ToSet(cfg.required)
  /\ cfg.redirectURIs # {} /\ cfg.allowedDomains # {}
  /\ cfg.idpType \in {"oidc", "google"}

\* (The groups claim has a default and is never missing.)
Validate(cfg) ==
  /\ cfg.issuer # <<>> /\ "" \notin ToSet(cfg.required)
  /\ cfg.redirectURIs # {} /\ cfg.allowedDomains # {}
  /\ cfg.idpType \in {"oidc", "google"}
  /\ cfg.idpType = "google" => cfg.delegatedAdmin # ""
  /\ cfg.backend \in {"memory", "redis"}
  /\ cfg.backend = "redis" => cfg.redisAddr # ""

-----------------------------------------------------------------------------
(* run: what the broker is built from.                                     *)

StoreNew(cfg) == IF cfg.backend = "redis" THEN "redis" ELSE "memory"

\* The Google provider needs a service account's key, from a file or from the
\* default credentials.
ProviderBuilt(env) ==
  \/ Load(env).idpType = "oidc"
  \/ Load(env).idpType = "google" /\ env.GOOGLE_CREDENTIALS = "service account key"

\* Mutant: generates a key all the same.
SigningKeyGenerated(pem, p) == [generatedBy |-> p]

\* The key of a broker's process: the configured one, or its own.
SigningKey(pem, p) == IF pem = "" THEN [generatedBy |-> p] ELSE [pem |-> pem]

\* The broker serves, with this environment (and the IdP's discovery, the API
\* server and Redis within reach).
Serves(env) ==
  /\ Validate(Load(env)) /\ ProviderBuilt(env)
  /\ env.ID_TOKEN_SIGNING_KEY # "not RSA"

\* New trims the issuer.
Signer(env, p) ==
  [iss |-> TrimRight(env.ISSUER, {"/"}), key |-> SigningKey(env.ID_TOKEN_SIGNING_KEY, p)]

\* The proxy's verifier: the signature, by the keys that a broker serves, the
\* issuer as it is configured, and the audience.
Verify(env, jwks, token) ==
  /\ token.key \in jwks /\ token.iss = env.ISSUER /\ token.aud = env.CLIENT_ID
=============================================================================
