----------------------------- MODULE Identities -----------------------------
(***************************************************************************)
(* From the IdP's answer to an account: the identity that a provider makes *)
(* of it, the policy, the CR that is written for it, at the login and from *)
(* the grant of a refresh, and the id_token that the proxy swaps for the   *)
(* CR's ServiceAccount.                                                    *)
(*                                                                         *)
(* That the id_token carries the nonce of the login is part of Broker, the *)
(* calls that a login makes are steps of SignOn.                           *)
(***************************************************************************)
EXTENDS Settings

CONSTANT MaxName  \* longest resource name, 253

\* "a" stands for the lower-case letters and the digits.
Alphanumeric == {"a"}

User == <<"a", "a", "a", "a">>

ASSUME NameAssumption == MaxName \in Nat /\ MaxName >= Len(User)

\* An element of the groups claim that is no string.
NoString == "not a string"

-----------------------------------------------------------------------------
(* Providers.                                                              *)

\* What follows the last '@'.
DomainOf(email) ==
  LET at == SelectLastInSeq(email, LAMBDA c : c = "@")
  IN IF at = 0 THEN <<>> ELSE SubSeq(email, at + 1, Len(email))

Membership(gid, name, domain) == [gid |-> gid, name |-> name, domain |-> domain]

\* Mutant: takes what it finds.
ParseGroupsAll(claim, domain) ==
  IF claim.array THEN {Membership(g, g, domain) : g \in claim.items} ELSE {}

ParseGroups(claim, domain) ==
  IF claim.array THEN {Membership(g, g, domain) : g \in claim.items \ {"", NoString}} ELSE {}

OIDCIdentity(answer) ==
  LET domain == DomainOf(answer.email)
  IN [email |-> answer.email, verified |-> answer.verified, domain |-> domain,
      groups |-> ParseGroups(answer.claim, domain)]

\* fetchGroups: what a page of the directory adds, whatever its groups are called.
PageGroups(page, domain) == {Membership(g.id, g.name, domain) : g \in page}

\* The domain is the hosted one that Google names.
GoogleIdentity(answer, groups) ==
  [email |-> answer.email, verified |-> answer.verified, domain |-> answer.hd,
   groups |-> groups]

\* Callback: a verified email of an allowed domain.
Admits(cfg, id) == id.verified /\ AllowedDomain(cfg, id.domain)

-----------------------------------------------------------------------------
(* The CR.                                                                 *)

\* Lower case, a dash for every other character, no dashes at the ends.
Dashed(email) ==
  LET lower == ToLower(email)
  IN Trim([i \in DOMAIN lower |-> IF lower[i] \in Alphanumeric THEN lower[i] ELSE "-"], {"-"})

\* Mutant: a name that is cut keeps the dashes at its end.
CutOnly(name) == IF Len(name) > MaxName THEN SubSeq(name, 1, MaxName) ELSE name

Cut(name) == IF Len(name) > MaxName THEN Trim(SubSeq(name, 1, MaxName), {"-"}) ELSE name

\* What is left of an email, or "user".
SanitizeName(email) == IF Dashed(email) = <<>> THEN User ELSE Cut(Dashed(email))

CROf(cfg, id) ==
  [name |-> SanitizeName(id.email), ttl |-> cfg.bindTTL, domain |-> id.domain,
   memberships |-> id.groups]

\* DNS-1123 subdomain (of one label, as there are no dots).
Subdomain(name) ==
  /\ Len(name) \in 1..MaxName
  /\ {name[1], name[Len(name)]} \subseteq Alphanumeric
  /\ ToSet(name) \subseteq Alphanumeric \cup {"-"}

\* The pattern of spec.ttl: one whole number and its unit.
TTLAccepted(ttl) == ttl = "12h"

\* What the API server's validation takes.
Accepted(cr) ==
  /\ Subdomain(cr.name) /\ TTLAccepted(cr.ttl) /\ cr.domain # <<>>
  /\ \A m \in cr.memberships :
       m.gid \notin {"", NoString} /\ m.name # "" /\ m.domain # <<>>

-----------------------------------------------------------------------------
(* Grants and id_tokens.                                                   *)

FromGroupRefs(refs) == {[gid |-> r.gid, name |-> r.name, domain |-> r.domain] : r \in refs}

ToGroupRefs(groups) == {[gid |-> m.gid, name |-> m.name, domain |-> m.domain] : m \in groups}

RefreshGrant(id) ==
  [email |-> id.email, verified |-> id.verified, domain |-> id.domain,
   groups |-> ToGroupRefs(id.groups)]

\* handleRefresh: the identity of the grant.
Restored(grant) == [grant EXCEPT !.groups = FromGroupRefs(@)]

IDToken(env, p, id) ==
  [key |-> Signer(env, p).key, iss |-> Signer(env, p).iss, aud |-> env.CLIENT_ID,
   email |-> id.email]

\* The account that the proxy acts for: none when the token is not verified, by
\* what any replica of the broker serves, or has no username.
Swapped(env, token, q) ==
  {SanitizeName(email) :
     email \in {e \in {token.email} \ {<<>>} : Verify(env, {Signer(env, q).key}, token)}}
=============================================================================
