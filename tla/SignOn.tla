------------------------------- MODULE SignOn -------------------------------
(***************************************************************************)
(* The broker from its start: what it is started with, by Settings, and    *)
(* what it makes of the IdP's answers to a first login, by Identities,     *)
(* come before the requests of Broker.  A broker that does not accept its  *)
(* environment exits.                                                      *)
(***************************************************************************)
EXTENDS Broker, Identities

CONSTANTS
  Start,    \* environments, each with the IdP's answers to a login
  Process   \* processes of the broker: replicas, and their restarts

\* A list and an email are texts, and the IdP has verified no email that is not
\* there; the directory answers in pages of groups.
ASSUME StartAssumption ==
  \A s \in Start :
    /\ {s.env.ALLOWED_DOMAINS, s.answer.email} \subseteq Seq(STRING)
    /\ s.answer.verified => s.answer.email # <<>>
    /\ s.answer.pages \in Seq(SUBSET [id : STRING, name : STRING])

VARIABLES
  start,  \* {what the broker starts with}, {} once the first login is over
  login   \* the first login

svars == <<vars, start, login>>

NoLogin == [pc |-> "run", next |-> 1, groups |-> {}, id |-> {}]

StartInit == Init /\ start \in {{s} : s \in Start} /\ login = NoLogin

To(pc) == login' = [login EXCEPT !.pc = pc] /\ UNCHANGED <<start, vars>>

\* run, to the point where the server listens.
Run(s) == login.pc = "run" /\ Serves(s.env) /\ To("exchange")

\* Authenticate, by the provider that is configured: the code is exchanged and the
\* id_token verified.  All is in the claims ...
AuthenticateOIDC(s) ==
  /\ login.pc = "exchange" /\ Load(s.env).idpType # "google"
  /\ login' = [login EXCEPT !.pc = "policy", !.id = {OIDCIdentity(s.answer)}]
  /\ UNCHANGED <<start, vars>>

\* ... or the groups are in the directory, which is read page by page.
AuthenticateGoogle(s) ==
  login.pc = "exchange" /\ Load(s.env).idpType = "google" /\ To("list")

ListPage(s) ==
  /\ login.pc = "list" /\ login.next \in DOMAIN s.answer.pages
  /\ login' = [login EXCEPT !.next = @ + 1,
                            !.groups = @ \cup PageGroups(s.answer.pages[login.next], s.answer.hd)]
  /\ UNCHANGED <<start, vars>>

Listed(s) ==
  /\ login.pc = "list" /\ login.next = Len(s.answer.pages) + 1
  /\ login' = [login EXCEPT !.pc = "policy", !.id = {GoogleIdentity(s.answer, login.groups)}]
  /\ UNCHANGED <<start, vars>>

\* The first login is over.
Over == start' = {} /\ login' = NoLogin /\ UNCHANGED vars

\* Mutant: a listing that breaks off yields what was listed so far.
AuthenticateFailsMildly(s) ==
  \/ login.pc = "exchange" /\ Over
  \/ /\ login.pc = "list"
     /\ login' = [login EXCEPT !.pc = "policy", !.id = {GoogleIdentity(s.answer, login.groups)}]
     /\ UNCHANGED <<start, vars>>

\* The exchange, the verification or the call for any page fails.
AuthenticateFails(s) == login.pc \in {"exchange", "list"} /\ Over

\* Callback's policy, and the rest of the request.
Admit(s) ==
  login.pc = "policy" /\ (\A id \in login.id : Admits(Load(s.env), id)) /\ To("in")

Reject(s) ==
  login.pc = "policy" /\ (\E id \in login.id : ~Admits(Load(s.env), id)) /\ Over

Leave == login.pc = "in" /\ Over

FirstLogin(s) ==
  \/ Run(s) \/ AuthenticateOIDC(s) \/ AuthenticateGoogle(s) \/ ListPage(s) \/ Listed(s)
  \/ AuthenticateFails(s) \/ Admit(s) \/ Reject(s) \/ Leave

Served == start = {} /\ UNCHANGED <<start, login>>

StartNext == (\E s \in start : FirstLogin(s)) \/ (Served /\ Next)

StartSpec ==
  /\ StartInit /\ [][StartNext]_svars
  /\ \A h \in Handler : WF_svars(Served /\ Step(h))
  /\ WF_svars(Served /\ OperatorUnbinds)
  /\ WF_svars(Served /\ Tick)

-----------------------------------------------------------------------------
(* Properties.                                                             *)

\* A broker that serves keeps its sessions where SESSION_STORE says: a backend it
\* does not know never ends up as the memory store.
StoreAsNamed ==
  \A s \in start :
    Serves(s.env) => StoreNew(Load(s.env)) = Env(s.env.SESSION_STORE, "memory")

\* A broker that serves can complete a login: its lists hold a redirect URI that
\* a client and a domain that an identity can have, however they are written.
SomebodyCanLogIn ==
  \A s \in start :
    Serves(s.env) =>
      /\ \E uri \in SplitCSV(s.env.REDIRECT_URIS) \ {<<>>} : RedirectAllowed(Load(s.env), uri)
      /\ \E d \in SplitCSV(s.env.ALLOWED_DOMAINS) \ {<<>>} : AllowedDomain(Load(s.env), d)

\* SanitizeName makes a resource name of any email, also where it has to cut it,
\* and one that stays the same when it is taken for an email.
NamesAreSubdomains ==
  \A s \in start :
    LET name == SanitizeName(s.answer.email)
    IN Subdomain(name) /\ SanitizeName(name) = name

\* The groups of the directory, over all pages.
Directory(s) == UNION ToSet(s.answer.pages)

\* Who is let in gets a CR: with a TTL that the CRD takes and a directory that
\* names its groups, whatever the lists of the configuration and the claims of the
\* IdP look like, an identity that passes the policy yields a CR that the API
\* server takes, at the login and at every refresh from what the store kept of it.
AdmittedIsAccepted ==
  \A s \in start :
    LET cfg == Load(s.env)
    IN /\ login.pc = "in" /\ TTLAccepted(cfg.bindTTL)
       /\ \A g \in Directory(s) : {g.id, g.name} \cap {"", NoString} = {}
       => \A id \in login.id :
            /\ Accepted(CROf(cfg, id))
            /\ CROf(cfg, Restored(RefreshGrant(id))) = CROf(cfg, id)

\* The memberships of a CR replace those of the last login, so who is let in by
\* the Google provider has all the groups that the directory lists: a listing that
\* breaks off, on whichever page, fails the login instead of taking roles away.
AllGroupsOrNone ==
  \A s \in start :
    login.pc = "in" /\ Load(s.env).idpType = "google" =>
      \A id \in login.id : {m.gid : m \in id.groups} = {g.id : g \in Directory(s)}

\* With a signing key configured, and an issuer without a slash at its end, an
\* id_token of any replica, before or after a restart, is verified by the keys of
\* any other, and swapped for the account of the CR that its login wrote.
SwappedForOwnAccount ==
  \A s \in start :
    /\ login.pc = "in" /\ s.env.ID_TOKEN_SIGNING_KEY # ""
    /\ s.env.ISSUER = TrimRight(s.env.ISSUER, {"/"})
    => \A id \in login.id, p, q \in Process :
         Swapped(s.env, IDToken(s.env, p, id), q) = {CROf(Load(s.env), id).name}
=============================================================================
