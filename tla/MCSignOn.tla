------------------------------ MODULE MCSignOn ------------------------------
(* A small instance of SignOn.  The broker starts with environments that   *)
(* differ from a plain one in two variables, with answers of both kinds of *)
(* provider, and with the shortest emails.                                 *)
EXTENDS SignOn

Plain ==
  [ISSUER |-> <<"x">>, CLIENT_ID |-> "id", REDIRECT_URIS |-> <<"u">>,
   ALLOWED_DOMAINS |-> <<"a">>, IDP_TYPE |-> "oidc", IDP_ISSUER |-> "idp",
   IDP_CLIENT_ID |-> "id", IDP_CLIENT_SECRET |-> "secret", IDP_REDIRECT_URL |-> "url",
   GOOGLE_DELEGATED_ADMIN |-> "admin", GOOGLE_CREDENTIALS |-> "service account key",
   SESSION_STORE |-> "memory", REDIS_ADDR |-> "addr", ID_TOKEN_SIGNING_KEY |-> "RSA",
   BIND_TTL |-> "12h"]

Values ==
  [ISSUER |-> {<<>>, <<"x", "/">>}, CLIENT_ID |-> {""},
   REDIRECT_URIS |-> SeqOf({"u", " ", ","}, 2), ALLOWED_DOMAINS |-> SeqOf({"A", " ", ","}, 2),
   IDP_TYPE |-> {"", "google", "ldap"}, IDP_ISSUER |-> {""},
   IDP_CLIENT_ID |-> {""}, IDP_CLIENT_SECRET |-> {""}, IDP_REDIRECT_URL |-> {""},
   GOOGLE_DELEGATED_ADMIN |-> {""}, GOOGLE_CREDENTIALS |-> {""},
   SESSION_STORE |-> {"", "redis", "etcd"}, REDIS_ADDR |-> {""},
   ID_TOKEN_SIGNING_KEY |-> {"", "not RSA"},
   BIND_TTL |-> {"", "1h30m", "1.5h", "-1h", "soon"}]

Varied(env) == UNION {{[env EXCEPT ![v] = x] : x \in Values[v]} : v \in DOMAIN Values}

Environments == UNION {Varied(env) : env \in {Plain} \cup Varied(Plain)}

Listing == [id : {"g1", "g2"}, name : {"", "n"}]

Answered ==
  [email |-> <<"a", "@", "a">>, verified |-> TRUE, hd |-> <<"a">>,
   claim |-> [array |-> TRUE, items |-> {"g1"}],
   pages |-> <<{[id |-> "g1", name |-> "n"]}, {[id |-> "g2", name |-> "n"]}>>]

\* A claim of anything, and a directory of any groups on up to three pages.
Answers ==
  {[Answered EXCEPT !.verified = v, !.claim = [array |-> a, items |-> i]] :
     v \in BOOLEAN, a \in BOOLEAN, i \in SUBSET {"g1", "", NoString}}
  \cup {[Answered EXCEPT !.hd = d, !.pages = p] :
          d \in {<<>>, <<"A">>}, p \in SeqOf({{g} : g \in Listing} \cup {{}}, 3)}

\* The IdP has verified no email that is not there.
Emails == {[Answered EXCEPT !.email = e, !.verified = (e # <<>>)] : e \in SeqOf({"a", "A", "@"}, 5)}

Starts ==
  {[env |-> e, answer |-> Answered] : e \in Environments}
  \cup {[env |-> [Plain EXCEPT !.IDP_TYPE = t, !.ALLOWED_DOMAINS = d], answer |-> a] :
          t \in {"oidc", "google"}, d \in {<<"a">>, <<",", "a">>}, a \in Answers \cup Emails}
=============================================================================
