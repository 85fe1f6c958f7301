---------------------------- MODULE SignOnProofs ----------------------------
(* What a broker makes of its environment and of its IdP's answers, for all *)
(* texts and all listings: names are resource names, who is let in has all  *)
(* groups of the directory, gets a CR and the account that goes with it.    *)
EXTENDS SignOn, TLAPS, WellFoundedInduction, SequenceTheorems

-----------------------------------------------------------------------------
(* Least and greatest numbers.                                              *)

LEMMA LeastNumber ==
  ASSUME NEW T, T \subseteq Nat, T # {}
  PROVE  Min(T) \in T /\ \A y \in T : Min(T) <= y
  <1> DEFINE Less == {p \in Nat \X Nat : p[1] < p[2]}
  <1>1. IsWellFoundedOn(Less, Nat)
    BY NatLessThanWellFounded, Zenon DEF OpToRel
  <1>2. PICK x \in T : \A y \in T : ~(<<y, x>> \in Less)
    BY <1>1, WFMin, Zenon
  <1>3. \A y \in T : x <= y
    <2> SUFFICES ASSUME NEW y \in T, ~(x <= y) PROVE FALSE
      OBVIOUS
    <2>1. x \in Nat /\ y \in Nat /\ y < x
      OBVIOUS
    <2> QED BY <1>2, <2>1
  <1> QED BY <1>3 DEF Min

LEMMA GreatestNumber ==
  ASSUME NEW n \in Nat, NEW T, T \subseteq 0..n, T # {}
  PROVE  Max(T) \in T /\ \A y \in T : Max(T) >= y
  <1> DEFINE U == {n - t : t \in T}
  <1>1. \A t \in T : t \in 0..n /\ n - t \in Nat
    OBVIOUS
  <1>2. U \subseteq Nat /\ U # {}
    BY <1>1
  <1>3. Min(U) \in U /\ \A u \in U : Min(U) <= u
    BY <1>2, LeastNumber
  <1>4. PICK x \in T : Min(U) = n - x
    BY <1>3
  <1>5. ASSUME NEW y \in T PROVE x >= y
    <2>1. n - x <= n - y
      BY <1>3, <1>4
    <2> QED BY <1>1, <2>1
  <1> QED BY <1>5 DEF Max

-----------------------------------------------------------------------------
(* Texts.                                                                   *)

\* What is not empty has a first and a last character.
LEMMA NotEmpty ==
  ASSUME NEW S, NEW s \in Seq(S)
  PROVE  s # <<>> <=> Len(s) >= 1
  BY EmptySeq, LenProperties

\* A part of a text.
LEMMA PartOf ==
  ASSUME NEW S, NEW s \in Seq(S), NEW m \in Nat, NEW n \in Nat, 1 <= m, n <= Len(s)
  PROVE  /\ SubSeq(s, m, n) \in Seq(S)
         /\ Len(SubSeq(s, m, n)) = IF m <= n THEN n - m + 1 ELSE 0
         /\ \A i \in 1..(n - m + 1) : SubSeq(s, m, n)[i] = s[m + i - 1]
  <1>1. \A i \in m..n : s[i] \in S
    BY ElementOfSeq
  <1> QED BY <1>1, SubSeqProperties

\* Trim leaves a text that begins and ends with a character to keep, if there is
\* one, and a text that does so as it is.
LEMMA Trimmed ==
  ASSUME NEW S, NEW s \in Seq(S), NEW cut
  PROVE  /\ Trim(s, cut) \in Seq(S) /\ Len(Trim(s, cut)) <= Len(s)
         /\ (\E i \in 1..Len(s) : s[i] \notin cut) <=> Trim(s, cut) # <<>>
         /\ Trim(s, cut) # <<>> =>
              Trim(s, cut)[1] \notin cut /\ Trim(s, cut)[Len(Trim(s, cut))] \notin cut
         /\ s # <<>> /\ s[1] \notin cut /\ s[Len(s)] \notin cut => Trim(s, cut) = s
  <1> DEFINE kept == {i \in DOMAIN s : s[i] \notin cut}
  <1>1. Len(s) \in Nat /\ DOMAIN s = 1..Len(s)
    BY LenProperties
  <1>2. CASE kept = {}
    <2>1. Trim(s, cut) = <<>>
      BY <1>2 DEF Trim
    <2>2. \A i \in 1..Len(s) : s[i] \in cut
      BY <1>1, <1>2
    <2>3. s # <<>> => Len(s) \in 1..Len(s) /\ 1 \in 1..Len(s)
      BY <1>1, NotEmpty
    <2> QED BY <1>1, <2>1, <2>2, <2>3, EmptySeq
  <1>3. CASE kept # {}
    <2>0. kept \subseteq Nat /\ kept \subseteq 0..Len(s)
      BY <1>1
    <2> HIDE DEF kept
    <2>1. Min(kept) \in kept /\ \A i \in kept : Min(kept) <= i
      BY <1>3, <2>0, LeastNumber
    <2>2. Max(kept) \in kept /\ \A i \in kept : Max(kept) >= i
      BY <1>1, <1>3, <2>0, GreatestNumber
    <2> USE DEF kept
    <2> DEFINE m == Min(kept)
               n == Max(kept)
    <2>3. /\ m \in 1..Len(s) /\ n \in 1..Len(s) /\ m <= n
          /\ s[m] \notin cut /\ s[n] \notin cut
      BY <1>1, <2>1, <2>2
    <2>4. Trim(s, cut) = SubSeq(s, m, n)
      BY <1>3 DEF Trim
    <2>5. s # <<>> /\ s[1] \notin cut /\ s[Len(s)] \notin cut => m = 1 /\ n = Len(s)
      <3> SUFFICES ASSUME s # <<>>, s[1] \notin cut, s[Len(s)] \notin cut
                   PROVE  m = 1 /\ n = Len(s)
        OBVIOUS
      <3>1. 1 \in kept /\ Len(s) \in kept
        BY <1>1, NotEmpty
      <3>2. m <= 1 /\ n >= Len(s)
        BY <2>1, <2>2, <3>1
      <3> QED BY <1>1, <2>3, <3>2
    <2> HIDE DEF m, n
    <2>6. /\ SubSeq(s, m, n) \in Seq(S) /\ Len(SubSeq(s, m, n)) = n - m + 1
          /\ \A i \in 1..(n - m + 1) : SubSeq(s, m, n)[i] = s[m + i - 1]
      BY <1>1, <2>3, PartOf
    <2>7. n - m + 1 \in 1..Len(s) /\ m + 1 - 1 = m /\ m + (n - m + 1) - 1 = n
      BY <1>1, <2>3
    <2>8. SubSeq(s, m, n)[1] \notin cut /\ SubSeq(s, m, n)[n - m + 1] \notin cut
      BY <2>3, <2>6, <2>7
    <2>9. SubSeq(s, m, n) # <<>>
      BY <2>6, <2>7, NotEmpty
    <2>10. s # <<>> /\ s[1] \notin cut /\ s[Len(s)] \notin cut => SubSeq(s, m, n) = s
      BY <2>5, SubSeqFull
    <2>11. \E i \in 1..Len(s) : s[i] \notin cut
      BY <2>3
    <2> DEFINE t == SubSeq(s, m, n)
    <2>12. t \in Seq(S) /\ Len(t) <= Len(s) /\ t # <<>> /\ t[1] \notin cut /\ t[Len(t)] \notin cut
      BY <1>1, <2>6, <2>7, <2>8, <2>9
    <2> HIDE DEF kept, t
    <2> QED BY <2>4, <2>10, <2>11, <2>12 DEF t
  <1> QED BY <1>2, <1>3

LEMMA TextOf ==
  ASSUME NEW S, NEW n \in Nat, NEW f \in [1..n -> S]
  PROVE  f \in Seq(S) /\ Len(f) = n
  <1>1. f \in Seq(S)
    BY SeqDef
  <1>2. DOMAIN f = 1..n /\ DOMAIN f = 1..Len(f) /\ Len(f) \in Nat
    BY <1>1, LenProperties
  <1> QED BY <1>1, <1>2

-----------------------------------------------------------------------------
(* Names.                                                                   *)

NameChar == Alphanumeric \cup {"-"}

Ended(name) == name[1] \in Alphanumeric /\ name[Len(name)] \in Alphanumeric

LEMMA DashedEnds ==
  ASSUME NEW s \in Seq(STRING)
  PROVE  Dashed(s) \in Seq(NameChar) /\ (Dashed(s) # <<>> => Ended(Dashed(s)))
  <1> DEFINE lower == ToLower(s)
             dashes == [i \in DOMAIN lower |-> IF lower[i] \in Alphanumeric THEN lower[i] ELSE "-"]
  <1>1. Len(s) \in Nat /\ DOMAIN s = 1..Len(s)
    BY LenProperties
  <1>2. DOMAIN lower = 1..Len(s)
    BY <1>1 DEF ToLower
  <1> HIDE DEF lower
  <1>3. dashes \in [1..Len(s) -> NameChar]
    BY <1>2 DEF NameChar
  <1> HIDE DEF dashes
  <1>4. dashes \in Seq(NameChar)
    BY <1>1, <1>3, TextOf
  <1>5. Dashed(s) = Trim(dashes, {"-"})
    BY DEF Dashed, lower, dashes
  <1> DEFINE t == Trim(dashes, {"-"})
  <1>6. t \in Seq(NameChar) /\ (t # <<>> => t[1] # "-" /\ t[Len(t)] # "-")
    BY <1>4, Trimmed
  <1> HIDE DEF t
  <1>7. t # <<>> => t[1] \in NameChar /\ t[Len(t)] \in NameChar
    BY <1>6, NotEmpty, ElementOfSeq, LenProperties
  <1>8. t # <<>> => Ended(t)
    BY <1>6, <1>7 DEF Ended, NameChar
  <1> QED BY <1>5, <1>6, <1>8 DEF t

LEMMA CutEnds ==
  ASSUME NEW s \in Seq(NameChar), s # <<>>, Ended(s)
  PROVE  Cut(s) \in Seq(NameChar) /\ Len(Cut(s)) \in 1..MaxName /\ Ended(Cut(s))
  <1>1. Len(s) \in Nat /\ Len(s) >= 1 /\ MaxName \in Nat /\ MaxName >= 1
    BY LenProperties, NotEmpty, NameAssumption DEF User
  <1>2. CASE ~(Len(s) > MaxName)
    BY <1>1, <1>2 DEF Cut
  <1>3. CASE Len(s) > MaxName
    <2> DEFINE c == SubSeq(s, 1, MaxName)
               t == Trim(c, {"-"})
    <2>1. c \in Seq(NameChar) /\ Len(c) = MaxName /\ c[1] = s[1]
      BY <1>1, <1>3, PartOf
    <2>2. Cut(s) = t
      BY <1>3 DEF Cut
    <2> HIDE DEF c
    <2>3. 1 \in 1..Len(c) /\ c[1] \notin {"-"}
      BY <1>1, <2>1 DEF Ended, Alphanumeric
    <2> DEFINE more == \E i \in 1..Len(c) : c[i] \notin {"-"}
    <2>4. /\ t \in Seq(NameChar) /\ Len(t) <= Len(c) /\ (more <=> t # <<>>)
          /\ t # <<>> => t[1] \notin {"-"} /\ t[Len(t)] \notin {"-"}
      BY <2>1, Trimmed, Zenon
    <2>5. more
      BY <2>3
    <2> HIDE DEF t, more
    <2>6. t # <<>> /\ t[1] # "-" /\ t[Len(t)] # "-" /\ Len(t) <= MaxName
      BY <2>1, <2>4, <2>5
    <2>7. Len(t) \in 1..MaxName
      BY <1>1, <2>4, <2>6, NotEmpty, LenProperties
    <2>8. t[1] \in NameChar /\ t[Len(t)] \in NameChar
      BY <2>4, <2>7, ElementOfSeq
    <2> QED BY <2>2, <2>4, <2>6, <2>7, <2>8 DEF Ended, NameChar
  <1> QED BY <1>2, <1>3

\* SanitizeName of any text is a resource name.
LEMMA NameIsSubdomain ==
  ASSUME NEW s \in Seq(STRING)
  PROVE  SanitizeName(s) \in Seq(NameChar) /\ Subdomain(SanitizeName(s))
  <1> DEFINE name == SanitizeName(s)
  <1>1. name \in Seq(NameChar) /\ Len(name) \in 1..MaxName /\ Ended(name)
    <2>1. CASE Dashed(s) = <<>>
      <3>1. name = User
        BY <2>1 DEF SanitizeName
      <3>2. User \in Seq(NameChar) /\ Len(User) = 4 /\ Ended(User)
        BY DEF User, NameChar, Alphanumeric, Ended
      <3> QED BY <3>1, <3>2, NameAssumption
    <2>2. CASE Dashed(s) # <<>>
      BY <2>2, DashedEnds, CutEnds DEF SanitizeName
    <2> QED BY <2>1, <2>2
  <1> HIDE DEF name
  <1>2. ToSet(name) \subseteq NameChar
    BY <1>1, LenProperties, ElementOfSeq DEF ToSet
  <1>3. Subdomain(name)
    BY <1>1, <1>2 DEF Subdomain, Ended, NameChar
  <1> QED BY <1>1, <1>3 DEF name

\* A resource name is its own.
LEMMA NameStays ==
  ASSUME NEW s \in Seq(NameChar), Subdomain(s)
  PROVE  SanitizeName(s) = s
  <1>1. Len(s) \in Nat /\ DOMAIN s = 1..Len(s) /\ s \in [1..Len(s) -> NameChar]
    BY LenProperties
  <1>2. s # <<>> /\ Len(s) \in 1..MaxName /\ s[1] # "-" /\ s[Len(s)] # "-"
    BY <1>1, NotEmpty DEF Subdomain, Alphanumeric
  <1>3. ToLower(s) = s
    BY <1>1 DEF ToLower, NameChar, Alphanumeric
  <1>4. [i \in DOMAIN s |-> IF s[i] \in Alphanumeric THEN s[i] ELSE "-"] = s
    BY <1>1 DEF NameChar, Alphanumeric
  <1>5. Dashed(s) = Trim(s, {"-"})
    BY <1>3, <1>4 DEF Dashed
  <1>6. Dashed(s) = s
    BY <1>2, <1>5, Trimmed
  <1>7. ~(Len(s) > MaxName)
    BY <1>1, <1>2, NameAssumption
  <1> QED BY <1>2, <1>6, <1>7 DEF SanitizeName, Cut

-----------------------------------------------------------------------------
(* Lists and identities.                                                    *)

\* The fields of a list are texts, none of them empty.
LEMMA FieldsOfList ==
  ASSUME NEW s \in Seq(STRING)
  PROVE  \A d \in SplitCSV(s) : d \in Seq(STRING) /\ Len(d) >= 1
  <1> DEFINE cuts == {0, Len(s) + 1} \cup {i \in DOMAIN s : s[i] = ","}
             next(i) == Min({j \in cuts : j > i})
  <1>1. Len(s) \in Nat /\ DOMAIN s = 1..Len(s)
    BY LenProperties
  <1>2. Len(s) + 1 \in cuts /\ \A i \in cuts : i \in 0..(Len(s) + 1)
    <2> SUFFICES ASSUME NEW i \in cuts PROVE i \in 0..(Len(s) + 1)
      OBVIOUS
    <2>1. i = 0 \/ i = Len(s) + 1 \/ i \in 1..Len(s)
      BY <1>1
    <2> HIDE DEF cuts
    <2> QED BY <1>1, <2>1
  <1>3. Split(s, ",") = {SubSeq(s, i + 1, next(i) - 1) : i \in cuts \ {Len(s) + 1}}
    BY DEF Split
  <1> HIDE DEF cuts
  <1>4. ASSUME NEW i \in cuts \ {Len(s) + 1} PROVE SubSeq(s, i + 1, next(i) - 1) \in Seq(STRING)
    <2> DEFINE later == {j \in cuts : j > i}
    <2>1. i \in Nat /\ i < Len(s) + 1
      BY <1>1, <1>2
    <2>2. later # {} /\ \A j \in later : j \in 0..(Len(s) + 1) /\ j \in Nat /\ j > i
      <3>1. Len(s) + 1 \in later
        BY <1>1, <1>2, <2>1
      <3>2. \A j \in later : j \in 0..(Len(s) + 1) /\ j > i
        BY <1>2
      <3> QED BY <1>1, <3>1, <3>2
    <2> HIDE DEF later
    <2>3. Min(later) \in later
      BY <2>2, LeastNumber
    <2>4. next(i) \in 0..(Len(s) + 1) /\ next(i) > i
      BY <2>2, <2>3 DEF later
    <2> HIDE DEF next
    <2>5. i + 1 \in Nat /\ 1 <= i + 1 /\ next(i) - 1 \in Nat /\ next(i) - 1 <= Len(s)
      BY <1>1, <2>1, <2>4
    <2> QED BY <2>5, PartOf
  <1>5. \A field \in Split(s, ",") : field \in Seq(STRING)
    BY <1>3, <1>4
  <1> SUFFICES ASSUME NEW d \in SplitCSV(s) PROVE d \in Seq(STRING) /\ Len(d) >= 1
    OBVIOUS
  <1>6. PICK field \in Split(s, ",") : d = Trim(field, {" "}) /\ d # <<>>
    BY DEF SplitCSV
  <1>7. d \in Seq(STRING)
    BY <1>5, <1>6, Trimmed
  <1> QED BY <1>6, <1>7, NotEmpty

\* An allowed domain is not empty.
LEMMA AllowedIsThere ==
  ASSUME NEW env, env.ALLOWED_DOMAINS \in Seq(STRING), NEW domain,
         AllowedDomain(Load(env), domain)
  PROVE  domain # <<>>
  <1>1. PICK d \in SplitCSV(env.ALLOWED_DOMAINS) : ToLower(d) = ToLower(domain)
    BY DEF AllowedDomain, Load
  <1>2. d \in Seq(STRING) /\ Len(d) >= 1
    BY FieldsOfList
  <1>3. 1 \in DOMAIN ToLower(d)
    BY <1>2, LenProperties DEF ToLower
  <1>4. 1 \in DOMAIN domain
    BY <1>1, <1>3 DEF ToLower
  <1> QED BY <1>4

-----------------------------------------------------------------------------
(* The first login.                                                         *)

\* The memberships of the first n pages.
FirstPages(s, n) == UNION {PageGroups(s.answer.pages[i], s.answer.hd) : i \in 1..n}

\* What the provider makes of the answers, once it is through.
Authenticated(s, id) ==
  IF Load(s.env).idpType = "google"
  THEN id = GoogleIdentity(s.answer, FirstPages(s, Len(s.answer.pages)))
  ELSE id = OIDCIdentity(s.answer)

\* The listing holds the groups of exactly the pages before the next one.
LoginInv ==
  \A s \in start :
    /\ s \in Start /\ start = {s}
    /\ login = [pc |-> login.pc, next |-> login.next, groups |-> login.groups, id |-> login.id]
    /\ login.next \in 1..(Len(s.answer.pages) + 1)
    /\ login.groups = FirstPages(s, login.next - 1)
    /\ login.pc = "list" => Load(s.env).idpType = "google"
    /\ login.pc \in {"policy", "in"} => \A id \in login.id : Authenticated(s, id)
    /\ login.pc = "in" => \A id \in login.id : Admits(Load(s.env), id)

LEMMA OnePageMore ==
  ASSUME NEW s, NEW n \in Nat \ {0}
  PROVE  FirstPages(s, n)
           = FirstPages(s, n - 1) \cup PageGroups(s.answer.pages[n], s.answer.hd)
  <1> DEFINE of(i) == PageGroups(s.answer.pages[i], s.answer.hd)
  <1>1. 1..n = 1..(n - 1) \cup {n}
    OBVIOUS
  <1>2. \A k : FirstPages(s, k) = UNION {of(i) : i \in 1..k}
    BY DEF FirstPages
  <1> HIDE DEF of
  <1>3. \A k, x : x \in FirstPages(s, k) <=> \E i \in 1..k : x \in of(i)
    BY <1>2
  <1>4. \A x : x \in FirstPages(s, n) <=> x \in FirstPages(s, n - 1) \cup of(n)
    BY <1>1, <1>3
  <1>5. FirstPages(s, n) = FirstPages(s, n - 1) \cup of(n)
    BY <1>4
  <1> QED BY <1>5 DEF of

LEMMA LoginInvInit == StartInit => LoginInv
  <1> SUFFICES ASSUME StartInit, NEW s \in start
               PROVE  /\ s \in Start /\ start = {s} /\ 1 \in 1..(Len(s.answer.pages) + 1)
                      /\ {} = FirstPages(s, 0)
    BY DEF StartInit, LoginInv, NoLogin
  <1>1. s \in Start /\ start = {s}
    BY DEF StartInit
  <1>2. Len(s.answer.pages) \in Nat
    BY <1>1, StartAssumption, LenProperties
  <1>3. FirstPages(s, 0) = {}
    BY DEF FirstPages
  <1> QED BY <1>1, <1>2, <1>3

LEMMA LoginInvNext == LoginInv /\ [StartNext]_svars => LoginInv'
  <1> SUFFICES ASSUME LoginInv, [StartNext]_svars PROVE LoginInv'
    OBVIOUS
  <1>1. CASE UNCHANGED <<start, login>>
    BY <1>1 DEF LoginInv
  <1>2. CASE Over
    BY <1>2 DEF Over, LoginInv
  <1>3. ASSUME NEW s \in start, FirstLogin(s), ~Over PROVE LoginInv'
    <2>0. /\ s \in Start /\ start = {s} /\ login.next \in 1..(Len(s.answer.pages) + 1)
          /\ login = [pc |-> login.pc, next |-> login.next, groups |-> login.groups,
                      id |-> login.id]
          /\ login.groups = FirstPages(s, login.next - 1)
      BY DEF LoginInv
    <2>1. Len(s.answer.pages) \in Nat /\ DOMAIN s.answer.pages = 1..Len(s.answer.pages)
      BY <2>0, StartAssumption, LenProperties
    <2>2. CASE Run(s)
      BY <2>2 DEF Run, To, LoginInv
    <2>3. CASE AuthenticateOIDC(s)
      BY <2>3 DEF AuthenticateOIDC, LoginInv, Authenticated
    <2>4. CASE AuthenticateGoogle(s)
      BY <2>4 DEF AuthenticateGoogle, To, LoginInv
    <2>5. CASE ListPage(s)
      <3> DEFINE n == login.next
      <3>1. /\ login'.pc = "list" /\ login'.next = n + 1 /\ login'.id = login.id
            /\ login'.groups = login.groups \cup PageGroups(s.answer.pages[n], s.answer.hd)
            /\ login' = [pc |-> login'.pc, next |-> login'.next, groups |-> login'.groups,
                         id |-> login'.id]
            /\ login.pc = "list" /\ n \in 1..Len(s.answer.pages) /\ start' = start
        BY <2>0, <2>1, <2>5 DEF ListPage
      <3> HIDE DEF n
      <3>2. n + 1 \in 1..(Len(s.answer.pages) + 1) /\ n \in Nat \ {0} /\ n + 1 - 1 = n
        BY <2>1, <3>1
      <3>3. login'.groups = FirstPages(s, login'.next - 1)
        BY <2>0, <3>1, <3>2, OnePageMore DEF n
      <3> QED BY <2>0, <3>1, <3>2, <3>3 DEF LoginInv, FirstPages
    <2>6. CASE Listed(s)
      <3> DEFINE id == GoogleIdentity(s.answer, login.groups)
      <3>1. /\ login'.pc = "policy" /\ login'.next = login.next /\ login'.id = {id}
            /\ login'.groups = login.groups /\ start' = start
            /\ login' = [pc |-> login'.pc, next |-> login'.next, groups |-> login'.groups,
                         id |-> login'.id]
            /\ login.pc = "list" /\ login.next = Len(s.answer.pages) + 1
        BY <2>0, <2>6 DEF Listed
      <3>2. Load(s.env).idpType = "google"
        BY <3>1 DEF LoginInv
      <3>3. login.next - 1 = Len(s.answer.pages)
        BY <2>1, <3>1
      <3>4. Authenticated(s, id)
        BY <2>0, <3>2, <3>3 DEF Authenticated
      <3> HIDE DEF id
      <3> QED BY <2>0, <3>1, <3>4 DEF LoginInv, FirstPages, Authenticated
    <2>7. CASE Admit(s)
      BY <2>7 DEF Admit, To, LoginInv
    <2> QED BY <1>3, <2>2, <2>3, <2>4, <2>5, <2>6, <2>7
            DEF FirstLogin, AuthenticateFails, Reject, Leave
  <1> QED BY <1>1, <1>2, <1>3 DEF StartNext, Served, svars

LEMMA LoginKept == StartSpec => []LoginInv
  BY LoginInvInit, LoginInvNext, PTL DEF StartSpec

\* Who is let in has an email and a domain.
LEMMA LetIn ==
  ASSUME LoginInv, NEW s \in start, login.pc = "in", NEW id \in login.id
  PROVE  /\ s \in Start /\ Authenticated(s, id)
         /\ id.email = s.answer.email /\ id.email # <<>> /\ id.domain # <<>>
         /\ id = [email |-> id.email, verified |-> id.verified, domain |-> id.domain,
                  groups |-> id.groups]
  <1>1. s \in Start /\ Authenticated(s, id) /\ id.verified /\ AllowedDomain(Load(s.env), id.domain)
    BY DEF LoginInv, Admits
  <1>2. /\ s.env.ALLOWED_DOMAINS \in Seq(STRING)
        /\ s.answer.verified => s.answer.email # <<>>
    BY <1>1, StartAssumption
  <1>3. id.domain # <<>>
    BY <1>1, <1>2, AllowedIsThere
  <1>4. /\ id.email = s.answer.email /\ id.verified = s.answer.verified
        /\ id = [email |-> id.email, verified |-> id.verified, domain |-> id.domain,
                 groups |-> id.groups]
    <2>1. CASE Load(s.env).idpType = "google"
      <3>1. id = GoogleIdentity(s.answer, FirstPages(s, Len(s.answer.pages)))
        BY <1>1, <2>1 DEF Authenticated
      <3> QED BY <3>1, Zenon DEF GoogleIdentity
    <2>2. CASE Load(s.env).idpType # "google"
      <3>1. id = OIDCIdentity(s.answer)
        BY <1>1, <2>2 DEF Authenticated
      <3> QED BY <3>1, Zenon DEF OIDCIdentity
    <2> QED BY <2>1, <2>2
  <1> QED BY <1>1, <1>2, <1>3, <1>4

-----------------------------------------------------------------------------
(* The theorems.                                                            *)

\* A broker that serves keeps its sessions in the store that SESSION_STORE names,
\* for any environment: Validate leaves store.New nothing to guess.
THEOREM StoreIsNamed == StartSpec => []StoreAsNamed
  <1>1. StoreAsNamed
    <2> SUFFICES ASSUME NEW s \in start, Serves(s.env)
                 PROVE  StoreNew(Load(s.env)) = Env(s.env.SESSION_STORE, "memory")
      BY DEF StoreAsNamed
    <2>1. Load(s.env).backend = Env(s.env.SESSION_STORE, "memory")
      BY DEF Load
    <2>2. Load(s.env).backend \in {"memory", "redis"}
      BY DEF Serves, Validate
    <2> QED BY <2>1, <2>2 DEF StoreNew
  <1> QED BY <1>1, PTL

\* A broker that serves has a redirect URI and a domain to let somebody in with,
\* for any lists.
THEOREM LoginsArePossible == StartSpec => []SomebodyCanLogIn
  <1>1. SomebodyCanLogIn
    <2> SUFFICES ASSUME NEW s \in start, Serves(s.env)
                 PROVE  /\ \E uri \in SplitCSV(s.env.REDIRECT_URIS) \ {<<>>} :
                             RedirectAllowed(Load(s.env), uri)
                        /\ \E d \in SplitCSV(s.env.ALLOWED_DOMAINS) \ {<<>>} :
                             AllowedDomain(Load(s.env), d)
      BY DEF SomebodyCanLogIn
    <2>1. /\ Load(s.env).redirectURIs = SplitCSV(s.env.REDIRECT_URIS)
          /\ Load(s.env).allowedDomains = SplitCSV(s.env.ALLOWED_DOMAINS)
      BY DEF Load
    <2>2. Load(s.env).redirectURIs # {} /\ Load(s.env).allowedDomains # {}
      BY DEF Serves, Validate
    <2>3. <<>> \notin SplitCSV(s.env.REDIRECT_URIS) /\ <<>> \notin SplitCSV(s.env.ALLOWED_DOMAINS)
      BY DEF SplitCSV
    <2> QED BY <2>1, <2>2, <2>3 DEF RedirectAllowed, AllowedDomain
  <1> QED BY <1>1, PTL

\* SanitizeName makes a resource name of an email of any length and any
\* characters, and of a resource name the same one.
THEOREM EmailsAreNamed == StartSpec => []NamesAreSubdomains
  <1>1. LoginInv => NamesAreSubdomains
    <2> SUFFICES ASSUME LoginInv, NEW s \in start
                 PROVE  /\ Subdomain(SanitizeName(s.answer.email))
                        /\ SanitizeName(SanitizeName(s.answer.email)) = SanitizeName(s.answer.email)
      BY DEF NamesAreSubdomains
    <2>1. s.answer.email \in Seq(STRING)
      BY StartAssumption DEF LoginInv
    <2> QED BY <2>1, NameIsSubdomain, NameStays
  <1> QED BY <1>1, LoginKept, PTL

\* The memberships of all pages are those of the groups of the directory.
LEMMA AllPages ==
  ASSUME NEW s \in Start
  PROVE  FirstPages(s, Len(s.answer.pages))
           = {Membership(g.id, g.name, s.answer.hd) : g \in Directory(s)}
  <1> DEFINE pages == s.answer.pages
             of(g) == Membership(g.id, g.name, s.answer.hd)
  <1>1. DOMAIN pages = 1..Len(pages)
    BY StartAssumption, LenProperties
  <1>2. Directory(s) = UNION {pages[i] : i \in 1..Len(pages)}
    BY <1>1 DEF Directory, ToSet
  <1>3. \A i : PageGroups(pages[i], s.answer.hd) = {of(g) : g \in pages[i]}
    BY DEF PageGroups
  <1> HIDE DEF pages, of
  <1>4. UNION {{of(g) : g \in pages[i]} : i \in 1..Len(pages)}
          = {of(g) : g \in UNION {pages[i] : i \in 1..Len(pages)}}
    OBVIOUS
  <1>5. FirstPages(s, Len(pages)) = UNION {{of(g) : g \in pages[i]} : i \in 1..Len(pages)}
    BY <1>3 DEF FirstPages, pages
  <1> QED BY <1>2, <1>4, <1>5 DEF pages, of

\* A membership of an identity that was let in can be stored, if the directory
\* names its groups.
LEMMA Storable ==
  ASSUME LoginInv, NEW s \in start, login.pc = "in", NEW id \in login.id,
         \A g \in Directory(s) : {g.id, g.name} \cap {"", NoString} = {},
         NEW m \in id.groups
  PROVE  /\ m.gid \notin {"", NoString} /\ m.name # "" /\ m.domain # <<>>
         /\ m = [gid |-> m.gid, name |-> m.name, domain |-> m.domain]
  <1>1. s \in Start /\ Authenticated(s, id) /\ id.domain # <<>>
    BY LetIn
  <1>2. \E gid, name : {gid, name} \cap {"", NoString} = {} /\ m = Membership(gid, name, id.domain)
    <2>1. CASE Load(s.env).idpType = "google"
      <3>1. id.groups = FirstPages(s, Len(s.answer.pages)) /\ id.domain = s.answer.hd
        BY <1>1, <2>1 DEF Authenticated, GoogleIdentity
      <3>2. PICK g \in Directory(s) : m = Membership(g.id, g.name, s.answer.hd)
        BY <1>1, <3>1, AllPages
      <3> QED BY <3>1, <3>2
    <2>2. CASE Load(s.env).idpType # "google"
      <3>1. id.groups = ParseGroups(s.answer.claim, id.domain)
        BY <1>1, <2>2 DEF Authenticated, OIDCIdentity
      <3>2. PICK g \in s.answer.claim.items \ {"", NoString} : m = Membership(g, g, id.domain)
        BY <3>1 DEF ParseGroups
      <3> QED BY <3>2
    <2> QED BY <2>1, <2>2
  <1>3. PICK gid, name : {gid, name} \cap {"", NoString} = {} /\ m = Membership(gid, name, id.domain)
    BY <1>2
  <1>4. m.gid = gid /\ m.name = name /\ m.domain = id.domain
    BY <1>3 DEF Membership
  <1>5. m = [gid |-> m.gid, name |-> m.name, domain |-> m.domain]
    BY <1>3, <1>4 DEF Membership
  <1> QED BY <1>1, <1>3, <1>4, <1>5

\* Whoever passes the policy gets a CR that the API server takes, at the login
\* and at every refresh, for any lists, claims and directory listings, if the TTL
\* is one that the CRD takes and the groups of the directory have names.
THEOREM AdmittedGetsCR == StartSpec => []AdmittedIsAccepted
  <1>1. LoginInv => AdmittedIsAccepted
    <2> SUFFICES ASSUME LoginInv, NEW s \in start, login.pc = "in",
                        TTLAccepted(Load(s.env).bindTTL),
                        \A g \in Directory(s) : {g.id, g.name} \cap {"", NoString} = {},
                        NEW id \in login.id
                 PROVE  /\ Accepted(CROf(Load(s.env), id))
                        /\ CROf(Load(s.env), Restored(RefreshGrant(id))) = CROf(Load(s.env), id)
      BY DEF AdmittedIsAccepted
    <2> DEFINE cfg == Load(s.env)
    <2>1. /\ s \in Start /\ id.email = s.answer.email /\ id.domain # <<>>
          /\ id = [email |-> id.email, verified |-> id.verified, domain |-> id.domain,
                   groups |-> id.groups]
      BY LetIn
    <2>2. Subdomain(SanitizeName(id.email))
      BY <2>1, StartAssumption, NameIsSubdomain
    <2> HIDE DEF cfg
    <2>3. \A m \in id.groups :
            /\ m.gid \notin {"", NoString} /\ m.name # "" /\ m.domain # <<>>
            /\ m = [gid |-> m.gid, name |-> m.name, domain |-> m.domain]
      BY Storable
    <2>4. Accepted(CROf(cfg, id))
      BY <2>1, <2>2, <2>3 DEF Accepted, CROf, cfg
    <2>5. FromGroupRefs(ToGroupRefs(id.groups)) = id.groups
      <3>1. ToGroupRefs(id.groups) = id.groups
        BY <2>3 DEF ToGroupRefs
      <3>2. FromGroupRefs(id.groups) = id.groups
        BY <2>3 DEF FromGroupRefs
      <3> QED BY <3>1, <3>2
    <2>6. Restored(RefreshGrant(id)) = id
      BY <2>1, <2>5 DEF Restored, RefreshGrant
    <2> QED BY <2>4, <2>6 DEF cfg
  <1> QED BY <1>1, LoginKept, PTL

\* However many pages the directory has and whichever call fails: the groups of a
\* user who is let in are those of all pages.
THEOREM GroupsAreComplete == StartSpec => []AllGroupsOrNone
  <1>1. LoginInv => AllGroupsOrNone
    <2> SUFFICES ASSUME LoginInv, NEW s \in start, login.pc = "in",
                        Load(s.env).idpType = "google", NEW id \in login.id
                 PROVE  {m.gid : m \in id.groups} = {g.id : g \in Directory(s)}
      BY DEF AllGroupsOrNone
    <2> DEFINE of(g) == Membership(g.id, g.name, s.answer.hd)
    <2>1. s \in Start /\ id.groups = FirstPages(s, Len(s.answer.pages))
      BY LetIn DEF Authenticated, GoogleIdentity
    <2>2. id.groups = {of(g) : g \in Directory(s)}
      BY <2>1, AllPages
    <2>3. \A g : of(g).gid = g.id
      BY DEF Membership
    <2> HIDE DEF of
    <2> QED BY <2>2, <2>3
  <1> QED BY <1>1, LoginKept, PTL

\* With a signing key configured the proxy swaps an id_token of any replica for
\* the account of the CR that the login wrote, for any number of replicas.
THEOREM TokensSwapForOwnAccount == StartSpec => []SwappedForOwnAccount
  <1>1. LoginInv => SwappedForOwnAccount
    <2> SUFFICES ASSUME LoginInv, NEW s \in start, login.pc = "in",
                        s.env.ID_TOKEN_SIGNING_KEY # "",
                        s.env.ISSUER = TrimRight(s.env.ISSUER, {"/"}),
                        NEW id \in login.id, NEW p \in Process, NEW q \in Process
                 PROVE  Swapped(s.env, IDToken(s.env, p, id), q) = {CROf(Load(s.env), id).name}
      BY DEF SwappedForOwnAccount
    <2> DEFINE token == IDToken(s.env, p, id)
    <2>1. id.email # <<>>
      BY LetIn
    <2>2. Signer(s.env, p).key = Signer(s.env, q).key /\ Signer(s.env, p).iss = s.env.ISSUER
      BY DEF Signer, SigningKey
    <2>3. /\ token.email = id.email /\ token.key = Signer(s.env, p).key
          /\ token.iss = Signer(s.env, p).iss /\ token.aud = s.env.CLIENT_ID
      BY DEF IDToken
    <2> HIDE DEF token
    <2>4. Verify(s.env, {Signer(s.env, q).key}, token)
      BY <2>2, <2>3 DEF Verify
    <2>5. {e \in {token.email} \ {<<>>} : Verify(s.env, {Signer(s.env, q).key}, token)} = {id.email}
      BY <2>1, <2>3, <2>4
    <2>6. Swapped(s.env, token, q) = {SanitizeName(id.email)}
      BY <2>5 DEF Swapped
    <2>7. CROf(Load(s.env), id).name = SanitizeName(id.email)
      BY DEF CROf
    <2> QED BY <2>6, <2>7 DEF token
  <1> QED BY <1>1, LoginKept, PTL
=============================================================================
