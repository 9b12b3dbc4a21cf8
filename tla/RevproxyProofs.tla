---------------------------- MODULE RevproxyProofs ----------------------------
(***************************************************************************)
(* What the services behind the proxy are told: for any users, tokens and   *)
(* verifiers, the headers of a request speak for one user, whose            *)
(* credentials have been verified, and the data service gets a refresh      *)
(* token or the ID of an anonymous session that the browser comes back with. *)
(***************************************************************************)
EXTENDS Revproxy, WellFoundedInduction, SequenceTheorems, TLAPS

(* The well-founded order of the natural numbers, as a fact about sets.      *)

\* Every set of natural numbers has a least element.
LEMMA Least ==
    ASSUME NEW T \in SUBSET Nat, T # {}
    PROVE  \E m \in T : \A n \in T : m <= n
PROOF
  <1> DEFINE R == OpToRel(<, Nat)
  <1>1. IsWellFoundedOn(R, Nat)
    BY NatLessThanWellFounded
  <1>2. R = {ss \in Nat \X Nat : ss[1] < ss[2]}
    BY DEF OpToRel
  <1> HIDE DEF R
  <1>3. PICK m \in T : \A n \in T : <<n, m>> \notin R
    BY <1>1, WFMin
  <1>4. ASSUME NEW n \in T
        PROVE  m <= n
    <2>1. CASE n < m
      <3>1. n \in Nat /\ m \in Nat
        OBVIOUS
      <3>2. <<n, m>> \in Nat \X Nat /\ <<n, m>>[1] < <<n, m>>[2]
        BY <2>1, <3>1
      <3> QED
        BY <1>2, <1>3, <3>2
    <2> QED
      BY <2>1
  <1> QED
    BY <1>3, <1>4

\* Every bounded set of them has a greatest one.
LEMMA Greatest ==
    ASSUME NEW n \in Nat, NEW S \in SUBSET (1..n), S # {}
    PROVE  \E i \in S : \A j \in S : j <= i
PROOF
  <1> DEFINE T == {k \in Nat : n - k \in S}
  <1>1. T # {}
    <2>1. PICK i \in S : TRUE
      OBVIOUS
    <2>2. i \in 1..n /\ n - i \in Nat /\ n - (n - i) = i
      BY <2>1
    <2> QED
      BY <2>1, <2>2
  <1>2. PICK m \in T : \A k \in T : m <= k
    BY <1>1, Least
  <1>3. ASSUME NEW j \in S
        PROVE  j <= n - m
    <2>1. j \in 1..n /\ n - j \in Nat /\ n - (n - j) = j
      OBVIOUS
    <2>2. n - j \in T
      BY <2>1
    <2> QED
      BY <1>2, <2>1, <2>2
  <1> QED
    BY <1>2, <1>3

----------------------------------------------------------------------------
(* The verifiers                                                            *)

\* The verifier of an authorized party is one of those that are configured.
LEMMA AuthenticatorIsConfigured ==
    ASSUME NEW party \in DOMAIN Authenticators
    PROVE  \E i \in DOMAIN AuthorizationVerifiers :
              Authenticators[party] = AuthorizationVerifiers[i]
PROOF
  <1> DEFINE D == DOMAIN AuthorizationVerifiers
             index(id) == {i \in D : AuthorizationVerifiers[i].authorizedParty = id}
             last(id)  == CHOOSE i \in index(id) : \A j \in index(id) : j <= i
  <1>1. D = 1..Len(AuthorizationVerifiers) /\ Len(AuthorizationVerifiers) \in Nat
    BY AuthenticatorAssumption, LenProperties
  <1>2. Authenticators =
          [id \in {AuthorizationVerifiers[i].authorizedParty : i \in D} |->
             AuthorizationVerifiers[last(id)]]
    BY DEF Authenticators
  <1>3. party \in {AuthorizationVerifiers[i].authorizedParty : i \in D}
    BY <1>2
  <1> HIDE DEF D
  <1>4. index(party) \in SUBSET (1..Len(AuthorizationVerifiers)) /\ index(party) # {}
    BY <1>1, <1>3
  <1>5. \E i \in index(party) : \A j \in index(party) : j <= i
    BY <1>1, <1>4, Greatest
  <1>6. last(party) \in index(party)
    BY <1>5
  <1>7. Authenticators[party] = AuthorizationVerifiers[last(party)]
    BY <1>2, <1>3
  <1> QED
    BY <1>6, <1>7 DEF D

\* What VerifiedCredentials says of a token.
Vouched(token) ==
    \E i \in DOMAIN AuthorizationVerifiers :
       LET tv == AuthorizationVerifiers[i]
       IN  /\ <<tv.issuer, tv.issuer, tv.authorizedParty>>
                 = <<token.issuer, token.signedBy, token.authorizedParty>>
           /\ tv.audience \in token.audience
           /\ token.left > 0

\* A token that is verified is vouched for, and names somebody.
LEMMA VerifiedIsVouched ==
    ASSUME NEW token \in Presented, VerifyAccessToken(token)
    PROVE  Vouched(token) /\ token.subject # Nobody
PROOF
  <1> DEFINE party == token.authorizedParty
  <1>1. party \in DOMAIN Authenticators /\ verifyAccessToken(Authenticators[party], token)
    BY DEF VerifyAccessToken
  <1>2. PICK i \in DOMAIN AuthorizationVerifiers :
           Authenticators[party] = AuthorizationVerifiers[i]
    BY <1>1, AuthenticatorIsConfigured
  <1>3. verifyAccessToken(AuthorizationVerifiers[i], token)
    BY <1>1, <1>2
  <1>4. token.left > 0
    <2>1. token.left > 1
      BY <1>3 DEF verifyAccessToken, verifierOffset
    <2>2. token.left \in Int
      BY RevproxyAssumption
    <2> QED
      BY <2>1, <2>2
  <1> QED
    BY <1>3, <1>4 DEF verifyAccessToken, Vouched, Nobody

----------------------------------------------------------------------------
(* The order of the middlewares                                             *)

anonymousID == "notebooksAnonymousID"

\* Only these run after the anonymous ID is set.
Late == {"regexRewrite", "data"}
AllLate(c) == \A i \in 1..Len(c) : c[i] \in Late

\* The data service comes after the anonymous ID, with only a rewriting between.
InOrder(c) ==
    /\ c \in Seq(Middleware)
    /\ \A i \in 1..Len(c) : c[i] = "data" => \E h \in 1..Len(c) : h < i /\ c[h] = anonymousID
    /\ \A h, i \in 1..Len(c) : h < i /\ c[h] = anonymousID => c[i] \in Late

\* The chains of RegisterHandlers, written out: of the group for the notebooks,
\* of the group for the data service, and the others.
RewritingChains ==
    {<<"session", "renkuAccessToken", "dataGitlabAccessToken",
       "notebooksRenkuRefreshToken", "notebooksAnonymousID", "regexRewrite", "data">>,
     <<"session", "renkuAccessToken",
       "notebooksRenkuRefreshToken", "notebooksAnonymousID", "regexRewrite", "data">>}
DirectChains ==
    {<<"session", "renkuAccessToken", "dataGitlabAccessToken",
       "notebooksRenkuRefreshToken", "notebooksAnonymousID", "data">>,
     <<"session", "renkuAccessToken",
       "notebooksRenkuRefreshToken", "notebooksAnonymousID", "data">>}
Chains ==
    RewritingChains \cup DirectChains \cup
    {<<"session", "notFound">>,
     <<"session", "stripPrefix", "renkuAccessToken", "keycloak">>,
     <<"session", "ensureSession", "renkuAccessToken", "ui">>,
     <<"session", "ui">>, <<"session", "redirect">>, <<"session", "login">>,
     <<"session", "base">>, <<"notFound">>}

\* Some concatenations, written out.
LEMMA Concat21 ==
    ASSUME NEW a, NEW b, NEW c
    PROVE  <<a, b>> \o <<c>> = <<a, b, c>>
PROOF
  <1> DEFINE E == {a, b, c}
             r == <<a, b>> \o <<c>>
  <1>1. /\ <<a, b>> \in Seq(E) /\ <<c>> \in Seq(E) /\ <<a, b, c>> \in Seq(E)
        /\ Len(<<a, b>>) = 2 /\ Len(<<c>>) = 1 /\ Len(<<a, b, c>>) = 3
    OBVIOUS
  <1>2. r \in Seq(E) /\ Len(r) = 3
    BY <1>1, ConcatProperties
  <1>3. r[1] = a /\ r[2] = b
    BY <1>1, ConcatProperties
  <1>4. r[3] = c
    BY <1>1, ConcatProperties
  <1>5. \A i \in 1..3 : r[i] = <<a, b, c>>[i]
    BY <1>3, <1>4
  <1>6. r = <<a, b, c>>
    <2> HIDE DEF r
    <2> QED
      BY <1>1, <1>2, <1>5, SeqEqual
  <1> QED
    BY <1>6

LEMMA Concat22 ==
    ASSUME NEW a, NEW b, NEW c, NEW d
    PROVE  <<a, b>> \o <<c, d>> = <<a, b, c, d>>
PROOF
  <1> DEFINE E == {a, b, c, d}
             r == <<a, b>> \o <<c, d>>
  <1>1. /\ <<a, b>> \in Seq(E) /\ <<c, d>> \in Seq(E) /\ <<a, b, c, d>> \in Seq(E)
        /\ Len(<<a, b>>) = 2 /\ Len(<<c, d>>) = 2 /\ Len(<<a, b, c, d>>) = 4
    OBVIOUS
  <1>2. r \in Seq(E) /\ Len(r) = 4
    BY <1>1, ConcatProperties
  <1>3. r[1] = a /\ r[2] = b
    BY <1>1, ConcatProperties
  <1>4. r[3] = c /\ r[4] = d
    BY <1>1, ConcatProperties
  <1>5. \A i \in 1..4 : r[i] = <<a, b, c, d>>[i]
    BY <1>3, <1>4
  <1>6. r = <<a, b, c, d>>
    <2> HIDE DEF r
    <2> QED
      BY <1>1, <1>2, <1>5, SeqEqual
  <1> QED
    BY <1>6

LEMMA Concat32 ==
    ASSUME NEW a, NEW b, NEW c, NEW d, NEW e
    PROVE  <<a, b, c>> \o <<d, e>> = <<a, b, c, d, e>>
PROOF
  <1> DEFINE E == {a, b, c, d, e}
             r == <<a, b, c>> \o <<d, e>>
  <1>1. /\ <<a, b, c>> \in Seq(E) /\ <<d, e>> \in Seq(E) /\ <<a, b, c, d, e>> \in Seq(E)
        /\ Len(<<a, b, c>>) = 3 /\ Len(<<d, e>>) = 2 /\ Len(<<a, b, c, d, e>>) = 5
    OBVIOUS
  <1>2. r \in Seq(E) /\ Len(r) = 5
    BY <1>1, ConcatProperties
  <1>3. r[1] = a /\ r[2] = b /\ r[3] = c
    BY <1>1, ConcatProperties
  <1>4. r[4] = d /\ r[5] = e
    BY <1>1, ConcatProperties
  <1>5. \A i \in 1..5 : r[i] = <<a, b, c, d, e>>[i]
    BY <1>3, <1>4
  <1>6. r = <<a, b, c, d, e>>
    <2> HIDE DEF r
    <2> QED
      BY <1>1, <1>2, <1>5, SeqEqual
  <1> QED
    BY <1>6

LEMMA Concat41 ==
    ASSUME NEW a, NEW b, NEW c, NEW d, NEW e
    PROVE  <<a, b, c, d>> \o <<e>> = <<a, b, c, d, e>>
PROOF
  <1> DEFINE E == {a, b, c, d, e}
             r == <<a, b, c, d>> \o <<e>>
  <1>1. /\ <<a, b, c, d>> \in Seq(E) /\ <<e>> \in Seq(E) /\ <<a, b, c, d, e>> \in Seq(E)
        /\ Len(<<a, b, c, d>>) = 4 /\ Len(<<e>>) = 1 /\ Len(<<a, b, c, d, e>>) = 5
    OBVIOUS
  <1>2. r \in Seq(E) /\ Len(r) = 5
    BY <1>1, ConcatProperties
  <1>3. r[1] = a /\ r[2] = b /\ r[3] = c /\ r[4] = d
    BY <1>1, ConcatProperties
  <1>4. r[5] = e
    BY <1>1, ConcatProperties
  <1>5. \A i \in 1..5 : r[i] = <<a, b, c, d, e>>[i]
    BY <1>3, <1>4
  <1>6. r = <<a, b, c, d, e>>
    <2> HIDE DEF r
    <2> QED
      BY <1>1, <1>2, <1>5, SeqEqual
  <1> QED
    BY <1>6

LEMMA Concat51 ==
    ASSUME NEW a, NEW b, NEW c, NEW d, NEW e, NEW f
    PROVE  <<a, b, c, d, e>> \o <<f>> = <<a, b, c, d, e, f>>
PROOF
  <1> DEFINE E == {a, b, c, d, e, f}
             r == <<a, b, c, d, e>> \o <<f>>
  <1>1. /\ <<a, b, c, d, e>> \in Seq(E) /\ <<f>> \in Seq(E) /\ <<a, b, c, d, e, f>> \in Seq(E)
        /\ Len(<<a, b, c, d, e>>) = 5 /\ Len(<<f>>) = 1 /\ Len(<<a, b, c, d, e, f>>) = 6
    OBVIOUS
  <1>2. r \in Seq(E) /\ Len(r) = 6
    BY <1>1, ConcatProperties
  <1>3. r[1] = a /\ r[2] = b /\ r[3] = c /\ r[4] = d /\ r[5] = e
    BY <1>1, ConcatProperties
  <1>4. r[6] = f
    BY <1>1, ConcatProperties
  <1>5. \A i \in 1..6 : r[i] = <<a, b, c, d, e, f>>[i]
    BY <1>3, <1>4
  <1>6. r = <<a, b, c, d, e, f>>
    <2> HIDE DEF r
    <2> QED
      BY <1>1, <1>2, <1>5, SeqEqual
  <1> QED
    BY <1>6

LEMMA Concat61 ==
    ASSUME NEW a, NEW b, NEW c, NEW d, NEW e, NEW f, NEW g
    PROVE  <<a, b, c, d, e, f>> \o <<g>> = <<a, b, c, d, e, f, g>>
PROOF
  <1> DEFINE E == {a, b, c, d, e, f, g}
             r == <<a, b, c, d, e, f>> \o <<g>>
  <1>1. /\ <<a, b, c, d, e, f>> \in Seq(E) /\ <<g>> \in Seq(E) /\ <<a, b, c, d, e, f, g>> \in Seq(E)
        /\ Len(<<a, b, c, d, e, f>>) = 6 /\ Len(<<g>>) = 1 /\ Len(<<a, b, c, d, e, f, g>>) = 7
    OBVIOUS
  <1>2. r \in Seq(E) /\ Len(r) = 7
    BY <1>1, ConcatProperties
  <1>3. r[1] = a /\ r[2] = b /\ r[3] = c /\ r[4] = d /\ r[5] = e /\ r[6] = f
    BY <1>1, ConcatProperties
  <1>4. r[7] = g
    BY <1>1, ConcatProperties
  <1>5. \A i \in 1..7 : r[i] = <<a, b, c, d, e, f, g>>[i]
    BY <1>3, <1>4
  <1>6. r = <<a, b, c, d, e, f, g>>
    <2> HIDE DEF r
    <2> QED
      BY <1>1, <1>2, <1>5, SeqEqual
  <1> QED
    BY <1>6

LEMMA DataChains ==
    /\ DataChain(Gitlab, <<"regexRewrite">>) \in RewritingChains
    /\ DataChain(Gitlab, <<>>) \in DirectChains
PROOF
  <1> DEFINE first == <<"session", "renkuAccessToken">>
             last  == <<"notebooksRenkuRefreshToken", "notebooksAnonymousID">>
  <1>1. CASE EnableInternalGitlab
    <2> DEFINE g == <<"session", "renkuAccessToken", "dataGitlabAccessToken">>
               h == <<"session", "renkuAccessToken", "dataGitlabAccessToken",
                      "notebooksRenkuRefreshToken", "notebooksAnonymousID">>
               i == <<"session", "renkuAccessToken", "dataGitlabAccessToken",
                      "notebooksRenkuRefreshToken", "notebooksAnonymousID", "regexRewrite">>
    <2>1. first \o <<"dataGitlabAccessToken">> = g
      BY Concat21
    <2>2. g \o last = h
      BY Concat32
    <2>3. h \o <<>> = h
      BY ConcatEmptySeq
    <2>4. h \o <<"regexRewrite">> = i
      BY Concat51
    <2>5. h \o <<"data">> \in DirectChains /\ i \o <<"data">> \in RewritingChains
      BY Concat51, Concat61 DEF RewritingChains, DirectChains
    <2> HIDE DEF g, h, i
    <2> QED
      BY <1>1, <2>1, <2>2, <2>3, <2>4, <2>5 DEF DataChain, Gitlab
  <1>2. CASE ~EnableInternalGitlab
    <2> DEFINE h == <<"session", "renkuAccessToken",
                      "notebooksRenkuRefreshToken", "notebooksAnonymousID">>
               i == <<"session", "renkuAccessToken",
                      "notebooksRenkuRefreshToken", "notebooksAnonymousID", "regexRewrite">>
    <2>1. first \o <<>> = first
      BY ConcatEmptySeq
    <2>2. first \o last = h
      BY Concat22
    <2>3. h \o <<>> = h
      BY ConcatEmptySeq
    <2>4. h \o <<"regexRewrite">> = i
      BY Concat41
    <2>5. h \o <<"data">> \in DirectChains /\ i \o <<"data">> \in RewritingChains
      BY Concat41, Concat51 DEF RewritingChains, DirectChains
    <2> HIDE DEF h, i
    <2> QED
      BY <1>2, <2>1, <2>2, <2>3, <2>4, <2>5 DEF DataChain, Gitlab
  <1> QED
    BY <1>1, <1>2

LEMMA GroupChains ==
    ASSUME NEW g \in Groups \cup {LoginRoutes}
    PROVE  g.chain \in Chains /\ Len(g.prefix) \in 1..4
  BY DataChains DEF Groups, LoginRoutes, Chains

\* Of the groups that fit one has the longest prefix.
LEMMA LongestFits ==
    ASSUME NEW fits \in SUBSET (Groups \cup {LoginRoutes}), fits # {}
    PROVE  (CHOOSE g \in fits : \A h \in fits : Len(h.prefix) <= Len(g.prefix)) \in fits
PROOF
  <1> DEFINE lengths == {Len(g.prefix) : g \in fits}
  <1>1. lengths \in SUBSET (1..4) /\ lengths # {}
    BY GroupChains
  <1>2. PICK n \in lengths : \A m \in lengths : m <= n
    <2> HIDE DEF lengths
    <2> QED
      BY <1>1, Greatest
  <1>3. \E g \in fits : \A h \in fits : Len(h.prefix) <= Len(g.prefix)
    BY <1>2
  <1> QED
    BY <1>3

\* Whatever the URL, Route finds one of these chains.
LEMMA RouteFinds ==
    ASSUME NEW u
    PROVE  Route(u) \in Chains
PROOF
  <1> DEFINE path == IF u.RawPath = <<>> THEN u.Path ELSE u.RawPath
             fits == {g \in Groups \cup {LoginRoutes} :
                        /\ IsPrefix(g.prefix, path)
                        /\ g.prefix = <<"api", "gitlab-redirect">> => g.prefix # path}
             longest == CHOOSE g \in fits : \A h \in fits : Len(h.prefix) <= Len(g.prefix)
  <1>1. Route(u) = IF fits # {} THEN longest.chain
                   ELSE IF path = <<>> THEN Fallback.chain ELSE <<"notFound">>
    BY DEF Route
  <1>2. CASE fits # {}
    <2>1. fits \in SUBSET (Groups \cup {LoginRoutes})
      OBVIOUS
    <2> HIDE DEF fits
    <2>2. longest \in fits
      BY <1>2, <2>1, LongestFits
    <2> QED
      BY <1>1, <1>2, <2>1, <2>2, GroupChains
  <1>3. CASE fits = {}
    BY <1>1, <1>3 DEF Fallback, Chains
  <1> QED
    BY <1>2, <1>3

LEMMA ChainsInOrder ==
    ASSUME NEW c \in Chains
    PROVE  InOrder(c)
PROOF
  <1>1. InOrder(<<"session", "notFound">>)
    BY DEF InOrder, Late, anonymousID, Middleware, Ends, Services
  <1>2. InOrder(<<"session", "renkuAccessToken", "dataGitlabAccessToken",
               "notebooksRenkuRefreshToken", "notebooksAnonymousID", "regexRewrite", "data">>)
    BY DEF InOrder, Late, anonymousID, Middleware, Ends, Services
  <1>3. InOrder(<<"session", "renkuAccessToken",
               "notebooksRenkuRefreshToken", "notebooksAnonymousID", "regexRewrite", "data">>)
    BY DEF InOrder, Late, anonymousID, Middleware, Ends, Services
  <1>4. InOrder(<<"session", "renkuAccessToken", "dataGitlabAccessToken",
               "notebooksRenkuRefreshToken", "notebooksAnonymousID", "data">>)
    BY DEF InOrder, Late, anonymousID, Middleware, Ends, Services
  <1>5. InOrder(<<"session", "renkuAccessToken",
               "notebooksRenkuRefreshToken", "notebooksAnonymousID", "data">>)
    BY DEF InOrder, Late, anonymousID, Middleware, Ends, Services
  <1>6. InOrder(<<"session", "stripPrefix", "renkuAccessToken", "keycloak">>)
    BY DEF InOrder, Late, anonymousID, Middleware, Ends, Services
  <1>7. InOrder(<<"session", "ensureSession", "renkuAccessToken", "ui">>)
    BY DEF InOrder, Late, anonymousID, Middleware, Ends, Services
  <1>8. InOrder(<<"session", "ui">>)
    BY DEF InOrder, Late, anonymousID, Middleware, Ends, Services
  <1>9. InOrder(<<"session", "redirect">>)
    BY DEF InOrder, Late, anonymousID, Middleware, Ends, Services
  <1>10. InOrder(<<"session", "login">>)
    BY DEF InOrder, Late, anonymousID, Middleware, Ends, Services
  <1>11. InOrder(<<"session", "base">>)
    BY DEF InOrder, Late, anonymousID, Middleware, Ends, Services
  <1>12. InOrder(<<"notFound">>)
    BY DEF InOrder, Late, anonymousID, Middleware, Ends, Services
  <1> QED
    BY <1>1, <1>2, <1>3, <1>4, <1>5, <1>6, <1>7, <1>8, <1>9, <1>10, <1>11, <1>12 DEF Chains, RewritingChains, DirectChains

----------------------------------------------------------------------------
(* Types, but for the URL                                                   *)

Anyone == User \cup {Nobody}
Auth   == Credentials \cup {OfSession(user) : user \in User}
             \cup {OfClient("bare", token) : token \in Presented}
Header == [auth : Auth, gitlab : Someone, refresh : Someone,
           anon : {NoID, CookieID, NewID}]

TypeInv ==
    /\ cookie \in BOOLEAN /\ credentials \in Credentials
    /\ stored \in Session /\ valid \subseteq Kind
    /\ ctx \in Session /\ loaded = (ctx # NoSession)
    /\ chain \in Seq(Middleware)
    /\ header \in Header
    /\ setCookie \in {NoID, NewID}
    /\ served \in Ends \cup {"", "error"}

\* Whose the session is that a request finds, and which ID it has.
SessionInv ==
    /\ stored # NoSession => cookie /\ stored.id = CookieID
    /\ stored.user \in Anyone
    /\ ctx.id = CookieID => cookie
    /\ ctx.id = NewID <=> setCookie = NewID

\* The users that the request may still speak for, or speaks for already.
Known == {stored.user, ctx.user, header.refresh, header.gitlab}
            \cup {user \in User : header.auth = OfSession(user)}

\* With a cookie these are one user, the one of the session; without one they
\* are the subject of the token that the request presents.
UserInv ==
    /\ \A user \in User : header.auth = OfSession(user) => user # Nobody
    /\ cookie => /\ header.auth.form # "bare"
                 /\ Known \subseteq Anyone
                 /\ \A u, v \in Known \ {Nobody} : u = v
    /\ ~cookie => /\ header.auth.form # "session"
                  /\ \A u \in Known \ {Nobody} :
                        header.auth.form = "bare" /\ header.auth.token.subject = u

\* What the data service is to be told of the user.
Settled ==
    /\ header.refresh # Nobody <=> header.anon = NoID
    /\ header.anon # NoID =>
          header.anon = (IF setCookie # NoID THEN setCookie
                         ELSE IF cookie THEN CookieID ELSE NoID)

\* The chain still to run, and what has been done of it.
ChainInv ==
    /\ \A h, i \in 1..Len(chain) : h < i /\ chain[h] = anonymousID => chain[i] \in Late
    /\ header.anon # NoID => AllLate(chain)
    /\ \A i \in 1..Len(chain) : chain[i] = "data" =>
          \/ \E h \in 1..Len(chain) : h < i /\ chain[h] = anonymousID
          \/ Settled /\ AllLate(chain)
    /\ served # "" => chain = <<>>
    /\ served = "data" => Settled

HeaderInv == TypeInv /\ SessionInv /\ UserInv /\ ChainInv /\ VerifiedCredentials

----------------------------------------------------------------------------
\* The three kinds of Authorization header are told apart by their form.
LEMMA AuthForms ==
    ASSUME NEW auth \in Auth
    PROVE  \/ auth = Nothing /\ auth.form = "none"
           \/ auth.form = "session" /\ \E user \in User : auth = OfSession(user)
           \/ /\ auth.form \in {"bearer", "basic", "bare"}
              /\ \E token \in Presented : auth = OfClient(auth.form, token)
              /\ auth.token \in Presented
  BY DEF Auth, Credentials, Nothing, OfSession, OfClient

LEMMA Forms ==
    /\ Nothing.form = "none"
    /\ \A user : OfSession(user).form = "session" /\ OfSession(user).user = user
    /\ \A form, token : /\ OfClient(form, token).form = form
                        /\ OfClient(form, token).token = token
  BY DEF Nothing, OfSession, OfClient

LEMMA SameUser ==
    ASSUME NEW u, NEW v, OfSession(u) = OfSession(v)
    PROVE  u = v
  BY DEF OfSession

\* What SessionStore.Get can give, as four cases.
LEMMA GetResults ==
    ASSUME NEW r \in Get
    PROVE  \/ loaded /\ r = Result(TRUE, ctx, TRUE, header.auth)
           \/ ~loaded /\ r = NotFound
           \/ /\ ~loaded /\ cookie /\ stored # NoSession
              /\ r = Result(TRUE, stored, FALSE, header.auth)
           \/ /\ ~loaded /\ ~cookie /\ Verified
              /\ r = FromCredentials(header.auth.token)
  BY DEF Get

\* A session with credentials is that of a presented token that is verified.
LEMMA CredentialsVerified ==
    ASSUME TypeInv, Verified
    PROVE  /\ header.auth.token \in Presented
           /\ OfClient("bare", header.auth.token) \in Auth
           /\ Vouched(header.auth.token)
           /\ header.auth.token.subject \in Someone \ {Nobody}
PROOF
  <1>1. header.auth \in Auth /\ header.auth.form \notin {"none", "session"}
    BY DEF TypeInv, Header, Verified
  <1>2. header.auth.token \in Presented
    BY <1>1, AuthForms
  <1>3. Vouched(header.auth.token) /\ header.auth.token.subject # Nobody
    BY <1>2, VerifiedIsVouched DEF Verified
  <1> QED
    BY <1>2, <1>3 DEF Auth, Someone, Subject

LEMMA GetTypes ==
    ASSUME TypeInv, NEW r \in Get
    PROVE  /\ r.ok \in BOOLEAN /\ r.session \in Session /\ r.inContext \in BOOLEAN
           /\ r.auth \in Auth
           /\ r.ok <=> r.session # NoSession
           /\ loaded => r.ok /\ r.inContext
PROOF
  <1>1. NoSession \in Session
    BY DEF NoSession, Session, Someone
  <1>2. header.auth \in Auth /\ ctx \in Session /\ stored \in Session
    BY DEF TypeInv, Header
  <1>3. CASE loaded /\ r = Result(TRUE, ctx, TRUE, header.auth)
    BY <1>2, <1>3 DEF Result, TypeInv
  <1>4. CASE ~loaded /\ r = NotFound
    BY <1>1, <1>2, <1>4 DEF Result, NotFound
  <1>5. CASE /\ ~loaded /\ cookie /\ stored # NoSession
             /\ r = Result(TRUE, stored, FALSE, header.auth)
    BY <1>2, <1>5 DEF Result
  <1>6. CASE ~loaded /\ ~cookie /\ Verified /\ r = FromCredentials(header.auth.token)
    <2> DEFINE s == [id |-> NoID, user |-> header.auth.token.subject]
    <2>1. s \in Session /\ s # NoSession
      BY <1>6, CredentialsVerified DEF Session, NoSession, NoID
    <2>2. r = Result(TRUE, s, TRUE, OfClient("bare", header.auth.token))
      BY <1>6 DEF FromCredentials
    <2> HIDE DEF s
    <2> QED
      BY <1>6, <2>1, <2>2, CredentialsVerified DEF Result
  <1> QED
    BY <1>3, <1>4, <1>5, <1>6, GetResults

IDs == NoSession.id = NoID /\ NoID # CookieID /\ NoID # NewID /\ CookieID # NewID

\* The ID of the session that Get gives: the cookie that the browser has, or
\* the one that it will get.
LEMMA GetIDs ==
    ASSUME TypeInv, SessionInv, NEW r \in Get
    PROVE  /\ r.session.id = CookieID => cookie
           /\ r.session.id = NewID <=> setCookie = NewID
           /\ ~r.inContext /\ r.ok => ~loaded
PROOF
  <1>1. IDs
    BY DEF IDs, NoSession, NewID, NoID, CookieID
  <1>2. /\ loaded = (ctx # NoSession) /\ setCookie \in {NoID, NewID}
        /\ stored # NoSession => cookie /\ stored.id = CookieID
        /\ ctx.id = CookieID => cookie
        /\ ctx.id = NewID <=> setCookie = NewID
    BY DEF TypeInv, SessionInv
  <1>3. ~loaded => ctx = NoSession
    BY <1>2
  <1>4. ~loaded => setCookie = NoID
    BY <1>1, <1>2, <1>3 DEF IDs
  <1>5. CASE loaded /\ r = Result(TRUE, ctx, TRUE, header.auth)
    BY <1>2, <1>5 DEF Result
  <1>6. CASE ~loaded /\ r = NotFound
    BY <1>1, <1>4, <1>6 DEF Result, NotFound, IDs
  <1>7. CASE /\ ~loaded /\ cookie /\ stored # NoSession
             /\ r = Result(TRUE, stored, FALSE, header.auth)
    BY <1>1, <1>2, <1>4, <1>7 DEF Result, IDs
  <1>8. CASE ~loaded /\ ~cookie /\ Verified /\ r = FromCredentials(header.auth.token)
    BY <1>1, <1>4, <1>8 DEF Result, FromCredentials, IDs
  <1> QED
    BY <1>5, <1>6, <1>7, <1>8, GetResults

\* Whose the session is that Get gives, and what it does to the credentials.
LEMMA GetUsers ==
    ASSUME TypeInv, SessionInv, UserInv, NEW r \in Get
    PROVE  /\ cookie => r.auth = header.auth /\ r.session.user \in Known \cup {Nobody}
           /\ ~cookie => /\ r.auth.form # "session"
                         /\ r.session.user # Nobody =>
                               r.auth.form = "bare" /\ r.auth.token.subject = r.session.user
           /\ header.auth.form = "bare" => r.auth = header.auth
PROOF
  <1>1. header.auth \in Auth
    BY DEF TypeInv, Header
  <1>2. NoSession.user = Nobody
    BY DEF NoSession
  <1>3. CASE loaded /\ r = Result(TRUE, ctx, TRUE, header.auth)
    <2>1. r.auth = header.auth /\ r.session = ctx /\ ctx.user \in Known
      BY <1>3 DEF Result, Known
    <2> QED
      BY <2>1 DEF UserInv
  <1>4. CASE ~loaded /\ r = NotFound
    <2>1. r.auth = header.auth /\ r.session = NoSession
      BY <1>4 DEF Result, NotFound
    <2> QED
      BY <2>1, <1>2 DEF UserInv
  <1>5. CASE /\ ~loaded /\ cookie /\ stored # NoSession
             /\ r = Result(TRUE, stored, FALSE, header.auth)
    <2>1. r.auth = header.auth /\ r.session = stored /\ stored.user \in Known
      BY <1>5 DEF Result, Known
    <2> QED
      BY <1>5, <2>1 DEF UserInv
  <1>6. CASE ~loaded /\ ~cookie /\ Verified /\ r = FromCredentials(header.auth.token)
    <2> DEFINE token == header.auth.token
    <2>1. r.auth = OfClient("bare", token) /\ r.session.user = token.subject
      BY <1>6 DEF FromCredentials, Result
    <2>2. r.auth.form = "bare" /\ r.auth.token = token
      BY <2>1, Forms
    <2>3. header.auth.form = "bare" => header.auth = OfClient("bare", token)
      BY <1>1, AuthForms, Forms
    <2> QED
      BY <1>6, <2>1, <2>2, <2>3
  <1> QED
    BY <1>3, <1>4, <1>5, <1>6, GetResults

\* Get lets nobody in without a token that is vouched for.
LEMMA GetVouched ==
    ASSUME TypeInv, VerifiedCredentials, NEW r \in Get, r.auth.form = "bare"
    PROVE  Vouched(r.auth.token)
PROOF
  <1>1. CASE r.auth = header.auth
    BY <1>1 DEF VerifiedCredentials, Vouched
  <1>2. CASE Verified /\ r = FromCredentials(header.auth.token)
    <2>1. r.auth = OfClient("bare", header.auth.token)
      BY <1>2 DEF FromCredentials, Result
    <2> QED
      BY <1>2, <2>1, Forms, CredentialsVerified
  <1>3. r.auth = header.auth \/ (Verified /\ r = FromCredentials(header.auth.token))
    BY GetResults DEF Result, NotFound
  <1> QED
    BY <1>1, <1>2, <1>3

----------------------------------------------------------------------------
(* The steps of the middlewares that ask for the session                    *)

\* What becomes of the session.
Takes(r) ==
    \/ loaded' = r.ok /\ ctx' = r.session /\ UNCHANGED setCookie
    \/ Keeps(r) /\ UNCHANGED setCookie
    \/ Create /\ (~r.ok \/ r.session.id = NoID)

Before(r) == [header EXCEPT !.auth = r.auth]

\* What becomes of the headers.
Sets(r) ==
    \/ header' = Before(r)
    \/ /\ r.ok /\ r.session.user # Nobody
       /\ \E kind \in Kind : header' = Injected(Before(r), kind, r.session.user)
    \/ \E id \in {CookieID, NewID} : header' = AnonymousHeader(Before(r), id)

Asks == /\ Continue /\ chain # <<>>
        /\ UNCHANGED <<request, store, served>>
        /\ \E r \in Get : Takes(r) /\ Sets(r)

\* The same of any step that asks for the session, wherever the chain goes.
Looks == /\ UNCHANGED <<request, store>>
         /\ chain' \in Seq(Middleware) /\ served' \in Ends \cup {"", "error"}
         /\ \E r \in Get : Takes(r) /\ Sets(r)

\* The fields of the new headers, and the Authorization header in particular.
LEMMA SetsFields ==
    ASSUME TypeInv, NEW r \in Get, Sets(r)
    PROVE  /\ header'.auth \in Auth => header' \in Header
           /\ \/ header'.auth = r.auth
              \/ /\ r.auth = Nothing /\ r.ok /\ r.session.user # Nobody
                 /\ header'.auth = OfSession(r.session.user)
           /\ header'.refresh \in {header.refresh, r.session.user}
           /\ header'.gitlab \in {header.gitlab, r.session.user}
PROOF
  <1>1. header \in Header /\ r.auth \in Auth /\ r.session.user \in Someone
    BY GetTypes DEF TypeInv, Session
  <1>2. /\ Before(r) \in Header /\ Before(r).auth = r.auth
        /\ Before(r).refresh = header.refresh /\ Before(r).gitlab = header.gitlab
    BY <1>1 DEF Before, Header
  <1>3. CASE header' = Before(r)
    BY <1>2, <1>3
  <1>4. ASSUME NEW id \in {CookieID, NewID}, header' = AnonymousHeader(Before(r), id)
        PROVE  header' \in Header /\ header'.auth = r.auth
               /\ header'.refresh = header.refresh /\ header'.gitlab = header.gitlab
    BY <1>2, <1>4 DEF AnonymousHeader, Header
  <1>5. CASE header' = GitlabToken(Before(r), r.session.user)
    BY <1>1, <1>2, <1>5 DEF GitlabToken, Header
  <1>6. CASE header' = RefreshToken(Before(r), r.session.user)
    BY <1>1, <1>2, <1>6 DEF RefreshToken, Header
  <1>7. CASE /\ r.ok /\ r.session.user # Nobody
             /\ header' = BearerToken(Before(r), r.session.user)
    <2>1. CASE r.auth = Nothing
      BY <1>1, <1>2, <1>7, <2>1 DEF BearerToken, Header
    <2>2. CASE r.auth # Nothing
      BY <1>2, <1>7, <2>2 DEF BearerToken
    <2> QED
      BY <2>1, <2>2
  <1> QED
    BY <1>3, <1>4, <1>5, <1>6, <1>7 DEF Sets, Kind, Injected

LEMMA AsksAuth ==
    ASSUME TypeInv, SessionInv, UserInv, NEW r \in Get, Sets(r)
    PROVE  header' \in Header
PROOF
  <1>1. CASE header'.auth = r.auth
    BY <1>1, GetTypes, SetsFields
  <1>2. CASE /\ r.auth = Nothing /\ r.ok /\ r.session.user # Nobody
             /\ header'.auth = OfSession(r.session.user)
    <2>1. cookie
      BY <1>2, GetUsers, Forms DEF TypeInv
    <2>2. r.session.user \in Anyone
      BY <2>1, GetUsers DEF UserInv, Anyone
    <2> QED
      BY <1>2, <2>2, SetsFields DEF Auth, Anyone
  <1> QED
    BY <1>1, <1>2, SetsFields

LEMMA AsksLooks ==
    ASSUME TypeInv, Asks
    PROVE  Looks
PROOF
  <1>1. chain' \in Seq(Middleware)
    BY HeadTailProperties DEF Asks, Continue, TypeInv
  <1>2. served' \in Ends \cup {"", "error"}
    BY DEF Asks, TypeInv
  <1> QED
    BY <1>1, <1>2 DEF Asks, Looks

LEMMA LooksTypes ==
    ASSUME TypeInv, SessionInv, UserInv, Looks
    PROVE  TypeInv' /\ SessionInv'
PROOF
  <1>1. PICK r \in Get : Takes(r) /\ Sets(r)
    BY DEF Looks
  <1>2. UNCHANGED <<cookie, credentials, stored, valid>>
    BY DEF Looks, request, store
  <1>3. chain' \in Seq(Middleware) /\ served' \in Ends \cup {"", "error"}
    BY DEF Looks
  <1>4. /\ r.ok \in BOOLEAN /\ r.session \in Session /\ r.inContext \in BOOLEAN
        /\ r.ok <=> r.session # NoSession
        /\ loaded => r.ok /\ r.inContext
    BY GetTypes
  <1>5. /\ ctx' \in Session /\ loaded' = (ctx' # NoSession)
        /\ setCookie' \in {NoID, NewID}
        /\ ctx'.id = CookieID => cookie
        /\ ctx'.id = NewID <=> setCookie' = NewID
    <2>1. /\ ctx \in Session /\ loaded = (ctx # NoSession) /\ setCookie \in {NoID, NewID}
          /\ stored # NoSession => cookie /\ stored.id = CookieID
          /\ ctx.id = CookieID => cookie
          /\ ctx.id = NewID <=> setCookie = NewID
      BY DEF TypeInv, SessionInv
    <2>0. NoSession.id = NoID /\ NoID # CookieID /\ NoID # NewID /\ CookieID # NewID
      BY DEF NoSession, NewID, NoID, CookieID
    <2>2. CASE Create
      <3>1. [id |-> NewID, user |-> Nobody] \in Session
        BY DEF Session, Someone
      <3>2. ctx' \in Session /\ ctx'.id = NewID /\ setCookie' = NewID /\ loaded' = TRUE
        BY <2>2, <3>1 DEF Create
      <3>3. ctx' # NoSession
        BY <3>2, <2>0
      <3> QED
        BY <3>2, <3>3, <2>0
    <2>3. /\ r.session.id = CookieID => cookie
          /\ r.session.id = NewID <=> setCookie = NewID
          /\ ~r.inContext /\ r.ok => ~loaded
      BY GetIDs
    <2>4. CASE loaded' = r.ok /\ ctx' = r.session /\ UNCHANGED setCookie
      BY <1>4, <2>1, <2>3, <2>4
    <2>5. CASE Keeps(r) /\ UNCHANGED setCookie
      <3>1. CASE r.inContext
        <4>1. r.ok
          BY <3>1, GetResults DEF Result, NotFound, FromCredentials
        <4> QED
          BY <1>4, <2>1, <2>3, <2>5, <3>1, <4>1 DEF Keeps
      <3>2. CASE ~r.inContext
        BY <1>4, <2>1, <2>5, <3>2 DEF Keeps
      <3> QED
        BY <3>1, <3>2
    <2> QED
      BY <1>1, <2>2, <2>4, <2>5 DEF Takes
  <1>6. header' \in Header
    BY <1>1, AsksAuth
  <1>7. stored' # NoSession => cookie' /\ stored'.id = CookieID
    BY <1>2 DEF SessionInv
  <1>8. stored'.user \in Anyone
    BY <1>2 DEF SessionInv
  <1> QED
    BY <1>2, <1>3, <1>5, <1>6, <1>7, <1>8 DEF TypeInv, SessionInv

LEMMA LooksUsers ==
    ASSUME TypeInv, SessionInv, UserInv, VerifiedCredentials, Looks
    PROVE  UserInv' /\ VerifiedCredentials'
PROOF
  <1>1. PICK r \in Get : Takes(r) /\ Sets(r)
    BY DEF Looks
  <1>2. cookie' = cookie /\ stored' = stored
    BY DEF Looks, request, store
  <1>3. ctx'.user \in {ctx.user, r.session.user, Nobody}
    BY <1>1 DEF Takes, Keeps, Create
  <1>4. /\ \/ header'.auth = r.auth
           \/ /\ r.auth = Nothing /\ r.session.user # Nobody
              /\ header'.auth = OfSession(r.session.user)
        /\ header'.refresh \in {header.refresh, r.session.user}
        /\ header'.gitlab \in {header.gitlab, r.session.user}
    BY <1>1, SetsFields
  <1>5. CASE cookie
    <2>1. r.auth = header.auth /\ r.session.user \in Known \cup {Nobody}
      BY <1>5, GetUsers
    <2>2. /\ header.auth.form # "bare" /\ Known \subseteq Anyone
          /\ \A u, v \in Known \ {Nobody} : u = v
          /\ \A user \in User : header.auth = OfSession(user) => user # Nobody
      BY <1>5 DEF UserInv
    <2>3. header'.auth.form # "bare"
      BY <1>4, <2>1, <2>2, Forms
    <2>4. ASSUME NEW user \in User, header'.auth = OfSession(user)
          PROVE  user # Nobody /\ user \in Known
      <3>1. CASE header'.auth = r.auth
        BY <2>1, <2>2, <2>4, <3>1 DEF Known
      <3>2. CASE /\ r.session.user # Nobody /\ header'.auth = OfSession(r.session.user)
        <4>1. user = r.session.user
          BY <2>4, <3>2, SameUser
        <4> QED
          BY <2>1, <3>2, <4>1
      <3> QED
        BY <1>4, <3>1, <3>2
    <2>5. {stored.user, ctx.user, header.refresh, header.gitlab} \subseteq Known
      BY DEF Known
    <2>6. Known' \subseteq Known \cup {Nobody}
      <3>1. {stored'.user, ctx'.user, header'.refresh, header'.gitlab} \subseteq Known \cup {Nobody}
        BY <1>2, <1>3, <1>4, <2>1, <2>5
      <3> QED
        BY <2>4, <3>1 DEF Known
    <2> QED
      BY <1>2, <1>5, <2>2, <2>3, <2>4, <2>6 DEF UserInv, VerifiedCredentials, Anyone
  <1>6. CASE ~cookie
    <2>1. /\ r.auth.form # "session"
          /\ r.session.user # Nobody =>
                r.auth.form = "bare" /\ r.auth.token.subject = r.session.user
          /\ header.auth.form = "bare" => r.auth = header.auth
      BY <1>6, GetUsers
    <2>2. /\ header.auth.form # "session"
          /\ \A u \in Known \ {Nobody} :
                header.auth.form = "bare" /\ header.auth.token.subject = u
      BY <1>6 DEF UserInv
    <2>3. header'.auth = r.auth
      BY <1>4, <2>1, Forms
    <2>4. ASSUME NEW user \in User
          PROVE  header'.auth # OfSession(user)
      BY <2>1, <2>3, Forms
    <2>5. ASSUME NEW u \in Known', u # Nobody
          PROVE  u = r.session.user \/ u \in Known
      BY <1>2, <1>3, <1>4, <2>4, <2>5 DEF Known
    <2>6. ASSUME NEW u \in Known', u # Nobody
          PROVE  header'.auth.form = "bare" /\ header'.auth.token.subject = u
      BY <2>1, <2>2, <2>3, <2>5, <2>6
    <2>7. header'.auth.form = "bare" => Vouched(header'.auth.token)
      BY <2>3, GetVouched
    <2> QED
      BY <1>2, <1>6, <2>1, <2>3, <2>4, <2>6, <2>7 DEF UserInv, VerifiedCredentials, Vouched
  <1> QED
    BY <1>5, <1>6 DEF TypeInv

----------------------------------------------------------------------------
(* The chain                                                                *)

\* A middleware that runs keeps the chain in order: the anonymous ID is set by
\* one only, and nothing that comes after it touches what it has looked at.
LEMMA ContinueKeeps ==
    ASSUME TypeInv, ChainInv, Continue, chain # <<>>, UNCHANGED <<cookie, served>>,
           \/ Head(chain) = anonymousID /\ Settled'
           \/ Head(chain) \notin Late \cup {anonymousID} /\ header'.anon = header.anon
           \/ Head(chain) \in Late /\ UNCHANGED <<header, setCookie>>
    PROVE  ChainInv'
PROOF
  <1> DEFINE n == Len(chain)
  <1>1. /\ n \in Nat \ {0} /\ chain' = Tail(chain) /\ Len(chain') = n - 1
        /\ chain[1] = Head(chain)
        /\ \A i \in 1..(n - 1) : chain'[i] = chain[i + 1]
    <2>1. chain \in Seq(Middleware) /\ chain' = Tail(chain)
      BY DEF TypeInv, Continue
    <2>2. n \in Nat \ {0} /\ chain[1] = Head(chain)
      BY <2>1, EmptySeq
    <2>3. /\ Len(Tail(chain)) = n - 1
          /\ \A i \in 1..Len(Tail(chain)) : Tail(chain)[i] = chain[i + 1]
      BY <2>1, HeadTailProperties
    <2> QED
      BY <2>1, <2>2, <2>3
  <1>2. served' = "" /\ "" # "data"
    BY DEF ChainInv
  <1>3. \A h, i \in 1..n : h < i /\ chain[h] = anonymousID => chain[i] \in Late
    BY DEF ChainInv
  <1>4. \A h, i \in 1..Len(chain') : h < i /\ chain'[h] = anonymousID => chain'[i] \in Late
    <2> SUFFICES ASSUME NEW h \in 1..(n - 1), NEW i \in 1..(n - 1), h < i,
                        chain'[h] = anonymousID
                 PROVE  chain'[i] \in Late
      BY <1>1
    <2>1. h + 1 \in 1..n /\ i + 1 \in 1..n /\ h + 1 < i + 1
      BY <1>1
    <2> QED
      BY <1>1, <1>3, <2>1
  <1>5. CASE Head(chain) = anonymousID /\ Settled'
    <2>1. \A i \in 1..Len(chain') : chain'[i] \in Late
      <3> SUFFICES ASSUME NEW i \in 1..(n - 1)
                   PROVE  chain'[i] \in Late
        BY <1>1
      <3>1. 1 \in 1..n /\ i + 1 \in 1..n /\ 1 < i + 1
        BY <1>1
      <3> QED
        BY <1>1, <1>3, <1>5, <3>1
    <2> QED
      BY <1>2, <1>4, <1>5, <2>1 DEF ChainInv, AllLate
  <1>6. CASE Head(chain) \notin Late \cup {anonymousID} /\ header'.anon = header.anon
    <2>1. ~AllLate(chain)
      BY <1>1, <1>6 DEF AllLate
    <2>2. header'.anon = NoID
      BY <1>6, <2>1 DEF ChainInv
    <2>3. ASSUME NEW i \in 1..(n - 1), chain'[i] = "data"
          PROVE  \E h \in 1..(n - 1) : h < i /\ chain'[h] = anonymousID
      <3>1. i + 1 \in 1..n /\ chain[i + 1] = "data"
        BY <1>1, <2>3
      <3>2. PICK h \in 1..n : h < i + 1 /\ chain[h] = anonymousID
        BY <2>1, <3>1 DEF ChainInv
      <3>3. h # 1
        BY <1>1, <1>6, <3>2
      <3>4. h - 1 \in 1..(n - 1) /\ h - 1 < i /\ (h - 1) + 1 = h
        BY <1>1, <3>2, <3>3
      <3> QED
        BY <1>1, <3>2, <3>4
    <2> QED
      BY <1>1, <1>2, <1>4, <2>2, <2>3 DEF ChainInv
  <1>7. CASE Head(chain) \in Late /\ UNCHANGED <<header, setCookie>>
    <2>1. Settled' <=> Settled
      BY <1>7 DEF Settled
    <2>2. AllLate(chain) => AllLate(chain')
      <3> SUFFICES ASSUME AllLate(chain), NEW i \in 1..(n - 1)
                   PROVE  chain'[i] \in Late
        BY <1>1 DEF AllLate
      <3>1. i + 1 \in 1..n
        BY <1>1
      <3> QED
        BY <1>1, <3>1 DEF AllLate
    <2>3. ASSUME NEW i \in 1..(n - 1), chain'[i] = "data"
          PROVE  \/ \E h \in 1..(n - 1) : h < i /\ chain'[h] = anonymousID
                 \/ Settled /\ AllLate(chain)
      <3>1. i + 1 \in 1..n /\ chain[i + 1] = "data"
        BY <1>1, <2>3
      <3>2. ASSUME NEW h \in 1..n, h < i + 1, chain[h] = anonymousID
            PROVE  \E g \in 1..(n - 1) : g < i /\ chain'[g] = anonymousID
        <4>1. h # 1
          BY <1>1, <1>7, <3>2 DEF Late, anonymousID
        <4>2. h - 1 \in 1..(n - 1) /\ h - 1 < i /\ (h - 1) + 1 = h
          BY <1>1, <3>2, <4>1
        <4> QED
          BY <1>1, <3>2, <4>2
      <3> QED
        BY <3>1, <3>2 DEF ChainInv
    <2> QED
      BY <1>1, <1>2, <1>4, <1>7, <2>1, <2>2, <2>3 DEF ChainInv
  <1> QED
    BY <1>5, <1>6, <1>7

----------------------------------------------------------------------------
(* The steps                                                                *)

\* No injector but that of the anonymous ID sets an anonymous ID.
LEMMA InjectedAnon ==
    ASSUME TypeInv, NEW r \in Get, NEW kind \in Kind
    PROVE  /\ Before(r).anon = header.anon
           /\ Injected(Before(r), kind, r.session.user).anon = header.anon
PROOF
  <1>1. header \in Header
    BY DEF TypeInv
  <1>2. Before(r).anon = header.anon
    BY <1>1 DEF Before, Header
  <1>3. Before(r) = [auth |-> r.auth, gitlab |-> header.gitlab,
                     refresh |-> header.refresh, anon |-> header.anon]
    BY <1>1 DEF Before, Header
  <1>4. /\ BearerToken(Before(r), r.session.user).anon = header.anon
        /\ RefreshToken(Before(r), r.session.user).anon = header.anon
        /\ GitlabToken(Before(r), r.session.user).anon = header.anon
    BY <1>3 DEF BearerToken, RefreshToken, GitlabToken
  <1> QED
    BY <1>2, <1>4 DEF Kind, Injected

LEMMA LoadSessionAsks ==
    ASSUME TypeInv, LoadSession
    PROVE  Asks /\ Head(chain) \notin Late \cup {anonymousID} /\ header'.anon = header.anon
PROOF
  <1>1. PICK r \in Get : /\ loaded' = r.ok /\ ctx' = r.session
                         /\ header' = [header EXCEPT !.auth = r.auth]
    BY DEF LoadSession
  <1>2. Takes(r) /\ Sets(r)
    BY <1>1 DEF Takes, Sets, Before, LoadSession, response
  <1>3. header'.anon = header.anon
    BY <1>1, InjectedAnon DEF Before, Kind
  <1> QED
    BY <1>2, <1>3 DEF LoadSession, Runs, Asks, response, Late, anonymousID

LEMMA InjectAsks ==
    ASSUME TypeInv, NEW name, name \notin Late \cup {anonymousID}, NEW kind \in Kind,
           Inject(name, kind)
    PROVE  Asks /\ Head(chain) \notin Late \cup {anonymousID} /\ header'.anon = header.anon
PROOF
  <1>1. PICK r \in Get :
           /\ \/ /\ r.ok /\ Available(r.session, kind)
                 /\ header' = Injected(Before(r), kind, r.session.user)
              \/ header' = Before(r)
           /\ Keeps(r)
    BY DEF Inject, Before
  <1>2. Takes(r) /\ Sets(r)
    BY <1>1 DEF Takes, Sets, Available, Inject, response
  <1>3. header'.anon = header.anon
    BY <1>1, InjectedAnon
  <1>4. /\ chain # <<>> /\ Head(chain) = name /\ Continue
        /\ UNCHANGED <<request, store, served>>
    BY DEF Inject, Runs, response
  <1> QED
    BY <1>2, <1>3, <1>4 DEF Asks

LEMMA EnsureAsks ==
    ASSUME TypeInv, EnsureSession
    PROVE  Asks /\ Head(chain) \notin Late \cup {anonymousID} /\ header'.anon = header.anon
PROOF
  <1>1. PICK r \in Get :
           /\ header' = [header EXCEPT !.auth = r.auth]
           /\ \/ Keeps(r) /\ UNCHANGED setCookie
              \/ Create /\ (~r.ok \/ r.session.id = NoID)
    BY DEF EnsureSession, WithSession
  <1>2. Takes(r) /\ Sets(r)
    BY <1>1 DEF Takes, Sets, Before
  <1>3. header'.anon = header.anon
    BY <1>1, InjectedAnon DEF Before, Kind
  <1> QED
    BY <1>2, <1>3 DEF EnsureSession, Runs, Asks, Late, anonymousID

\* The anonymous ID: none with a refresh token, otherwise that of a session
\* which the browser has or gets.
LEMMA AnonymousSettles ==
    ASSUME TypeInv, SessionInv, ChainInv, AnonymousID
    PROVE  /\ Head(chain) = anonymousID /\ Settled'
           /\ Asks \/ /\ UNCHANGED <<asked, url, cookie, credentials, stored, valid, loaded,
                                     ctx, header, setCookie, served>>
                      /\ Continue
PROOF
  <1>1. /\ Head(chain) = anonymousID /\ chain # <<>> /\ Continue
        /\ UNCHANGED <<request, url, store, served>>
    BY DEF AnonymousID, Runs, anonymousID
  <1>2. header.anon = NoID
    <2>1. Len(chain) \in Nat \ {0} /\ chain[1] = Head(chain)
      <3>1. chain \in Seq(Middleware)
        BY DEF TypeInv
      <3> QED
        BY <1>1, <3>1, EmptySeq
    <2>2. 1 \in 1..Len(chain) /\ chain[1] \notin Late
      BY <1>1, <2>1 DEF Late, anonymousID
    <2> QED
      BY <2>2 DEF ChainInv, AllLate
  <1>3. CASE header.refresh # Nobody /\ UNCHANGED <<loaded, ctx, header, setCookie>>
    BY <1>1, <1>2, <1>3 DEF Settled, request, store
  <1>4. CASE header.refresh = Nobody /\ WithSession(TRUE)
    <2>1. PICK r \in Get :
             \/ /\ r.ok /\ r.session.id # NoID
                /\ header' = AnonymousHeader(Before(r), r.session.id)
                /\ Keeps(r)
                /\ UNCHANGED setCookie
             \/ /\ ~r.ok \/ r.session.id = NoID
                /\ Create
                /\ header' = AnonymousHeader(Before(r), NewID)
      BY <1>4 DEF WithSession, Before
    <2>2. r.session.id \in {NoID, CookieID, NewID}
      BY GetTypes DEF Session
    <2>3. Takes(r) /\ Sets(r)
      BY <2>1, <2>2 DEF Takes, Sets
    <2>4. ASSUME NEW id
          PROVE  /\ AnonymousHeader(Before(r), id).anon = id
                 /\ AnonymousHeader(Before(r), id).refresh = Nobody
      <3>1. header \in Header
        BY DEF TypeInv
      <3>2. Before(r) = [auth |-> r.auth, gitlab |-> header.gitlab,
                         refresh |-> header.refresh, anon |-> header.anon]
        BY <3>1 DEF Before, Header
      <3> QED
        BY <1>4, <3>2 DEF AnonymousHeader
    <2>5. IDs /\ setCookie \in {NoID, NewID} /\ cookie' = cookie
      <3>1. IDs
        BY DEF IDs, NoSession, NewID, NoID, CookieID
      <3> QED
        BY <1>1, <3>1 DEF TypeInv, request
    <2>6. Settled'
      <3>1. CASE /\ r.session.id # NoID /\ UNCHANGED setCookie
                 /\ header' = AnonymousHeader(Before(r), r.session.id)
        <4>1. header'.anon = r.session.id /\ header'.refresh = Nobody
          BY <2>4, <3>1
        <4>2. CASE r.session.id = CookieID
          BY <2>5, <3>1, <4>1, <4>2, GetIDs DEF Settled, IDs
        <4>3. CASE r.session.id = NewID
          BY <2>5, <3>1, <4>1, <4>3, GetIDs DEF Settled, IDs
        <4> QED
          BY <2>2, <3>1, <4>2, <4>3
      <3>2. CASE Create /\ header' = AnonymousHeader(Before(r), NewID)
        BY <2>4, <2>5, <3>2 DEF Settled, Create, IDs
      <3> QED
        BY <2>1, <3>1, <3>2
    <2> QED
      BY <1>1, <2>3, <2>6 DEF Asks
  <1> QED
    BY <1>3, <1>4 DEF AnonymousID

\* A step that leaves the user, the session and the headers alone.
LEMMA QuietUsers ==
    ASSUME TypeInv, SessionInv, UserInv, VerifiedCredentials,
           UNCHANGED <<cookie, stored, loaded, ctx, header, setCookie>>
    PROVE  SessionInv' /\ UserInv' /\ VerifiedCredentials'
PROOF
  <1>1. Known' = Known
    BY DEF Known
  <1> QED
    BY <1>1 DEF SessionInv, UserInv, VerifiedCredentials

\* The same, when in addition the request moves on or a token expires.
LEMMA QuietTypes ==
    ASSUME TypeInv, UNCHANGED <<cookie, credentials, stored, loaded, ctx, header, setCookie>>,
           valid' \subseteq Kind, chain' \in Seq(Middleware), served' \in Ends \cup {"", "error"}
    PROVE  TypeInv'
  BY DEF TypeInv

LEMMA TailType ==
    ASSUME TypeInv, chain # <<>>
    PROVE  Tail(chain) \in Seq(Middleware) /\ Head(chain) \in Middleware
  BY HeadTailProperties DEF TypeInv

\* The chain after a step that does not touch it.
LEMMA QuietChain ==
    ASSUME ChainInv, UNCHANGED <<cookie, header, setCookie, chain, served>>
    PROVE  ChainInv'
  BY DEF ChainInv, Settled, AllLate

LEMMA RewritePathKeeps ==
    ASSUME HeaderInv, RewritePath
    PROVE  HeaderInv'
PROOF
  <1>1. /\ TypeInv /\ SessionInv /\ UserInv /\ ChainInv /\ VerifiedCredentials
        /\ UNCHANGED <<cookie, credentials, stored, valid, loaded, ctx, header, setCookie, served>>
        /\ chain # <<>> /\ Head(chain) = "UiServerPathRewrite"
        /\ chain' = Route(UiServerPathRewrite(RemoveTrailingSlash(url)))
    BY DEF HeaderInv, RewritePath, Runs, request, store, response
  <1>2. InOrder(chain')
    BY <1>1, RouteFinds, ChainsInOrder
  <1>3. header.anon = NoID
    <2>1. chain \in Seq(Middleware)
      BY <1>1 DEF TypeInv
    <2>2. Len(chain) \in Nat \ {0} /\ chain[1] = Head(chain)
      BY <1>1, <2>1, EmptySeq
    <2>3. 1 \in 1..Len(chain) /\ chain[1] \notin Late
      BY <1>1, <2>2 DEF Late
    <2> QED
      BY <1>1, <2>3 DEF ChainInv, AllLate
  <1>4. TypeInv'
    BY <1>1, <1>2, QuietTypes DEF InOrder, TypeInv
  <1>5. ChainInv'
    BY <1>1, <1>2, <1>3 DEF ChainInv, InOrder
  <1> QED
    BY <1>1, <1>4, <1>5, QuietUsers DEF HeaderInv

\* The middlewares that ask for the session and are not the last to set a header.
LEMMA AsksKeeps ==
    ASSUME HeaderInv, Asks,
           \/ Head(chain) = anonymousID /\ Settled'
           \/ Head(chain) \notin Late \cup {anonymousID} /\ header'.anon = header.anon
    PROVE  HeaderInv'
PROOF
  <1>1. /\ TypeInv /\ SessionInv /\ UserInv /\ ChainInv /\ VerifiedCredentials
        /\ Continue /\ chain # <<>> /\ UNCHANGED <<cookie, served>>
    BY DEF HeaderInv, Asks, request
  <1> QED
    BY <1>1, AsksLooks, LooksTypes, LooksUsers, ContinueKeeps DEF HeaderInv

LEMMA AnonymousIDKeeps ==
    ASSUME HeaderInv, AnonymousID
    PROVE  HeaderInv'
PROOF
  <1>1. TypeInv /\ SessionInv /\ UserInv /\ ChainInv /\ VerifiedCredentials
    BY DEF HeaderInv
  <1>2. Head(chain) = anonymousID /\ Settled' /\ chain # <<>>
    BY <1>1, AnonymousSettles DEF AnonymousID, Runs
  <1>3. CASE Asks
    BY <1>2, <1>3, AsksKeeps
  <1>4. CASE /\ UNCHANGED <<asked, url, cookie, credentials, stored, valid, loaded,
                            ctx, header, setCookie, served>>
             /\ Continue
    <2>1. TypeInv'
      BY <1>1, <1>2, <1>4, QuietTypes, TailType DEF Continue, TypeInv
    <2>2. ChainInv'
      BY <1>1, <1>2, <1>4, ContinueKeeps
    <2> QED
      BY <1>1, <1>4, <2>1, <2>2, QuietUsers DEF HeaderInv
  <1> QED
    BY <1>1, <1>3, <1>4, AnonymousSettles

\* The error of Create ends the request: no service is told anything.
LEMMA CreateFailsKeeps ==
    ASSUME HeaderInv, CreateFails
    PROVE  HeaderInv'
PROOF
  <1>1. /\ TypeInv /\ SessionInv /\ UserInv /\ ChainInv /\ VerifiedCredentials
        /\ UNCHANGED <<request, store, setCookie>> /\ chain' = <<>> /\ served' = "error"
    BY DEF HeaderInv, CreateFails
  <1>2. PICK r \in Get : header' = Before(r) /\ Keeps(r)
    BY DEF CreateFails, Before
  <1>3. Takes(r) /\ Sets(r)
    BY <1>1, <1>2 DEF Takes, Sets
  <1>4. chain' \in Seq(Middleware) /\ Len(chain') = 0 /\ \A i : i \notin 1..0
    BY <1>1, EmptySeq
  <1>5. Looks
    BY <1>1, <1>3, <1>4 DEF Looks
  <1>6. ChainInv'
    BY <1>1, <1>4 DEF ChainInv, AllLate
  <1> QED
    BY <1>1, <1>5, <1>6, LooksTypes, LooksUsers DEF HeaderInv

\* The middlewares that only rewrite the URL.
LEMMA RewriteKeeps ==
    ASSUME HeaderInv, RewriteNotebooks \/ StripKc
    PROVE  HeaderInv'
PROOF
  <1>1. /\ TypeInv /\ SessionInv /\ UserInv /\ ChainInv /\ VerifiedCredentials
        /\ UNCHANGED <<cookie, credentials, stored, valid, loaded, ctx, header, setCookie, served>>
        /\ chain # <<>> /\ Head(chain) \in {"regexRewrite", "stripPrefix"} /\ Continue
    BY DEF HeaderInv, RewriteNotebooks, StripKc, Runs, request, store, response
  <1>2. TypeInv'
    BY <1>1, QuietTypes, TailType DEF Continue, TypeInv
  <1>3. \/ Head(chain) \notin Late \cup {anonymousID} /\ header'.anon = header.anon
        \/ Head(chain) \in Late /\ UNCHANGED <<header, setCookie>>
    BY <1>1 DEF Late, anonymousID
  <1>4. ChainInv'
    BY <1>1, <1>3, ContinueKeeps
  <1> QED
    BY <1>1, <1>2, <1>4, QuietUsers DEF HeaderInv

\* What is served by the data service has been settled before.
LEMMA ServeKeeps ==
    ASSUME HeaderInv, Serve
    PROVE  HeaderInv'
PROOF
  <1>1. /\ TypeInv /\ SessionInv /\ UserInv /\ ChainInv /\ VerifiedCredentials
        /\ UNCHANGED <<cookie, credentials, stored, valid, loaded, ctx, header, setCookie>>
        /\ chain # <<>> /\ Head(chain) \in Ends /\ served' = Head(chain) /\ chain' = <<>>
    BY DEF HeaderInv, Serve, request, store
  <1>2. TypeInv'
    BY <1>1, QuietTypes, EmptySeq DEF TypeInv
  <1>3. served' = "data" => Settled
    <2>1. chain \in Seq(Middleware)
      BY <1>1 DEF TypeInv
    <2>2. Len(chain) \in Nat \ {0} /\ chain[1] = Head(chain)
      BY <1>1, <2>1, EmptySeq
    <2>3. 1 \in 1..Len(chain) /\ \A h \in 1..Len(chain) : ~ h < 1
      BY <2>2
    <2> QED
      BY <1>1, <2>2, <2>3 DEF ChainInv
  <1>4. Settled' <=> Settled
    BY <1>1 DEF Settled
  <1>5. Len(chain') = 0 /\ \A i : i \notin 1..0
    BY <1>1, EmptySeq
  <1>6. ChainInv'
    BY <1>1, <1>3, <1>4, <1>5 DEF ChainInv, AllLate
  <1> QED
    BY <1>1, <1>2, <1>6, QuietUsers DEF HeaderInv

LEMMA SessionExpiresKeeps ==
    ASSUME HeaderInv, SessionExpires
    PROVE  HeaderInv'
PROOF
  <1>1. /\ TypeInv /\ SessionInv /\ UserInv /\ ChainInv /\ VerifiedCredentials
        /\ UNCHANGED <<cookie, credentials, valid, header, setCookie, chain, served>>
        /\ stored # NoSession /\ stored' = NoSession
        /\ loaded' = (loaded /\ ctx.id # CookieID)
        /\ ctx' = IF loaded' THEN ctx ELSE NoSession
    BY DEF HeaderInv, SessionExpires, request, response
  <1>2. IDs /\ NoSession \in Session /\ NoSession.user = Nobody
    BY DEF IDs, NoSession, NewID, NoID, CookieID, Session, Someone
  <1>3. /\ loaded = (ctx # NoSession) /\ ctx \in Session
        /\ ctx.id = CookieID => cookie
        /\ ctx.id = NewID <=> setCookie = NewID
    BY <1>1 DEF TypeInv, SessionInv
  <1>4. /\ ctx' \in Session /\ loaded' = (ctx' # NoSession) /\ ctx'.id # CookieID
        /\ ctx'.id = NewID <=> ctx.id = NewID
        /\ ctx' = ctx \/ ctx' = NoSession
    <2>1. CASE loaded /\ ctx.id # CookieID
      BY <1>1, <1>3, <2>1
    <2>2. CASE ~loaded
      BY <1>1, <1>2, <1>3, <2>2 DEF IDs
    <2>3. CASE ctx.id = CookieID
      BY <1>1, <1>2, <1>3, <2>3 DEF IDs
    <2> QED
      BY <2>1, <2>2, <2>3
  <1>5. TypeInv'
    BY <1>1, <1>2, <1>4 DEF TypeInv
  <1>6. SessionInv'
    BY <1>1, <1>2, <1>3, <1>4 DEF SessionInv, Anyone
  <1>7. Known' \subseteq Known \cup {Nobody}
    BY <1>1, <1>2, <1>4 DEF Known
  <1>8. UserInv' /\ VerifiedCredentials'
    BY <1>1, <1>7 DEF UserInv, VerifiedCredentials, Anyone
  <1>9. ChainInv'
    BY <1>1, QuietChain
  <1> QED
    BY <1>5, <1>6, <1>8, <1>9 DEF HeaderInv

LEMMA TokenExpiresKeeps ==
    ASSUME HeaderInv, NEW kind \in Kind, TokenExpires(kind)
    PROVE  HeaderInv'
PROOF
  <1>1. /\ TypeInv /\ SessionInv /\ UserInv /\ ChainInv /\ VerifiedCredentials
        /\ UNCHANGED <<cookie, credentials, stored, loaded, ctx, header, setCookie, chain, served>>
        /\ valid' = valid \ {kind}
    BY DEF HeaderInv, TokenExpires, request, response
  <1>2. TypeInv'
    BY <1>1 DEF TypeInv
  <1> QED
    BY <1>1, <1>2, QuietUsers, QuietChain DEF HeaderInv

LEMMA NextHeaders == HeaderInv /\ [Next]_vars => HeaderInv'
PROOF
  <1> SUFFICES ASSUME HeaderInv, [Next]_vars
               PROVE  HeaderInv'
    OBVIOUS
  <1>1. TypeInv /\ SessionInv /\ UserInv /\ ChainInv /\ VerifiedCredentials
    BY DEF HeaderInv
  <1>2. CASE RewritePath
    BY <1>2, RewritePathKeeps
  <1>3. CASE LoadSession
    BY <1>1, <1>3, LoadSessionAsks, AsksKeeps
  <1>4. CASE RenkuAccessToken \/ RenkuRefreshToken \/ GitlabAccessToken
    BY <1>1, <1>4, InjectAsks, AsksKeeps
    DEF RenkuAccessToken, RenkuRefreshToken, GitlabAccessToken, Kind, Late, anonymousID
  <1>5. CASE EnsureSession
    BY <1>1, <1>5, EnsureAsks, AsksKeeps
  <1>6. CASE AnonymousID
    BY <1>6, AnonymousIDKeeps
  <1>7. CASE RewriteNotebooks \/ StripKc
    BY <1>7, RewriteKeeps
  <1>8. CASE Serve
    BY <1>8, ServeKeeps
  <1>9. CASE SessionExpires
    BY <1>9, SessionExpiresKeeps
  <1>10. CASE \E kind \in Kind : TokenExpires(kind)
    BY <1>10, TokenExpiresKeeps
  <1>11. CASE CreateFails
    BY <1>11, CreateFailsKeeps
  <1>12. CASE UNCHANGED vars
    <2>1. UNCHANGED <<cookie, credentials, stored, valid, loaded, ctx, header, setCookie,
                      chain, served>>
      BY <1>12 DEF vars
    <2> QED
      BY <1>1, <2>1, QuietTypes, QuietUsers, QuietChain DEF HeaderInv, TypeInv
  <1> QED
    BY <1>2, <1>3, <1>4, <1>5, <1>6, <1>7, <1>8, <1>9, <1>10, <1>11, <1>12 DEF Next

LEMMA InitHeaders == Init => HeaderInv
PROOF
  <1> SUFFICES ASSUME Init
               PROVE  HeaderInv
    OBVIOUS
  <1>1. IDs
    BY DEF IDs, NoSession, NewID, NoID, CookieID
  <1>2. /\ cookie \in BOOLEAN /\ credentials \in Credentials
        /\ stored \in {NoSession} \cup [id : {CookieID}, user : Anyone]
        /\ ~cookie => stored = NoSession
        /\ valid \subseteq Kind /\ loaded = FALSE /\ ctx = NoSession
        /\ chain = <<"UiServerPathRewrite">>
        /\ header = [auth |-> credentials, gitlab |-> Nobody, refresh |-> Nobody, anon |-> NoID]
        /\ setCookie = NoID /\ served = ""
    BY DEF Init, Anyone
  <1>3. /\ stored \in Session /\ ctx \in Session /\ stored.user \in Anyone
        /\ stored # NoSession => cookie /\ stored.id = CookieID
        /\ ctx.user = Nobody
    <2>1. NoSession \in Session /\ NoSession.user = Nobody /\ Nobody \in Anyone
      BY DEF NoSession, Session, Someone, Anyone
    <2>2. CASE stored = NoSession
      BY <1>2, <2>1, <2>2
    <2>3. CASE stored \in [id : {CookieID}, user : Anyone] /\ stored # NoSession
      BY <1>2, <2>1, <2>3 DEF Session, Someone, Anyone
    <2> QED
      BY <1>2, <2>2, <2>3
  <1>4. chain \in Seq(Middleware) /\ Len(chain) = 1 /\ chain[1] = "UiServerPathRewrite"
    <2>1. "UiServerPathRewrite" \in Middleware
      BY DEF Middleware
    <2>2. /\ <<"UiServerPathRewrite">> \in Seq(Middleware)
          /\ Len(<<"UiServerPathRewrite">>) = 1
          /\ <<"UiServerPathRewrite">>[1] = "UiServerPathRewrite"
      BY <2>1
    <2> QED
      BY <1>2, <2>2
  <1>5. header \in Header /\ header.auth = credentials
        /\ header.refresh = Nobody /\ header.gitlab = Nobody /\ header.anon = NoID
    <2>1. credentials \in Auth /\ Nobody \in Someone /\ NoID \in {NoID, CookieID, NewID}
      BY <1>2 DEF Auth, Someone
    <2> QED
      BY <1>2, <2>1 DEF Header
  <1>6. header.auth.form \in {"none", "bearer", "basic"}
    <2>1. credentials \in Credentials
      BY <1>2
    <2>2. credentials.form \in {"none", "bearer", "basic"}
      BY <2>1 DEF Credentials, Nothing, OfClient
    <2> QED
      BY <1>5, <2>2
  <1>7. TypeInv
    <2>1. loaded = (ctx # NoSession)
      BY <1>2
    <2>2. setCookie \in {NoID, NewID} /\ served \in Ends \cup {"", "error"}
      BY <1>2
    <2> QED
      BY <1>2, <1>3, <1>4, <1>5, <2>1, <2>2 DEF TypeInv
  <1>8. SessionInv
    BY <1>1, <1>2, <1>3 DEF SessionInv, IDs
  <1>9. \A user \in User : header.auth # OfSession(user)
    BY <1>6, Forms
  <1>10. Known \subseteq {stored.user, Nobody}
    BY <1>3, <1>5, <1>9 DEF Known
  <1>11. UserInv
    <2>1. ~cookie => Known \subseteq {Nobody}
      <3>1. NoSession.user = Nobody
        BY DEF NoSession
      <3>2. ~cookie => stored.user = Nobody
        BY <1>2, <3>1
      <3> QED
        BY <1>10, <3>2
    <2> QED
      BY <1>3, <1>6, <1>9, <1>10, <2>1 DEF UserInv, Anyone
  <1>12. ChainInv
    <2>1. \A i \in 1..Len(chain) : chain[i] = "UiServerPathRewrite"
      BY <1>4
    <2>2. \A i \in 1..Len(chain) : chain[i] # anonymousID /\ chain[i] # "data"
      BY <2>1 DEF anonymousID
    <2> QED
      BY <1>2, <1>5, <2>2 DEF ChainInv
  <1>13. VerifiedCredentials
    BY <1>6 DEF VerifiedCredentials
  <1> QED
    BY <1>7, <1>8, <1>11, <1>12, <1>13 DEF HeaderInv

LEMMA HeaderInvariance == Spec => []HeaderInv
  BY InitHeaders, NextHeaders, PTL DEF Spec

(* For any path and any session, and whatever expires or fails between the  *)
(* middlewares, the data service gets a refresh token or an anonymous ID,    *)
(* and not both (middlewares.go:126-147).                                    *)
THEOREM RefreshTokenOrAnonymousAlways == Spec => []RefreshTokenOrAnonymous
<1>1. HeaderInv => RefreshTokenOrAnonymous
  BY DEF HeaderInv, ChainInv, Settled, RefreshTokenOrAnonymous
<1>2. QED
  BY <1>1, HeaderInvariance, PTL

(* The anonymous ID is that of the session whose cookie the browser has, or *)
(* gets with the response (middlewares.go:137-147).                          *)
THEOREM AnonymousIDReturnsAlways == Spec => []AnonymousIDReturns
<1>1. HeaderInv => AnonymousIDReturns
  BY DEF HeaderInv, ChainInv, Settled, AnonymousIDReturns
<1>2. QED
  BY <1>1, HeaderInvariance, PTL

(* All tokens that a service is given are of one user, whom the cookie or   *)
(* the token of the request names (session_store.go:226-271, auth.go).       *)
THEOREM OneIdentityAlways == Spec => []OneIdentity
<1>1. HeaderInv => OneIdentity
  <2> SUFFICES ASSUME HeaderInv
               PROVE  OneIdentity
    OBVIOUS
  <2>1. TypeInv /\ UserInv
    BY DEF HeaderInv
  <2>2. header.refresh \in Known /\ header.gitlab \in Known
    BY DEF Known
  <2>3. header.auth \in Auth /\ cookie \in BOOLEAN
    BY <2>1 DEF TypeInv, Header
  <2>4. CASE cookie
    <3>1. \A u, v \in Known \ {Nobody} : u = v
      BY <2>1, <2>4 DEF UserInv
    <3>2. ASSUME header.auth.form = "session"
          PROVE  header.auth.user \in Known \ {Nobody}
      <4>1. PICK user \in User : header.auth = OfSession(user)
        BY <2>3, <3>2, AuthForms
      <4>2. user # Nobody /\ header.auth.user = user
        BY <2>1, <4>1, Forms DEF UserInv
      <4> QED
        BY <4>1, <4>2 DEF Known
    <3> QED
      BY <2>2, <2>4, <3>1, <3>2 DEF OneIdentity
  <2>5. CASE ~cookie
    <3>1. /\ header.auth.form # "session"
          /\ \A u \in Known \ {Nobody} :
                header.auth.form = "bare" /\ header.auth.token.subject = u
      BY <2>1, <2>5 DEF UserInv
    <3> QED
      BY <2>2, <3>1 DEF OneIdentity
  <2> QED
    BY <2>3, <2>4, <2>5
<1>2. QED
  BY <1>1, HeaderInvariance, PTL

(* Whoever is known by a token of his own has one that a configured verifier *)
(* stands for, for any list of verifiers, also one in which an authorized    *)
(* party occurs twice (authenticator.go:14-27, token_verifier.go).            *)
THEOREM VerifiedCredentialsAlways == Spec => []VerifiedCredentials
<1>1. HeaderInv => VerifiedCredentials
  BY DEF HeaderInv
<1>2. QED
  BY <1>1, HeaderInvariance, PTL
=============================================================================
