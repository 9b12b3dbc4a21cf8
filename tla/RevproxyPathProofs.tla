-------------------------- MODULE RevproxyPathProofs --------------------------
(***************************************************************************)
(* Where a request arrives: for every path, of any length, the rewriting    *)
(* and the routes get it to the path that the data service expects.          *)
(***************************************************************************)
EXTENDS RevproxyProofs

(* Decode, which is defined by recursion along the path                     *)

\* The prefixes of a concatenation, as FlattenSeq computes them.
Flattens(f, s, n) == f = [i \in 1..n |-> IF i = 1 THEN s[i] ELSE f[i - 1] \o s[i]]

LEMMA FlattenExists ==
    ASSUME NEW s
    PROVE  \A n \in Nat : \E f : Flattens(f, s, n)
PROOF
  <1> DEFINE T == {n \in Nat : ~ \E f : Flattens(f, s, n)}
  <1> SUFFICES ASSUME T # {}
               PROVE  FALSE
    OBVIOUS
  <1>1. PICK m \in T : \A n \in T : m <= n
    BY Least
  <1>2. m \in Nat /\ ~ \E f : Flattens(f, s, m)
    BY <1>1
  <1>3. m # 0
    <2> DEFINE g == [i \in 1..0 |-> s]
    <2>1. g = [i \in 1..0 |-> IF i = 1 THEN s[i] ELSE g[i - 1] \o s[i]]
      OBVIOUS
    <2> HIDE DEF g
    <2> QED
      BY <1>2, <2>1 DEF Flattens
  <1>4. m - 1 \in Nat /\ m - 1 \notin T
    BY <1>1, <1>2, <1>3
  <1>5. PICK f : Flattens(f, s, m - 1)
    BY <1>4
  <1> DEFINE g == [i \in 1..m |->
                     IF i < m THEN f[i] ELSE IF i = 1 THEN s[i] ELSE f[i - 1] \o s[i]]
  <1>6. \A i \in 1..(m - 1) : f[i] = IF i = 1 THEN s[i] ELSE f[i - 1] \o s[i]
    BY <1>5 DEF Flattens
  <1>7. ASSUME NEW i \in 1..m
        PROVE  g[i] = IF i = 1 THEN s[i] ELSE g[i - 1] \o s[i]
    <2>1. CASE i < m
      <3>1. i \in 1..(m - 1) /\ (i # 1 => i - 1 \in 1..m /\ i - 1 < m)
        BY <1>2, <2>1
      <3> QED
        BY <1>6, <2>1, <3>1
    <2>2. CASE i = m
      <3>1. i # 1 => i - 1 \in 1..m /\ i - 1 < m
        BY <1>2, <2>2
      <3> QED
        BY <2>2, <3>1
    <2> QED
      BY <1>2, <2>1, <2>2
  <1>8. Flattens(g, s, m)
    <2>1. g = [i \in 1..m |-> g[i]]
      OBVIOUS
    <2> HIDE DEF g
    <2> QED
      BY <1>7, <2>1 DEF Flattens
  <1> QED
    BY <1>2, <1>8

LEMMA FlattenIs ==
    ASSUME NEW s, Len(s) \in Nat
    PROVE  /\ Len(s) = 0 => FlattenSeq(s) = s
           /\ Len(s) # 0 => \E f : Flattens(f, s, Len(s)) /\ FlattenSeq(s) = f[Len(s)]
PROOF
  <1> DEFINE g == CHOOSE f : f = [i \in 1..Len(s) |-> IF i = 1 THEN s[i] ELSE f[i - 1] \o s[i]]
  <1>1. FlattenSeq(s) = IF Len(s) = 0 THEN s ELSE g[Len(s)]
    BY DEF FlattenSeq
  <1>2. \E f : f = [i \in 1..Len(s) |-> IF i = 1 THEN s[i] ELSE f[i - 1] \o s[i]]
    BY FlattenExists DEF Flattens
  <1>3. Flattens(g, s, Len(s))
    BY <1>2 DEF Flattens
  <1> QED
    BY <1>1, <1>3

LEMMA FlattensAt ==
    ASSUME NEW f, NEW s, NEW n, Flattens(f, s, n), NEW i \in 1..n
    PROVE  f[i] = IF i = 1 THEN s[i] ELSE f[i - 1] \o s[i]
  BY DEF Flattens

\* What two recursions compute agrees as far as their arguments do.
LEMMA FlattensAgree ==
    ASSUME NEW s, NEW t, NEW f, NEW g, NEW n \in Nat, NEW m \in Nat, n <= m,
           Flattens(f, s, n), Flattens(g, t, m), \A i \in 1..n : s[i] = t[i]
    PROVE  \A i \in 1..n : f[i] = g[i]
PROOF
  <1> DEFINE T == {i \in 1..n : f[i] # g[i]}
  <1> SUFFICES ASSUME T # {}
               PROVE  FALSE
    OBVIOUS
  <1>1. T \in SUBSET Nat
    OBVIOUS
  <1>2. PICK k \in T : \A i \in T : k <= i
    <2> HIDE DEF T
    <2> QED
      BY <1>1, Least
  <1>3. /\ k \in 1..n /\ f[k] = IF k = 1 THEN s[k] ELSE f[k - 1] \o s[k]
        /\ k \in 1..m /\ g[k] = IF k = 1 THEN t[k] ELSE g[k - 1] \o t[k]
    <2>1. k \in 1..n /\ k \in 1..m
      OBVIOUS
    <2> QED
      BY <2>1, FlattensAt
  <1>4. k # 1
    BY <1>3
  <1>5. k - 1 \in 1..n /\ k - 1 \notin T
    BY <1>2, <1>3, <1>4
  <1>6. f[k - 1] = g[k - 1] /\ s[k] = t[k]
    BY <1>3, <1>5
  <1> QED
    BY <1>3, <1>4, <1>6

\* Induction over sequences, as a fact about sets of them.
LEMMA SeqInduction ==
    ASSUME NEW S, NEW T \in SUBSET Seq(S), <<>> \in T,
           \A s \in T : \A x \in S : Append(s, x) \in T
    PROVE  T = Seq(S)
PROOF
  <1> SUFFICES ASSUME Seq(S) \ T # {}
               PROVE  FALSE
    OBVIOUS
  <1> DEFINE N == {Len(s) : s \in Seq(S) \ T}
  <1>1. N \in SUBSET Nat /\ N # {}
    <2>1. \A s \in Seq(S) : Len(s) \in Nat
      BY LenProperties
    <2> QED
      BY <2>1
  <1>2. PICK m \in N : \A n \in N : m <= n
    <2> HIDE DEF N
    <2> QED
      BY <1>1, Least
  <1>3. PICK s \in Seq(S) \ T : Len(s) = m
    OBVIOUS
  <1>4. PICK q \in Seq(S), x \in S : s = Append(q, x)
    BY <1>3, SequenceEmptyOrAppend
  <1>5. Len(q) \in Nat /\ Len(s) = Len(q) + 1
    BY <1>4, AppendProperties, LenProperties
  <1>6. Len(q) \notin N
    <2> HIDE DEF N
    <2> QED
      BY <1>2, <1>3, <1>5
  <1> QED
    BY <1>3, <1>4, <1>6

----------------------------------------------------------------------------
Encoded == "a%2Fb"
Piece(x) == IF x = Encoded THEN <<"a", "b">> ELSE <<x>>
Pieces(raw) == [i \in DOMAIN raw |-> Piece(raw[i])]
Plain(path) == \A i \in 1..Len(path) : path[i] # Encoded
Url == Seq(Segment)

LEMMA PieceType ==
    ASSUME NEW x \in Segment
    PROVE  Piece(x) \in Url
PROOF
  <1>1. "a" \in Segment /\ "b" \in Segment
    BY RevproxyAssumption
  <1>2. <<x>> \in Seq(Segment) /\ <<"a", "b">> \in Seq(Segment)
    BY <1>1
  <1> QED
    BY <1>2 DEF Piece, Url

LEMMA PiecesType ==
    ASSUME NEW raw \in Url
    PROVE  /\ Pieces(raw) \in Seq(Url) /\ Len(Pieces(raw)) = Len(raw) /\ Len(raw) \in Nat
           /\ \A i \in 1..Len(raw) : Pieces(raw)[i] = Piece(raw[i])
PROOF
  <1>1. Len(raw) \in Nat /\ DOMAIN raw = 1..Len(raw) /\ \A i \in 1..Len(raw) : raw[i] \in Segment
    BY LenProperties DEF Url
  <1>2. \A i \in 1..Len(raw) : Piece(raw[i]) \in Url
    BY <1>1, PieceType
  <1>3. Pieces(raw) = [i \in 1..Len(raw) |-> Piece(raw[i])]
    BY <1>1 DEF Pieces
  <1>4. Pieces(raw) \in [1..Len(raw) -> Url]
    BY <1>2, <1>3
  <1>5. Pieces(raw) \in Seq(Url) /\ Len(Pieces(raw)) = Len(raw)
    BY <1>1, <1>4
  <1> QED
    BY <1>1, <1>3, <1>5

LEMMA DecodeIs ==
    ASSUME NEW raw
    PROVE  Decode(raw) = FlattenSeq(Pieces(raw))
  BY DEF Decode, Pieces, Piece, Encoded

LEMMA DecodeEmpty == Decode(<<>>) = <<>>
PROOF
  <1>1. <<>> \in Url /\ Len(<<>>) = 0
    BY DEF Url
  <1>2. Pieces(<<>>) \in Seq(Url) /\ Len(Pieces(<<>>)) = 0
    BY <1>1, PiecesType
  <1>3. Pieces(<<>>) = <<>>
    BY <1>2, EmptySeq
  <1> QED
    BY <1>2, <1>3, DecodeIs, FlattenIs

\* One more segment: its decoding comes at the end.
LEMMA DecodeAppend ==
    ASSUME NEW raw \in Url, NEW x \in Segment
    PROVE  Decode(Append(raw, x)) = Decode(raw) \o Piece(x)
PROOF
  <1> DEFINE n == Len(raw)
             s == Pieces(raw)
             more == Append(raw, x)
             t == Pieces(more)
  <1>1. /\ more \in Url /\ Len(more) = n + 1 /\ more[n + 1] = x
        /\ \A i \in 1..n : more[i] = raw[i]
    BY AppendProperties DEF Url
  <1>2. n \in Nat /\ Len(s) = n /\ \A i \in 1..n : s[i] = Piece(raw[i])
    BY PiecesType
  <1>3. Len(t) = n + 1 /\ \A i \in 1..(n + 1) : t[i] = Piece(more[i])
    BY <1>1, PiecesType
  <1>4. (\A i \in 1..n : s[i] = t[i]) /\ t[n + 1] = Piece(x)
    BY <1>1, <1>2, <1>3
  <1> HIDE DEF n, s, more, t
  <1>5. PICK g : Flattens(g, t, n + 1) /\ FlattenSeq(t) = g[n + 1]
    BY <1>2, <1>3, FlattenIs
  <1>6. Decode(more) = g[n + 1]
    BY <1>5, DecodeIs DEF t
  <1>7. g[n + 1] = IF n + 1 = 1 THEN t[n + 1] ELSE g[(n + 1) - 1] \o t[n + 1]
    <2>1. n + 1 \in 1..(n + 1)
      BY <1>2
    <2> QED
      BY <1>5, <2>1, FlattensAt
  <1>8. CASE n = 0
    <2>1. raw = <<>>
      BY <1>8, EmptySeq DEF n, Url
    <2>2. <<>> \o Piece(x) = Piece(x)
      BY PieceType, ConcatEmptySeq DEF Url
    <2>3. Decode(raw) = <<>>
      BY <2>1, DecodeEmpty
    <2>4. g[n + 1] = t[n + 1]
      BY <1>7, <1>8
    <2> QED
      BY <1>4, <1>6, <2>2, <2>3, <2>4 DEF more
  <1>9. CASE n # 0
    <2>1. PICK f : Flattens(f, s, n) /\ FlattenSeq(s) = f[n]
      BY <1>2, <1>9, FlattenIs
    <2>2. f[n] = g[n]
      <3>1. n <= n + 1 /\ n + 1 \in Nat /\ n \in 1..n
        BY <1>2, <1>9
      <3> QED
        BY <1>2, <1>4, <1>5, <2>1, <3>1, FlattensAgree
    <2>3. Decode(raw) = f[n]
      BY <2>1, DecodeIs DEF s
    <2>4. (n + 1) - 1 = n /\ n + 1 # 1
      BY <1>2, <1>9
    <2> QED
      BY <1>4, <1>6, <1>7, <2>2, <2>3, <2>4 DEF more
  <1> QED
    BY <1>8, <1>9

LEMMA DecodeType ==
    ASSUME NEW raw \in Url
    PROVE  Decode(raw) \in Url
PROOF
  <1> DEFINE T == {r \in Url : Decode(r) \in Url}
  <1>1. <<>> \in T
    <2>1. <<>> \in Url
      BY DEF Url
    <2> QED
      BY <2>1, DecodeEmpty
  <1>2. ASSUME NEW r \in T, NEW x \in Segment
        PROVE  Append(r, x) \in T
    <2>1. Append(r, x) \in Url /\ Piece(x) \in Url /\ Decode(r) \in Url
      BY AppendProperties, PieceType DEF Url
    <2>2. Decode(r) \o Piece(x) \in Url
      BY <2>1, ConcatProperties DEF Url
    <2> QED
      BY <2>1, <2>2, DecodeAppend
  <1>3. T \in SUBSET Seq(Segment)
    BY DEF Url
  <1> HIDE DEF T
  <1>4. T = Url
    BY <1>1, <1>2, <1>3, SeqInduction DEF Url
  <1> QED
    BY <1>4 DEF T

LEMMA ConcatAssociates ==
    ASSUME NEW u \in Url, NEW v \in Url, NEW w \in Url
    PROVE  (u \o v) \o w = u \o (v \o w)
PROOF
  <1>1. u \in Seq(Segment) /\ v \in Seq(Segment) /\ w \in Seq(Segment)
    BY DEF Url
  <1> QED
    BY <1>1, ConcatAssociative

\* Decode works segment by segment.
LEMMA DecodeConcat ==
    ASSUME NEW r \in Url, NEW q \in Url
    PROVE  Decode(r \o q) = Decode(r) \o Decode(q)
PROOF
  <1> DEFINE T == {p \in Url : Decode(r \o p) = Decode(r) \o Decode(p)}
  <1>1. <<>> \in T
    <2>1. <<>> \in Url /\ r \o <<>> = r /\ Decode(r) \o <<>> = Decode(r)
      BY ConcatEmptySeq, DecodeType DEF Url
    <2> QED
      BY <2>1, DecodeEmpty
  <1>2. ASSUME NEW p \in T, NEW x \in Segment
        PROVE  Append(p, x) \in T
    <2>1. /\ Append(p, x) \in Url /\ r \o p \in Url /\ Piece(x) \in Url
          /\ Decode(r) \in Url /\ Decode(p) \in Url
      BY AppendProperties, ConcatProperties, PieceType, DecodeType DEF Url
    <2>2. r \o Append(p, x) = Append(r \o p, x)
      <3>1. /\ Append(p, x) = p \o <<x>> /\ Append(r \o p, x) = (r \o p) \o <<x>>
            /\ <<x>> \in Url
        BY <2>1, AppendIsConcat DEF Url
      <3> QED
        BY <3>1, ConcatAssociative DEF Url
    <2>3. Decode(Append(r \o p, x)) = Decode(r \o p) \o Piece(x)
      BY <2>1, DecodeAppend
    <2>4. Decode(r \o p) = Decode(r) \o Decode(p)
      OBVIOUS
    <2>5. (Decode(r) \o Decode(p)) \o Piece(x) = Decode(r) \o (Decode(p) \o Piece(x))
      <3> DEFINE u == Decode(r)
                 v == Decode(p)
                 w == Piece(x)
      <3>1. u \in Url /\ v \in Url /\ w \in Url
        BY <2>1
      <3> HIDE DEF u, v, w
      <3> QED
        BY <3>1, ConcatAssociates
    <2>6. Decode(Append(p, x)) = Decode(p) \o Piece(x)
      BY DecodeAppend
    <2> QED
      BY <2>1, <2>2, <2>3, <2>4, <2>5, <2>6
  <1>3. T \in SUBSET Seq(Segment)
    BY DEF Url
  <1> HIDE DEF T
  <1>4. T = Url
    BY <1>1, <1>2, <1>3, SeqInduction DEF Url
  <1> QED
    BY <1>4 DEF T

\* It changes nothing where nothing is encoded.
LEMMA DecodePlain ==
    ASSUME NEW raw \in Url, Plain(raw)
    PROVE  Decode(raw) = raw
PROOF
  <1> DEFINE T == {r \in Url : Plain(r) => Decode(r) = r}
  <1>1. <<>> \in T
    BY DecodeEmpty DEF Url
  <1>2. ASSUME NEW r \in T, NEW x \in Segment
        PROVE  Append(r, x) \in T
    <2>1. /\ Append(r, x) \in Url /\ Len(Append(r, x)) = Len(r) + 1 /\ Len(r) \in Nat
          /\ \A i \in 1..Len(r) : Append(r, x)[i] = r[i]
          /\ Append(r, x)[Len(r) + 1] = x
          /\ Append(r, x) = r \o <<x>>
      BY AppendProperties, AppendIsConcat, LenProperties DEF Url
    <2>2. ASSUME Plain(Append(r, x))
          PROVE  Plain(r) /\ x # Encoded
      <3>1. \A i \in 1..Len(r) : i \in 1..(Len(r) + 1)
        BY <2>1
      <3>2. Len(r) + 1 \in 1..(Len(r) + 1)
        BY <2>1
      <3> QED
        BY <2>1, <2>2, <3>1, <3>2 DEF Plain
    <2>3. ASSUME Plain(Append(r, x))
          PROVE  Decode(Append(r, x)) = Append(r, x)
      <3>1. Decode(r) = r /\ Piece(x) = <<x>>
        BY <2>2, <2>3 DEF Piece
      <3> QED
        BY <2>1, <3>1, DecodeAppend
    <2> QED
      BY <2>1, <2>3
  <1>3. T \in SUBSET Seq(Segment)
    BY DEF Url
  <1> HIDE DEF T
  <1>4. T = Url
    BY <1>1, <1>2, <1>3, SeqInduction DEF Url
  <1> QED
    BY <1>4 DEF T

\* It leaves nothing encoded, and no fewer segments.
LEMMA DecodedIsPlain ==
    ASSUME NEW raw \in Url
    PROVE  Plain(Decode(raw)) /\ Len(Decode(raw)) >= Len(raw)
PROOF
  <1> DEFINE T == {r \in Url : Plain(Decode(r)) /\ Len(Decode(r)) >= Len(r)}
  <1>1. <<>> \in T
    BY DecodeEmpty DEF Url, Plain
  <1>2. ASSUME NEW r \in T, NEW x \in Segment
        PROVE  Append(r, x) \in T
    <2> DEFINE d == Decode(r)
               e == d \o Piece(x)
    <2>1. /\ Append(r, x) \in Url /\ Len(Append(r, x)) = Len(r) + 1
          /\ Decode(Append(r, x)) = e
      BY AppendProperties, DecodeAppend DEF Url
    <2>2. Plain(Piece(x)) /\ Len(Piece(x)) >= 1
      BY DEF Plain, Piece, Encoded
    <2>3. /\ d \in Url /\ Piece(x) \in Url /\ Plain(d) /\ Len(d) >= Len(r)
          /\ Len(d) \in Nat /\ Len(r) \in Nat /\ Len(Piece(x)) \in Nat
      BY DecodeType, PieceType, LenProperties DEF Url
    <2> HIDE DEF d
    <2>4. /\ e \in Url /\ Len(e) = Len(d) + Len(Piece(x))
          /\ \A i \in 1..Len(d) + Len(Piece(x)) :
                e[i] = IF i <= Len(d) THEN d[i] ELSE Piece(x)[i - Len(d)]
      BY <2>3, ConcatProperties DEF Url
    <2> HIDE DEF e
    <2>5. ASSUME NEW i \in 1..Len(e)
          PROVE  e[i] # Encoded
      <3>1. CASE i <= Len(d)
        <4>1. i \in 1..Len(d) /\ e[i] = d[i]
          BY <2>3, <2>4, <3>1
        <4> QED
          BY <2>3, <4>1 DEF Plain
      <3>2. CASE i > Len(d)
        <4>1. i - Len(d) \in 1..Len(Piece(x)) /\ e[i] = Piece(x)[i - Len(d)]
          BY <2>3, <2>4, <3>2
        <4> QED
          BY <2>2, <4>1 DEF Plain
      <3> QED
        BY <2>3, <2>4, <3>1, <3>2
    <2>6. Len(e) >= Len(r) + 1
      BY <2>2, <2>3, <2>4
    <2> QED
      BY <2>1, <2>5, <2>6 DEF Plain
  <1>3. T \in SUBSET Seq(Segment)
    BY DEF Url
  <1> HIDE DEF T
  <1>4. T = Url
    BY <1>1, <1>2, <1>3, SeqInduction DEF Url
  <1> QED
    BY <1>4 DEF T

----------------------------------------------------------------------------
(* Prefixes                                                                 *)

LEMMA PrefixIs ==
    ASSUME NEW S, NEW p \in Seq(S), NEW t \in Url
    PROVE  IsPrefix(p, t) <=> Len(p) <= Len(t) /\ \A i \in 1..Len(p) : p[i] = t[i]
PROOF
  <1> DEFINE n == Len(p)
  <1>1. n \in Nat /\ Len(t) \in Nat /\ t \in Seq(Segment)
    BY LenProperties DEF Url
  <1>2. ASSUME n <= Len(t)
        PROVE  SubSeq(p, 1, n) = SubSeq(t, 1, n) <=> \A i \in 1..n : p[i] = t[i]
    <2> DEFINE u == SubSeq(p, 1, n)
               v == SubSeq(t, 1, n)
    <2>1. u \in Seq(S) /\ Len(u) = n /\ \A i \in 1..n : u[i] = p[i]
      BY <1>1, SubSeqProperties
    <2>2. v \in Seq(Segment) /\ Len(v) = n /\ \A i \in 1..n : v[i] = t[i]
      BY <1>1, <1>2, SubSeqProperties
    <2>3. u = v <=> \A i \in 1..n : u[i] = v[i]
      <3> HIDE DEF u, v, n
      <3> QED
        BY <2>1, <2>2, SeqEqual
    <2> QED
      BY <2>1, <2>2, <2>3
  <1> QED
    BY <1>2 DEF IsPrefix

LEMMA FromIs ==
    ASSUME NEW t \in Url, NEW k \in Nat, k <= Len(t)
    PROVE  /\ From(t, k + 1) \in Url /\ Len(From(t, k + 1)) = Len(t) - k
           /\ \A i \in 1..(Len(t) - k) : From(t, k + 1)[i] = t[k + i]
PROOF
  <1> DEFINE n == Len(t)
             m == k + 1
             f == SubSeq(t, m, n)
  <1>1. n \in Nat /\ m \in Nat /\ \A i \in 1..n : t[i] \in Segment
    BY LenProperties DEF Url
  <1>2. \A i \in m..n : t[i] \in Segment
    BY <1>1
  <1> HIDE DEF n, m
  <1>3. /\ f \in Seq(Segment) /\ Len(f) = IF m <= n THEN n - m + 1 ELSE 0
        /\ \A i \in 1..(n - m + 1) : f[i] = t[m + i - 1]
    BY <1>1, <1>2, SubSeqProperties
  <1>4. f = From(t, k + 1)
    BY DEF From, n, m
  <1> HIDE DEF f
  <1>5. n - m + 1 = n - k /\ (~ m <= n => n - k = 0)
    BY <1>1 DEF n, m
  <1>6. \A i \in 1..(n - k) : m + i - 1 = k + i
    BY <1>1 DEF m
  <1>7. f \in Url /\ Len(f) = n - k /\ \A i \in 1..(n - k) : f[i] = t[k + i]
    BY <1>1, <1>3, <1>5, <1>6 DEF Url
  <1> QED
    BY <1>4, <1>7 DEF n

\* What comes after a prefix, and before it.
LEMMA FromConcat ==
    ASSUME NEW p \in Url, NEW r \in Url
    PROVE  p \o r \in Url /\ IsPrefix(p, p \o r) /\ From(p \o r, Len(p) + 1) = r
PROOF
  <1> DEFINE t == p \o r
  <1>1. /\ t \in Url /\ Len(t) = Len(p) + Len(r) /\ Len(p) \in Nat /\ Len(r) \in Nat
        /\ \A i \in 1..(Len(p) + Len(r)) : t[i] = IF i <= Len(p) THEN p[i] ELSE r[i - Len(p)]
    BY ConcatProperties, LenProperties DEF Url
  <1> HIDE DEF t
  <1>2. IsPrefix(p, t)
    <2>1. Len(p) <= Len(t) /\ \A i \in 1..Len(p) : p[i] = t[i]
      BY <1>1
    <2> QED
      BY <1>1, <2>1, PrefixIs DEF Url
  <1> DEFINE f == From(t, Len(p) + 1)
  <1>3. f \in Url /\ Len(f) = Len(r) /\ \A i \in 1..Len(r) : f[i] = t[Len(p) + i]
    <2>1. Len(p) <= Len(t) /\ Len(t) - Len(p) = Len(r)
      BY <1>1
    <2>2. /\ f \in Url /\ Len(f) = Len(t) - Len(p)
          /\ \A i \in 1..(Len(t) - Len(p)) : f[i] = t[Len(p) + i]
      BY <1>1, <2>1, FromIs
    <2> HIDE DEF f
    <2> QED
      BY <2>1, <2>2
  <1> HIDE DEF f
  <1>4. \A i \in 1..Len(r) : f[i] = r[i]
    BY <1>1, <1>3
  <1>5. f = r
    BY <1>3, <1>4, SeqEqual DEF Url
  <1> QED
    BY <1>1, <1>2, <1>5 DEF f, t

LEMMA Remainder ==
    ASSUME NEW S, NEW p \in Seq(S), NEW t \in Url, IsPrefix(p, t)
    PROVE  /\ p \in Url /\ From(t, Len(p) + 1) \in Url
           /\ t = p \o From(t, Len(p) + 1)
PROOF
  <1> DEFINE n == Len(p)
             f == From(t, n + 1)
             u == p \o f
  <1>1. /\ n \in Nat /\ Len(t) \in Nat /\ n <= Len(t) /\ \A i \in 1..n : p[i] = t[i]
        /\ \A i \in 1..Len(t) : t[i] \in Segment
    BY PrefixIs, LenProperties DEF Url
  <1>2. p \in Url
    <2>1. p \in [1..n -> S]
      BY LenProperties
    <2>2. \A i \in 1..n : p[i] \in Segment
      BY <1>1
    <2>3. p \in [1..n -> Segment]
      BY <2>1, <2>2
    <2> QED
      BY <1>1, <2>3 DEF Url
  <1>3. f \in Url /\ Len(f) = Len(t) - n /\ \A i \in 1..(Len(t) - n) : f[i] = t[n + i]
    BY <1>1, FromIs
  <1> HIDE DEF f
  <1>4. /\ u \in Url /\ Len(u) = n + Len(f)
        /\ \A i \in 1..(n + Len(f)) : u[i] = IF i <= n THEN p[i] ELSE f[i - n]
    BY <1>2, <1>3, ConcatProperties DEF Url
  <1> HIDE DEF u
  <1>5. Len(u) = Len(t) /\ \A i \in 1..Len(t) : u[i] = t[i]
    <2>1. Len(u) = Len(t)
      BY <1>1, <1>3, <1>4
    <2>2. ASSUME NEW i \in 1..Len(t)
          PROVE  u[i] = t[i]
      <3>1. CASE i <= n
        BY <1>1, <1>3, <1>4, <3>1
      <3>2. CASE i > n
        <4>1. i - n \in 1..(Len(t) - n) /\ n + (i - n) = i
          BY <1>1, <3>2
        <4>2. u[i] = f[i - n]
          BY <1>1, <1>3, <1>4, <3>2
        <4> QED
          BY <1>3, <4>1, <4>2
      <3> QED
        BY <1>1, <3>1, <3>2
    <2> QED
      BY <2>1, <2>2
  <1>6. u = t
    BY <1>4, <1>5, SeqEqual DEF Url
  <1> QED
    BY <1>2, <1>3, <1>6 DEF u, f

\* What is decoded up to the first "a" has not been encoded.
LEMMA DecodedPrefix ==
    ASSUME NEW raw \in Url, NEW k \in 0..Len(Decode(raw)),
           \A i \in 1..k : Decode(raw)[i] # "a"
    PROVE  k <= Len(raw) /\ \A i \in 1..k : raw[i] = Decode(raw)[i]
PROOF
  <1> DEFINE Good(r) == \A n \in 0..Len(Decode(r)) :
                           (\A i \in 1..n : Decode(r)[i] # "a") =>
                              n <= Len(r) /\ \A i \in 1..n : r[i] = Decode(r)[i]
             T == {r \in Url : Good(r)}
  <1>1. <<>> \in T
    <2>1. <<>> \in Url /\ Len(<<>>) = 0
      BY DEF Url
    <2>2. Len(Decode(<<>>)) = 0
      BY <2>1, DecodeEmpty
    <2>3. Good(<<>>)
      BY <2>1, <2>2
    <2> QED
      BY <2>1, <2>3
  <1>2. ASSUME NEW r \in T, NEW x \in Segment
        PROVE  Append(r, x) \in T
    <2> DEFINE d == Decode(r)
               y == Piece(x)
               e == d \o y
               more == Append(r, x)
    <2>1. /\ more \in Url /\ Len(more) = Len(r) + 1 /\ Decode(more) = e
          /\ \A i \in 1..Len(r) : more[i] = r[i]
          /\ more[Len(r) + 1] = x
      BY AppendProperties, DecodeAppend DEF Url
    <2>2. /\ x = Encoded => y[1] = "a" /\ Len(y) = 2
          /\ x # Encoded => y[1] = x /\ Len(y) = 1
      BY DEF Piece
    <2>3. /\ d \in Url /\ y \in Url /\ Len(d) >= Len(r) /\ Good(r)
          /\ Len(d) \in Nat /\ Len(r) \in Nat /\ Len(y) \in Nat
      BY DecodeType, PieceType, LenProperties, DecodedIsPlain DEF Url
    <2>4. \A n \in 0..Len(d) : (\A i \in 1..n : d[i] # "a") =>
                              n <= Len(r) /\ \A i \in 1..n : r[i] = d[i]
      BY <2>3
    <2> HIDE DEF d, y, more
    <2>5. /\ Len(e) = Len(d) + Len(y)
          /\ \A i \in 1..(Len(d) + Len(y)) :
                e[i] = IF i <= Len(d) THEN d[i] ELSE y[i - Len(d)]
      BY <2>3, ConcatProperties DEF Url
    <2> HIDE DEF e
    <2>6. ASSUME NEW n \in 0..Len(e), \A i \in 1..n : e[i] # "a"
          PROVE  n <= Len(more) /\ \A i \in 1..n : more[i] = e[i]
      <3>0. /\ n \in Nat /\ Len(e) \in Nat /\ n <= Len(e) /\ Len(e) = Len(d) + Len(y)
            /\ Len(d) \in Nat /\ Len(r) \in Nat /\ Len(y) \in Nat /\ Len(d) >= Len(r)
        BY <2>3, <2>5
      <3>1. CASE n <= Len(d)
        <4>1. \A i \in 1..n : e[i] = d[i]
          BY <3>0, <2>5, <3>1
        <4>2. n <= Len(r) /\ \A i \in 1..n : r[i] = d[i]
          BY <3>0, <2>4, <2>6, <3>1, <4>1
        <4> QED
          BY <2>1, <3>0, <4>1, <4>2
      <3>2. CASE n > Len(d)
        <4>1. \A i \in 1..Len(d) : e[i] = d[i] /\ i \in 1..n
          BY <3>0, <2>5, <3>2
        <4>2. Len(d) <= Len(r) /\ \A i \in 1..Len(d) : r[i] = d[i]
          BY <3>0, <2>4, <2>6, <4>1
        <4>3. Len(d) = Len(r)
          BY <3>0, <4>2
        <4>4. e[Len(r) + 1] = y[1] /\ Len(r) + 1 \in 1..n
          <5>1. Len(r) + 1 \in 1..n /\ Len(y) >= 1
            BY <2>2, <3>0, <3>2, <4>3
          <5>2. /\ Len(r) + 1 \in 1..(Len(d) + Len(y)) /\ ~ Len(r) + 1 <= Len(d)
                /\ Len(r) + 1 - Len(d) = 1
            BY <3>0, <4>3, <5>1
          <5> QED
            BY <2>5, <5>1, <5>2
        <4>5. x # Encoded
          BY <2>2, <3>0, <2>6, <4>4
        <4>6. n = Len(r) + 1 /\ e[n] = x
          <5>1. n = Len(r) + 1
            <6>1. Len(y) = 1
              BY <2>2, <4>5
            <6>2. n <= Len(r) + 1 /\ n > Len(r)
              BY <3>0, <3>2, <4>3, <6>1
            <6> QED
              BY <3>0, <6>2
          <5> QED
            BY <2>2, <4>4, <4>5, <5>1
        <4>7. \A i \in 1..n : i \in 1..Len(r) \/ i = n
          BY <3>0, <4>6
        <4>8. \A i \in 1..Len(r) : more[i] = e[i]
          BY <2>1, <4>1, <4>2, <4>3
        <4>9. more[n] = e[n]
          BY <2>1, <4>6
        <4>10. n <= Len(more)
          BY <2>1, <2>3, <4>6
        <4> QED
          BY <4>7, <4>8, <4>9, <4>10
      <3> QED
        BY <3>0, <3>1, <3>2
    <2>7. Good(more)
      BY <2>1, <2>6
    <2> QED
      BY <2>1, <2>7 DEF more
  <1>3. T \in SUBSET Seq(Segment)
    BY DEF Url
  <1> HIDE DEF T
  <1>4. T = Url
    BY <1>1, <1>2, <1>3, SeqInduction DEF Url
  <1>5. Good(raw)
    BY <1>4 DEF T
  <1> QED
    BY <1>5

\* The prefixes that the rules look for read the same before and after.
Clean(p) == \A i \in 1..Len(p) : p[i] \notin {"a", Encoded}

LEMMA CleanPrefix ==
    ASSUME NEW S, NEW p \in Seq(S), Clean(p), NEW raw \in Url
    PROVE  /\ IsPrefix(p, Decode(raw)) <=> IsPrefix(p, raw)
           /\ IsPrefix(p, raw) =>
                /\ From(raw, Len(p) + 1) \in Url /\ p \in Url
                /\ From(Decode(raw), Len(p) + 1) = Decode(From(raw, Len(p) + 1))
PROOF
  <1> DEFINE f == From(raw, Len(p) + 1)
  <1>1. ASSUME IsPrefix(p, raw)
        PROVE  /\ f \in Url /\ p \in Url
               /\ IsPrefix(p, Decode(raw)) /\ From(Decode(raw), Len(p) + 1) = Decode(f)
    <2>1. p \in Url /\ f \in Url /\ raw = p \o f
      BY <1>1, Remainder
    <2> HIDE DEF f
    <2>2. Decode(p) = p
      <3>1. Plain(p)
        BY DEF Clean, Plain
      <3> QED
        BY <2>1, <3>1, DecodePlain
    <2>3. Decode(p \o f) = Decode(p) \o Decode(f)
      BY <2>1, DecodeConcat
    <2>4. Decode(raw) = p \o Decode(f) /\ Decode(f) \in Url
      BY <2>1, <2>2, <2>3, DecodeType
    <2> QED
      BY <2>1, <2>4, FromConcat DEF f
  <1>2. ASSUME IsPrefix(p, Decode(raw))
        PROVE  IsPrefix(p, raw)
    <2> DEFINE n == Len(p)
    <2>1. Decode(raw) \in Url /\ n \in Nat /\ Len(Decode(raw)) \in Nat
      BY DecodeType, LenProperties DEF Url
    <2>2. n <= Len(Decode(raw)) /\ \A i \in 1..n : p[i] = Decode(raw)[i]
      BY <1>2, <2>1, PrefixIs
    <2>3. n \in 0..Len(Decode(raw)) /\ \A i \in 1..n : Decode(raw)[i] # "a"
      BY <2>1, <2>2 DEF Clean
    <2>4. n <= Len(raw) /\ \A i \in 1..n : raw[i] = Decode(raw)[i]
      BY <2>3, DecodedPrefix
    <2> QED
      BY <2>2, <2>4, PrefixIs
  <1> QED
    BY <1>1, <1>2

LEMMA Prefix1 ==
    ASSUME NEW a, NEW t \in Url
    PROVE  IsPrefix(<<a>>, t) <=> Len(t) >= 1 /\ t[1] = a
PROOF
  <1>1. <<a>> \in Seq({a}) /\ Len(<<a>>) = 1 /\ <<a>>[1] = a
    OBVIOUS
  <1>2. IsPrefix(<<a>>, t) <=> Len(<<a>>) <= Len(t) /\ \A i \in 1..Len(<<a>>) : <<a>>[i] = t[i]
    BY <1>1, PrefixIs
  <1>3. Len(t) \in Nat /\ \A i \in 1..1 : i = 1
    BY LenProperties DEF Url
  <1> QED
    BY <1>1, <1>2, <1>3

LEMMA Prefix2 ==
    ASSUME NEW a, NEW b, NEW t \in Url
    PROVE  IsPrefix(<<a, b>>, t) <=> Len(t) >= 2 /\ t[1] = a /\ t[2] = b
PROOF
  <1> DEFINE p == <<a, b>>
  <1>1. p \in Seq({a, b}) /\ Len(p) = 2 /\ p[1] = a /\ p[2] = b
    OBVIOUS
  <1> HIDE DEF p
  <1>2. IsPrefix(p, t) <=> Len(p) <= Len(t) /\ \A i \in 1..Len(p) : p[i] = t[i]
    BY <1>1, PrefixIs
  <1>3. Len(t) \in Nat /\ \A i \in 1..2 : i = 1 \/ i = 2
    BY LenProperties DEF Url
  <1> QED
    BY <1>1, <1>2, <1>3 DEF p

LEMMA Prefix3 ==
    ASSUME NEW a, NEW b, NEW c, NEW t \in Url
    PROVE  IsPrefix(<<a, b, c>>, t) <=> Len(t) >= 3 /\ t[1] = a /\ t[2] = b /\ t[3] = c
PROOF
  <1> DEFINE p == <<a, b, c>>
  <1>1. p \in Seq({a, b, c}) /\ Len(p) = 3 /\ p[1] = a /\ p[2] = b /\ p[3] = c
    OBVIOUS
  <1> HIDE DEF p
  <1>2. IsPrefix(p, t) <=> Len(p) <= Len(t) /\ \A i \in 1..Len(p) : p[i] = t[i]
    BY <1>1, PrefixIs
  <1>3. Len(t) \in Nat /\ \A i \in 1..3 : i = 1 \/ i = 2 \/ i = 3
    BY LenProperties DEF Url
  <1> QED
    BY <1>1, <1>2, <1>3 DEF p

LEMMA FromIsTail ==
    ASSUME NEW t \in Url, Len(t) >= 1
    PROVE  /\ From(t, 2) = Tail(t) /\ Tail(t) \in Url /\ Len(Tail(t)) = Len(t) - 1
           /\ \A i \in 1..(Len(t) - 1) : Tail(t)[i] = t[i + 1]
PROOF
  <1> DEFINE n == Len(t)
             f == From(t, 1 + 1)
             g == Tail(t)
  <1>1. n \in Nat /\ t \in Seq(Segment) /\ t # <<>>
    BY LenProperties, EmptySeq DEF Url
  <1>2. f \in Url /\ Len(f) = n - 1 /\ \A i \in 1..(n - 1) : f[i] = t[1 + i]
    BY FromIs
  <1>3. g \in Url /\ Len(g) = n - 1 /\ \A i \in 1..Len(g) : g[i] = t[i + 1]
    BY <1>1, HeadTailProperties DEF Url
  <1> HIDE DEF f, g, n
  <1>4. \A i \in 1..(n - 1) : 1 + i = i + 1
    OBVIOUS
  <1>5. f = g
    <2>1. Len(f) = Len(g) /\ \A i \in 1..Len(f) : f[i] = g[i]
      BY <1>2, <1>3, <1>4
    <2> QED
      BY <1>2, <1>3, <2>1, SeqEqual DEF Url
  <1>6. f = From(t, 2)
    BY DEF f
  <1> QED
    BY <1>3, <1>5, <1>6 DEF g, n

----------------------------------------------------------------------------
(* URLs                                                                     *)

LEMMA EmptyPath == <<>> \in Url /\ Len(<<>>) = 0
  BY DEF Url

\* The two forms of a URL that has been parsed.
LEMMA ParseIs ==
    ASSUME NEW raw \in Url
    PROVE  /\ Parse(raw) \in [Path : Url, RawPath : Url]
           /\ Parse(raw).Path = Decode(raw)
           /\ Parse(raw).RawPath = IF Decode(raw) = raw THEN <<>> ELSE raw
           /\ Escaped(Parse(raw)) = raw
PROOF
  <1>1. /\ Parse(raw).Path = Decode(raw)
        /\ Parse(raw).RawPath = IF Decode(raw) = raw THEN <<>> ELSE raw
    BY DEF Parse
  <1>2. Parse(raw) \in [Path : Url, RawPath : Url]
    <2> DEFINE d == Decode(raw)
               w == IF d = raw THEN <<>> ELSE raw
    <2>1. d \in Url /\ w \in Url
      BY DecodeType, EmptyPath
    <2>2. Parse(raw) = [Path |-> d, RawPath |-> w]
      BY DEF Parse
    <2> HIDE DEF d, w
    <2> QED
      BY <2>1, <2>2
  <1>3. Escaped(Parse(raw)) = raw
    <2>1. CASE Decode(raw) = raw
      BY <1>1, <2>1 DEF Escaped
    <2>2. CASE Decode(raw) # raw
      <3>1. raw # <<>>
        BY <2>2, DecodeEmpty
      <3> QED
        BY <1>1, <2>2, <3>1 DEF Escaped
    <2> QED
      BY <2>1, <2>2
  <1> QED
    BY <1>1, <1>2, <1>3

LEMMA EscapedOf ==
    ASSUME NEW p, NEW r
    PROVE  Escaped([Path |-> p, RawPath |-> r]) = IF r # <<>> /\ Decode(r) = p THEN r ELSE p
  BY DEF Escaped

LEMMA TrimIs ==
    ASSUME NEW S, NEW old \in Seq(S), old # <<>>, NEW t \in Url
    PROVE  /\ TrimPrefix(<<>>, old) = <<>>
           /\ IsPrefix(old, t) => TrimPrefix(t, old) = From(t, Len(old) + 1)
           /\ ~IsPrefix(old, t) => TrimPrefix(t, old) = t
PROOF
  <1>1. Len(old) \in Nat /\ Len(old) # 0
    BY EmptySeq, LenProperties
  <1>2. ~IsPrefix(old, <<>>)
    BY <1>1, EmptyPath DEF IsPrefix
  <1> QED
    BY <1>2 DEF TrimPrefix

\* A rule replaces the prefix of the path as it was written.
LEMMA RewrittenIs ==
    ASSUME NEW S, NEW old \in Seq(S), old # <<>>, Clean(old),
           NEW new \in Url, Clean(new), NEW raw \in Url, IsPrefix(old, Decode(raw))
    PROVE  /\ Rewritten(Parse(raw), Decode(raw), old, new) = Parse(new \o From(raw, Len(old) + 1))
           /\ new \o From(raw, Len(old) + 1) \in Url
           /\ Decode(new \o From(raw, Len(old) + 1)) = new \o From(Decode(raw), Len(old) + 1)
PROOF
  <1> DEFINE f == From(raw, Len(old) + 1)
             d == From(Decode(raw), Len(old) + 1)
             P == Decode(raw)
             R == Parse(raw).RawPath
  <1>1. P \in Url /\ f \in Url /\ d = Decode(f) /\ IsPrefix(old, raw)
    BY CleanPrefix, DecodeType
  <1>2. Decode(new) = new
    <2>1. Plain(new)
      BY DEF Clean, Plain
    <2> QED
      BY <2>1, DecodePlain
  <1>3. new \o f \in Url /\ Decode(new \o f) = new \o d /\ d \in Url
    <2> HIDE DEF f, d
    <2>1. new \o f \in Url
      BY <1>1, FromConcat
    <2>2. Decode(new \o f) = Decode(new) \o Decode(f)
      BY <1>1, DecodeConcat
    <2> QED
      BY <1>1, <1>2, <2>1, <2>2, DecodeType
  <1>4. new \o <<>> = new
    BY ConcatEmptySeq DEF Url
  <1>5. TrimPrefix(P, old) = d
    BY <1>1, TrimIs
  <1>6. R = (IF P = raw THEN <<>> ELSE raw)
    BY ParseIs
  <1>7. Escaped([Path |-> new \o d, RawPath |-> new \o TrimPrefix(R, old)]) = new \o f
    <2>1. CASE P = raw
      <3>1. TrimPrefix(R, old) = <<>> /\ d = f
        BY <1>6, <2>1, TrimIs
      <3> QED
        BY <1>2, <1>4, <3>1, EscapedOf
    <2>2. CASE P # raw
      <3>1. TrimPrefix(R, old) = f
        BY <1>1, <1>6, <2>2, TrimIs
      <3>2. CASE new \o f = <<>>
        BY <1>3, <3>1, <3>2, DecodeEmpty, EscapedOf
      <3>3. CASE new \o f # <<>>
        <4> HIDE DEF P, R, f, d
        <4>1. Escaped([Path |-> new \o d, RawPath |-> new \o f]) = new \o f
          BY <1>3, <3>3, EscapedOf
        <4> QED
          BY <3>1, <4>1
      <3> QED
        BY <3>2, <3>3
    <2> QED
      BY <2>1, <2>2
  <1>8. Rewritten(Parse(raw), P, old, new)
          = Parse(Escaped([Path |-> new \o TrimPrefix(P, old),
                           RawPath |-> new \o TrimPrefix(R, old)]))
    BY DEF Rewritten
  <1>9. Rewritten(Parse(raw), P, old, new) = Parse(new \o f)
    <2> HIDE DEF P, R, f, d
    <2> QED
      BY <1>5, <1>7, <1>8
  <1> QED
    BY <1>3, <1>9

\* The rewriting in a route does as well.
LEMMA ReplacedIs ==
    ASSUME NEW e \in Url, NEW old, NEW new
    PROVE  ReplacePrefix(Parse(e), old, new)
              = IF IsPrefix(old, e) THEN Parse(new \o From(e, Len(old) + 1)) ELSE Parse(e)
  BY ParseIs DEF ReplacePrefix

----------------------------------------------------------------------------
(* The rules for the UI server                                              *)

uiServer    == <<"ui-server">>
uiApi       == <<"ui-server", "api">>
uiAuth      == <<"ui-server", "auth">>
uiNotebooks == <<"ui-server", "api", "notebooks">>
notebooks   == <<"api", "notebooks">>
below       == <<"api", "data", "notebooks">>

\* What the route for the notebooks makes of a path.
Below(t) == IF IsPrefix(notebooks, t) THEN <<"api", "data">> \o Tail(t) ELSE t

Literal == {"ui-server", "api", "auth", "data", "notebooks"}

LEMMA CleanPrefixes ==
    /\ uiServer \in Seq(Literal) /\ Clean(uiServer) /\ Len(uiServer) = 1 /\ uiServer # <<>>
    /\ uiApi \in Seq(Literal) /\ Clean(uiApi) /\ Len(uiApi) = 2 /\ uiApi # <<>>
    /\ uiAuth \in Seq(Literal) /\ Clean(uiAuth) /\ Len(uiAuth) = 2 /\ uiAuth # <<>>
    /\ uiNotebooks \in Seq(Literal) /\ Clean(uiNotebooks) /\ Len(uiNotebooks) = 3
    /\ uiNotebooks # <<>>
    /\ notebooks \in Seq(Literal) /\ Clean(notebooks) /\ Len(notebooks) = 2 /\ notebooks # <<>>
PROOF
  <1>1. uiServer \in Seq(Literal) /\ Len(uiServer) = 1 /\ Clean(uiServer)
    BY DEF uiServer, Literal, Clean, Encoded
  <1>2. uiApi \in Seq(Literal) /\ Len(uiApi) = 2 /\ Clean(uiApi)
    BY DEF uiApi, Literal, Clean, Encoded
  <1>3. uiAuth \in Seq(Literal) /\ Len(uiAuth) = 2 /\ Clean(uiAuth)
    BY DEF uiAuth, Literal, Clean, Encoded
  <1>4. uiNotebooks \in Seq(Literal) /\ Len(uiNotebooks) = 3 /\ Clean(uiNotebooks)
    BY DEF uiNotebooks, Literal, Clean, Encoded
  <1>5. notebooks \in Seq(Literal) /\ Len(notebooks) = 2 /\ Clean(notebooks)
    BY DEF notebooks, Literal, Clean, Encoded
  <1>6. uiServer # <<>> /\ uiApi # <<>> /\ uiAuth # <<>>
    BY <1>1, <1>2, <1>3, EmptySeq
  <1>7. uiNotebooks # <<>> /\ notebooks # <<>>
    BY <1>4, <1>5, EmptySeq
  <1> QED
    BY <1>1, <1>2, <1>3, <1>4, <1>5, <1>6, <1>7

LEMMA NewPrefixes ==
    /\ <<>> \in Url /\ Clean(<<>>)
    /\ <<"api">> \in Url /\ Clean(<<"api">>) /\ Len(<<"api">>) = 1
    /\ below \in Url /\ Clean(below) /\ Len(below) = 3
    /\ <<"api", "data">> \in Url /\ Clean(<<"api", "data">>) /\ Len(<<"api", "data">>) = 2
PROOF
  <1>1. {"a", "b", "api", "data", "notebooks"} \subseteq Segment
    BY RevproxyAssumption
  <1>2. <<>> \in Url /\ Clean(<<>>)
    BY EmptyPath DEF Clean
  <1>3. <<"api">> \in Seq(Segment) /\ Clean(<<"api">>) /\ Len(<<"api">>) = 1
    BY <1>1 DEF Clean, Encoded
  <1>4. below \in Seq(Segment) /\ Clean(below) /\ Len(below) = 3
    BY <1>1 DEF below, Clean, Encoded
  <1>5. /\ <<"api", "data">> \in Seq(Segment) /\ Clean(<<"api", "data">>)
        /\ Len(<<"api", "data">>) = 2
    BY <1>1 DEF Clean, Encoded
  <1> QED
    BY <1>2, <1>3, <1>4, <1>5 DEF Url

\* How the prefixes of one path relate.
LEMMA Related ==
    ASSUME NEW t \in Url
    PROVE  /\ IsPrefix(uiServer, t) <=> Len(t) >= 1 /\ t[1] = "ui-server"
           /\ IsPrefix(uiApi, t) <=> Len(t) >= 2 /\ t[1] = "ui-server" /\ t[2] = "api"
           /\ IsPrefix(uiAuth, t) <=> Len(t) >= 2 /\ t[1] = "ui-server" /\ t[2] = "auth"
           /\ IsPrefix(uiNotebooks, t) <=> /\ Len(t) >= 3 /\ t[1] = "ui-server"
                                           /\ t[2] = "api" /\ t[3] = "notebooks"
           /\ IsPrefix(notebooks, t) <=> Len(t) >= 2 /\ t[1] = "api" /\ t[2] = "notebooks"
           /\ Len(t) \in Nat
PROOF
  <1>1. Len(t) \in Nat
    BY LenProperties DEF Url
  <1> QED
    BY <1>1, Prefix1, Prefix2, Prefix3 DEF uiServer, uiApi, uiAuth, uiNotebooks, notebooks

\* Intended, from the rules for the UI server and the route for the notebooks.
LEMMA IntendedIs ==
    ASSUME NEW t \in Url
    PROVE  /\ IsPrefix(uiApi, t) => Intended(t) = Below(Tail(t))
           /\ IsPrefix(uiAuth, t) => Intended(t) = Below(<<"api">> \o Tail(t))
           /\ ~IsPrefix(uiApi, t) /\ ~IsPrefix(uiAuth, t) => Intended(t) = Below(t)
PROOF
  <1>1. ~ (IsPrefix(uiApi, t) /\ IsPrefix(uiAuth, t))
    BY Related
  <1>2. CASE IsPrefix(uiApi, t)
    <2>1. ~IsPrefix(<<"ui-server", "auth">>, t) /\ IsPrefix(<<"ui-server", "api">>, t)
      BY <1>1, <1>2 DEF uiApi, uiAuth
    <2>2. Intended(t) = Below(Tail(t))
      BY <2>1 DEF Intended, Below, notebooks
    <2> QED
      BY <1>1, <1>2, <2>2
  <1>3. CASE IsPrefix(uiAuth, t)
    <2>1. IsPrefix(<<"ui-server", "auth">>, t) /\ ~IsPrefix(<<"ui-server", "api">>, t)
      BY <1>1, <1>3 DEF uiApi, uiAuth
    <2>2. Intended(t) = Below(<<"api">> \o Tail(t))
      BY <2>1 DEF Intended, Below, notebooks
    <2> QED
      BY <1>1, <1>3, <2>2
  <1>4. CASE ~IsPrefix(uiApi, t) /\ ~IsPrefix(uiAuth, t)
    <2>1. ~IsPrefix(<<"ui-server", "auth">>, t) /\ ~IsPrefix(<<"ui-server", "api">>, t)
      BY <1>4 DEF uiApi, uiAuth
    <2>2. Intended(t) = Below(t)
      BY <2>1 DEF Intended, Below, notebooks
    <2> QED
      BY <1>4, <2>2
  <1> QED
    BY <1>2, <1>3, <1>4

\* What a path that stays at the UI server begins with.
LEMMA StaysIs ==
    ASSUME NEW t \in Url, NEW prefix \in StaysAtUiServer, IsPrefix(prefix, t)
    PROVE  IsPrefix(uiServer, t)
PROOF
  <1> DEFINE S == {prefix[i] : i \in 1..Len(prefix)}
  <1>1. prefix \in Seq(S) /\ Len(prefix) \in Nat /\ Len(prefix) >= 1 /\ prefix[1] = "ui-server"
    <2>1. CASE prefix = <<"ui-server", "api", "allows-iframe">>
      BY <2>1
    <2>2. CASE prefix = <<"ui-server", "api", "projects">>
      BY <2>2
    <2>3. CASE prefix = <<"ui-server", "api", "renku", "cache.files_upload">>
      BY <2>3
    <2>4. CASE prefix = <<"ui-server", "api", "last-projects">>
      BY <2>4
    <2>5. CASE prefix = <<"ui-server", "api", "last-searches">>
      BY <2>5
    <2> QED
      BY <2>1, <2>2, <2>3, <2>4, <2>5 DEF StaysAtUiServer
  <1> HIDE DEF S
  <1>2. Len(prefix) <= Len(t) /\ \A i \in 1..Len(prefix) : prefix[i] = t[i]
    BY <1>1, PrefixIs
  <1>3. Len(t) >= 1 /\ t[1] = "ui-server"
    BY <1>1, <1>2, Related
  <1> QED
    BY <1>3, Related

\* The result of a rule, as a path that is parsed.
LEMMA RuleIs ==
    ASSUME NEW raw \in Url, IsPrefix(uiServer, Decode(raw)), NEW new \in Url, Clean(new)
    PROVE  /\ IsPrefix(uiServer, raw) /\ Len(raw) >= 1 /\ Len(Decode(raw)) >= 1
           /\ Rewritten(Parse(raw), Decode(raw), uiServer, new) = Parse(new \o Tail(raw))
           /\ new \o Tail(raw) \in Url
           /\ Decode(new \o Tail(raw)) = new \o Tail(Decode(raw))
           /\ Tail(raw) \in Url /\ Tail(Decode(raw)) \in Url
PROOF
  <1>1. IsPrefix(uiServer, raw) /\ Decode(raw) \in Url
    BY CleanPrefix, CleanPrefixes, DecodeType
  <1>2. Len(raw) >= 1 /\ Len(Decode(raw)) >= 1
    BY <1>1, Related
  <1>3. From(raw, 2) = Tail(raw) /\ From(Decode(raw), 2) = Tail(Decode(raw))
    BY <1>1, <1>2, FromIsTail
  <1>4. Len(uiServer) + 1 = 2
    BY CleanPrefixes
  <1>5. /\ Rewritten(Parse(raw), Decode(raw), uiServer, new)
             = Parse(new \o From(raw, Len(uiServer) + 1))
        /\ new \o From(raw, Len(uiServer) + 1) \in Url
        /\ Decode(new \o From(raw, Len(uiServer) + 1))
             = new \o From(Decode(raw), Len(uiServer) + 1)
    BY RewrittenIs, CleanPrefixes
  <1>6. Tail(raw) \in Url /\ Tail(Decode(raw)) \in Url
    BY <1>1, <1>2, FromIsTail
  <1> QED
    BY <1>1, <1>2, <1>3, <1>4, <1>5, <1>6

\* The third rule undoes what the second one did: it takes its RawPath, which
\* then no longer fits, so that the path counts, without the encoding.
LEMMA ThirdAfterSecond ==
    ASSUME NEW raw \in Url, IsPrefix(uiNotebooks, Decode(raw))
    PROVE  /\ Rewritten(Rewritten(Parse(raw), Decode(raw), uiNotebooks, below),
                        Decode(raw), uiServer, <<>>)
                = Parse(Tail(Decode(raw)))
           /\ Tail(Decode(raw)) \in Url
PROOF
  <1> DEFINE P == Decode(raw)
             f == From(raw, 4)
             w == below \o f
             W == Rewritten(Parse(raw), P, uiNotebooks, below)
             r == TrimPrefix(W.RawPath, uiServer)
             p == <<>> \o TrimPrefix(P, uiServer)
  <1>1. /\ P \in Url /\ Len(P) >= 3 /\ P[1] = "ui-server" /\ P[3] = "notebooks"
        /\ IsPrefix(uiServer, P) /\ IsPrefix(uiNotebooks, raw) /\ Len(raw) >= 3
    <2>1. P \in Url /\ IsPrefix(uiNotebooks, raw)
      BY DecodeType, CleanPrefix, CleanPrefixes
    <2> QED
      BY <2>1, Related
  <1>2. f \in Url /\ W = Parse(w) /\ w \in Url
    <2>1. Len(uiNotebooks) + 1 = 4 /\ 3 + 1 = 4
      BY CleanPrefixes
    <2>2. f \in Url
      BY <1>1, <2>1, FromIs
    <2>3. IsPrefix(uiNotebooks, Decode(raw))
      OBVIOUS
    <2>4. /\ W = Parse(below \o From(raw, Len(uiNotebooks) + 1))
          /\ below \o From(raw, Len(uiNotebooks) + 1) \in Url
      BY <2>3, RewrittenIs, CleanPrefixes, NewPrefixes
    <2> HIDE DEF W
    <2> QED
      BY <2>1, <2>2, <2>4
  <1>3. Len(w) >= 3 /\ w[1] = "api" /\ w[2] = "data"
    <2>1. IsPrefix(below, w)
      BY <1>2, NewPrefixes, FromConcat
    <2> HIDE DEF w
    <2> QED
      BY <1>2, <2>1, Prefix3 DEF below
  <1>4. W.RawPath \in {<<>>, w} /\ W.RawPath \in Url
    BY <1>2, ParseIs, EmptyPath
  <1>5. ~IsPrefix(uiServer, w)
    BY <1>2, <1>3, Related
  <1>6. r = W.RawPath
    BY <1>2, <1>4, <1>5, TrimIs, CleanPrefixes
  <1>7. p = Tail(P) /\ Tail(P) \in Url /\ Len(Tail(P)) >= 2 /\ Tail(P)[2] = "notebooks"
    <2>1. TrimPrefix(P, uiServer) = From(P, 2)
      <3>1. TrimPrefix(P, uiServer) = From(P, Len(uiServer) + 1)
        BY <1>1, TrimIs, CleanPrefixes
      <3>2. Len(uiServer) + 1 = 2
        BY CleanPrefixes
      <3> QED
        BY <3>1, <3>2
    <2>2. /\ From(P, 2) = Tail(P) /\ Tail(P) \in Url /\ Len(Tail(P)) = Len(P) - 1
          /\ \A i \in 1..(Len(P) - 1) : Tail(P)[i] = P[i + 1]
      BY <1>1, FromIsTail
    <2>3. Len(P) \in Nat
      BY <1>1, Related
    <2>4. 2 \in 1..(Len(P) - 1) /\ 2 + 1 = 3
      BY <1>1, <2>3
    <2>5. Len(Tail(P)) >= 2 /\ Tail(P)[2] = "notebooks"
      BY <1>1, <2>2, <2>3, <2>4
    <2>6. <<>> \o Tail(P) = Tail(P)
      BY <2>2, ConcatEmptySeq DEF Url
    <2> QED
      BY <2>1, <2>2, <2>5, <2>6
  <1>8. <<>> \o r = r
    BY <1>4, <1>6, ConcatEmptySeq DEF Url
  <1>9. r = w => Decode(r) # p
    <2>1. IsPrefix(<<"api", "data">>, Decode(w)) <=> IsPrefix(<<"api", "data">>, w)
      <3>1. <<"api", "data">> \in Seq(Segment) /\ Clean(<<"api", "data">>)
        BY NewPrefixes DEF Url
      <3> HIDE DEF w
      <3> QED
        BY <1>2, <3>1, CleanPrefix
    <2> HIDE DEF w, p, r
    <2>2. IsPrefix(<<"api", "data">>, Decode(w)) /\ Decode(w) \in Url
      BY <1>2, <1>3, <2>1, Prefix2, DecodeType
    <2>3. Decode(w)[2] = "data"
      BY <2>2, Prefix2
    <2>4. Decode(w) # p
      BY <1>7, <2>3
    <2> QED
      BY <2>4
  <1>10. Escaped([Path |-> p, RawPath |-> <<>> \o r]) = Tail(P)
    BY <1>4, <1>6, <1>7, <1>8, <1>9, EscapedOf
  <1>11. Rewritten(W, P, uiServer, <<>>)
            = Parse(Escaped([Path |-> p, RawPath |-> <<>> \o r]))
    BY DEF Rewritten
  <1> QED
    BY <1>7, <1>10, <1>11

\* UiServerPathRewrite, without the rules that do not apply.
LEMMA RulesAre ==
    ASSUME NEW u, u.Path \in Url
    PROVE  LET P == u.Path
               stays == \E prefix \in StaysAtUiServer : IsPrefix(prefix, P)
           IN  /\ stays => UiServerPathRewrite(u) = u
               /\ ~stays /\ IsPrefix(uiAuth, P) =>
                     UiServerPathRewrite(u) = Rewritten(u, P, uiServer, <<"api">>)
               /\ ~stays /\ IsPrefix(uiNotebooks, P) =>
                     UiServerPathRewrite(u) =
                        Rewritten(Rewritten(u, P, uiNotebooks, below), P, uiServer, <<>>)
               /\ ~stays /\ IsPrefix(uiApi, P) /\ ~IsPrefix(uiNotebooks, P) =>
                     UiServerPathRewrite(u) = Rewritten(u, P, uiServer, <<>>)
               /\ ~stays /\ ~IsPrefix(uiApi, P) /\ ~IsPrefix(uiAuth, P) =>
                     UiServerPathRewrite(u) = u
PROOF
  <1>1. /\ IsPrefix(uiAuth, u.Path) => ~IsPrefix(uiApi, u.Path)
        /\ IsPrefix(uiNotebooks, u.Path) => IsPrefix(uiApi, u.Path)
    BY Related
  <1> QED
    BY <1>1 DEF UiServerPathRewrite, uiServer, uiApi, uiAuth, uiNotebooks, below

\* What UiServerPathRewrite makes of a path is again a path that has been
\* parsed, and the one that is meant, unless it stays at the UI server.
LEMMA RewriteIs ==
    ASSUME NEW raw \in Url
    PROVE  \E e \in Url :
              /\ UiServerPathRewrite(Parse(raw)) = Parse(e)
              /\ \/ IsPrefix(uiServer, e)
                 \/ /\ Intended(Decode(raw)) = Below(Decode(e))
                    /\ IsPrefix(uiNotebooks, raw) \/ Intended(raw) = Below(e)
PROOF
  <1> DEFINE P == Decode(raw)
             stays == \E prefix \in StaysAtUiServer : IsPrefix(prefix, P)
             V == UiServerPathRewrite(Parse(raw))
  <1>1. P \in Url /\ Parse(raw).Path = P
    BY DecodeType, ParseIs
  <1>2. /\ IsPrefix(uiServer, P) <=> IsPrefix(uiServer, raw)
        /\ IsPrefix(uiApi, P) <=> IsPrefix(uiApi, raw)
        /\ IsPrefix(uiAuth, P) <=> IsPrefix(uiAuth, raw)
        /\ IsPrefix(uiNotebooks, P) <=> IsPrefix(uiNotebooks, raw)
    BY CleanPrefix, CleanPrefixes
  <1>3. IsPrefix(uiApi, P) \/ IsPrefix(uiAuth, P) => IsPrefix(uiServer, P)
    BY <1>1, Related
  <1>4. CASE stays
    <2>1. IsPrefix(uiServer, raw)
      BY <1>1, <1>2, <1>4, StaysIs
    <2>2. V = Parse(raw)
      BY <1>1, <1>4, RulesAre
    <2> QED
      BY <2>1, <2>2
  <1>5. CASE ~stays /\ IsPrefix(uiAuth, P)
    <2> DEFINE e == <<"api">> \o Tail(raw)
    <2>1. V = Rewritten(Parse(raw), P, uiServer, <<"api">>)
      BY <1>1, <1>5, RulesAre
    <2>2. /\ e \in Url /\ Rewritten(Parse(raw), P, uiServer, <<"api">>) = Parse(e)
          /\ Decode(e) = <<"api">> \o Tail(P)
      BY <1>3, <1>5, RuleIs, NewPrefixes
    <2>3. Intended(P) = Below(<<"api">> \o Tail(P)) /\ Intended(raw) = Below(e)
      BY <1>1, <1>2, <1>5, IntendedIs
    <2> HIDE DEF e, V, P
    <2> QED
      BY <2>1, <2>2, <2>3 DEF P, V
  <1>6. CASE ~stays /\ IsPrefix(uiNotebooks, P)
    <2> DEFINE e == Tail(P)
    <2>1. V = Parse(e) /\ e \in Url
      BY <1>1, <1>6, RulesAre, ThirdAfterSecond
    <2>2. Len(P) >= 3 /\ IsPrefix(uiApi, P) /\ Len(P) \in Nat
      BY <1>1, <1>6, Related
    <2>3. Intended(P) = Below(e)
      BY <1>1, <2>2, IntendedIs
    <2>4. Decode(e) = e
      <3>1. Plain(P)
        BY DecodedIsPlain
      <3>2. Len(e) = Len(P) - 1 /\ \A i \in 1..(Len(P) - 1) : e[i] = P[i + 1]
        BY <1>1, <2>2, FromIsTail
      <3> HIDE DEF e, P
      <3>3. \A i \in 1..(Len(P) - 1) : i + 1 \in 1..Len(P)
        BY <2>2
      <3>4. Plain(e)
        BY <3>1, <3>2, <3>3 DEF Plain
      <3> QED
        BY <2>1, <3>4, DecodePlain
    <2> HIDE DEF e
    <2> QED
      BY <1>2, <1>6, <2>1, <2>3, <2>4
  <1>7. CASE ~stays /\ IsPrefix(uiApi, P) /\ ~IsPrefix(uiNotebooks, P)
    <2> DEFINE e == Tail(raw)
    <2>1. V = Rewritten(Parse(raw), P, uiServer, <<>>)
      BY <1>1, <1>7, RulesAre
    <2>2. /\ e \in Url /\ Rewritten(Parse(raw), P, uiServer, <<>>) = Parse(<<>> \o e)
          /\ Decode(<<>> \o e) = <<>> \o Tail(P) /\ Tail(P) \in Url
      BY <1>3, <1>7, RuleIs, NewPrefixes
    <2>3. Intended(P) = Below(Tail(P)) /\ Intended(raw) = Below(e)
      BY <1>1, <1>2, <1>7, IntendedIs
    <2>4. <<>> \o e = e /\ <<>> \o Tail(P) = Tail(P)
      BY <2>2, ConcatEmptySeq DEF Url
    <2> HIDE DEF e
    <2> QED
      BY <2>1, <2>2, <2>3, <2>4
  <1>8. CASE ~stays /\ ~IsPrefix(uiApi, P) /\ ~IsPrefix(uiAuth, P)
    <2>1. V = Parse(raw)
      BY <1>1, <1>8, RulesAre
    <2>2. Intended(P) = Below(P) /\ Intended(raw) = Below(raw)
      BY <1>1, <1>2, <1>8, IntendedIs
    <2> QED
      BY <2>1, <2>2
  <1> QED
    BY <1>4, <1>5, <1>6, <1>7, <1>8

----------------------------------------------------------------------------
(* Routes                                                                   *)

Has(c, name) == \E i \in 1..Len(c) : c[i] = name

withRewrite    == DataChain(Gitlab, <<"regexRewrite">>)
withoutRewrite == DataChain(Gitlab, <<>>)

\* Where only the groups for the notebooks and for the data service lead.
LEMMA DataGroups ==
    ASSUME NEW g \in Groups \cup {LoginRoutes}, Has(g.chain, "data")
    PROVE  \/ g = [prefix |-> notebooks, chain |-> withRewrite]
           \/ g = [prefix |-> <<"api", "data">>, chain |-> withoutRewrite]
PROOF
  <1>1. CASE g = [prefix |-> <<"api", "data", "user", "secret_key">>,
                  chain  |-> <<"session", "notFound">>]
    BY <1>1 DEF Has
  <1>2. CASE g = [prefix |-> <<"api", "kc">>,
                  chain  |-> <<"session", "stripPrefix", "renkuAccessToken", "keycloak">>]
    BY <1>2 DEF Has
  <1>3. CASE g = [prefix |-> <<"ui-server", "ws">>,
                  chain  |-> <<"session", "ensureSession", "renkuAccessToken", "ui">>]
    BY <1>3 DEF Has
  <1>4. CASE g = [prefix |-> <<"ui-server", "api", "allows-iframe">>,
                  chain  |-> <<"session", "ui">>]
    BY <1>4 DEF Has
  <1>5. CASE g = [prefix |-> <<"api", "gitlab-redirect">>, chain  |-> <<"session", "redirect">>]
    BY <1>5 DEF Has
  <1>6. CASE g = LoginRoutes
    BY <1>6 DEF Has, LoginRoutes
  <1> QED
    BY <1>1, <1>2, <1>3, <1>4, <1>5, <1>6 DEF Groups, notebooks, withRewrite, withoutRewrite

\* A route to the data service, by the path as it is written.
LEMMA DataRoutes ==
    ASSUME NEW u, NEW path, path = IF u.RawPath = <<>> THEN u.Path ELSE u.RawPath,
           Has(Route(u), "data")
    PROVE  \/ IsPrefix(notebooks, path) /\ Route(u) = withRewrite
           \/ IsPrefix(<<"api", "data">>, path) /\ Route(u) = withoutRewrite
PROOF
  <1> DEFINE fits == {g \in Groups \cup {LoginRoutes} :
                        /\ IsPrefix(g.prefix, path)
                        /\ g.prefix = <<"api", "gitlab-redirect">> => g.prefix # path}
             longest == CHOOSE g \in fits : \A h \in fits : Len(h.prefix) <= Len(g.prefix)
  <1>1. Route(u) = IF fits # {} THEN longest.chain
                   ELSE IF path = <<>> THEN Fallback.chain ELSE <<"notFound">>
    BY DEF Route
  <1>2. ~Has(Fallback.chain, "data") /\ ~Has(<<"notFound">>, "data")
    BY DEF Has, Fallback
  <1>3. CASE fits = {}
    BY <1>1, <1>2, <1>3
  <1>4. CASE fits # {}
    <2>1. longest \in fits
      BY <1>4, LongestFits
    <2>2. longest \in Groups \cup {LoginRoutes} /\ IsPrefix(longest.prefix, path)
      BY <2>1
    <2> HIDE DEF longest, fits
    <2>3. Has(longest.chain, "data") /\ Route(u) = longest.chain
      BY <1>1, <1>4
    <2>4. \/ longest = [prefix |-> notebooks, chain |-> withRewrite]
          \/ longest = [prefix |-> <<"api", "data">>, chain |-> withoutRewrite]
      BY <2>2, <2>3, DataGroups
    <2> QED
      BY <2>2, <2>3, <2>4
  <1> QED
    BY <1>3, <1>4

\* The path that the router looks at, of a URL that has been parsed.
LEMMA RoutedBy ==
    ASSUME NEW e \in Url
    PROVE  e = IF Parse(e).RawPath = <<>> THEN Parse(e).Path ELSE Parse(e).RawPath
PROOF
  <1>1. Decode(e) = e \/ e # <<>>
    BY DecodeEmpty
  <1> QED
    BY <1>1, ParseIs

\* What the chains have in common, from wherever the request has got to.
Shape(c) ==
    /\ ~Has(c, "UiServerPathRewrite")
    /\ Has(c, "stripPrefix") => ~Has(c, "data") /\ ~Has(c, "regexRewrite")
    /\ \A i, j \in 1..Len(c) : c[i] = "regexRewrite" /\ c[j] = "regexRewrite" => i = j
    /\ \A i \in 1..Len(c) : c[i] = "data" => i = Len(c)

LEMMA ChainsShaped ==
    ASSUME NEW c \in Chains
    PROVE  Shape(c) /\ (Has(c, "regexRewrite") => Has(c, "data"))
PROOF
  <1> DEFINE Fine(d) == Shape(d) /\ (Has(d, "regexRewrite") => Has(d, "data"))
  <1>1. Fine(<<"session", "renkuAccessToken", "dataGitlabAccessToken",
               "notebooksRenkuRefreshToken", "notebooksAnonymousID", "regexRewrite", "data">>)
    BY DEF Shape, Has
  <1>2. Fine(<<"session", "renkuAccessToken",
               "notebooksRenkuRefreshToken", "notebooksAnonymousID", "regexRewrite", "data">>)
    BY DEF Shape, Has
  <1>3. Fine(<<"session", "renkuAccessToken", "dataGitlabAccessToken",
               "notebooksRenkuRefreshToken", "notebooksAnonymousID", "data">>)
    BY DEF Shape, Has
  <1>4. Fine(<<"session", "renkuAccessToken",
               "notebooksRenkuRefreshToken", "notebooksAnonymousID", "data">>)
    BY DEF Shape, Has
  <1>5. Fine(<<"session", "stripPrefix", "renkuAccessToken", "keycloak">>)
    BY DEF Shape, Has
  <1>6. Fine(<<"session", "ensureSession", "renkuAccessToken", "ui">>)
    BY DEF Shape, Has
  <1>7. Fine(<<"session", "notFound">>) /\ Fine(<<"notFound">>)
    BY DEF Shape, Has
  <1>8. Fine(<<"session", "ui">>) /\ Fine(<<"session", "redirect">>)
    BY DEF Shape, Has
  <1>9. Fine(<<"session", "login">>) /\ Fine(<<"session", "base">>)
    BY DEF Shape, Has
  <1> HIDE DEF Fine
  <1>10. Fine(c)
    BY <1>1, <1>2, <1>3, <1>4, <1>5, <1>6, <1>7, <1>8, <1>9
    DEF Chains, RewritingChains, DirectChains
  <1> QED
    BY <1>10 DEF Fine

LEMMA DataChainsRewrite ==
    Has(withRewrite, "regexRewrite") /\ ~Has(withoutRewrite, "regexRewrite")
PROOF
  <1>1. \A c \in RewritingChains : Has(c, "regexRewrite")
    <2>1. Has(<<"session", "renkuAccessToken", "dataGitlabAccessToken",
                "notebooksRenkuRefreshToken", "notebooksAnonymousID", "regexRewrite", "data">>,
              "regexRewrite")
      BY DEF Has
    <2>2. Has(<<"session", "renkuAccessToken",
                "notebooksRenkuRefreshToken", "notebooksAnonymousID", "regexRewrite", "data">>,
              "regexRewrite")
      BY DEF Has
    <2> QED
      BY <2>1, <2>2 DEF RewritingChains
  <1>2. \A c \in DirectChains : ~Has(c, "regexRewrite")
    <2>1. ~Has(<<"session", "renkuAccessToken", "dataGitlabAccessToken",
                 "notebooksRenkuRefreshToken", "notebooksAnonymousID", "data">>,
               "regexRewrite")
      BY DEF Has
    <2>2. ~Has(<<"session", "renkuAccessToken",
                 "notebooksRenkuRefreshToken", "notebooksAnonymousID", "data">>,
               "regexRewrite")
      BY DEF Has
    <2> QED
      BY <2>1, <2>2 DEF DirectChains
  <1> QED
    BY <1>1, <1>2, DataChains DEF withRewrite, withoutRewrite

LEMMA TailShaped ==
    ASSUME NEW c \in Seq(Middleware), c # <<>>
    PROVE  /\ \A name : Has(c, name) <=> Head(c) = name \/ Has(Tail(c), name)
           /\ Shape(c) => /\ Shape(Tail(c))
                          /\ Head(c) = "regexRewrite" => ~Has(Tail(c), "regexRewrite")
                          /\ Head(c) = "data" => ~Has(c, "regexRewrite")
PROOF
  <1> DEFINE n == Len(c)
             d == Tail(c)
  <1>1. /\ n \in Nat \ {0} /\ c[1] = Head(c)
        /\ Len(d) = n - 1 /\ \A i \in 1..(n - 1) : d[i] = c[i + 1]
    <2>1. n \in Nat \ {0} /\ c[1] = Head(c)
      BY EmptySeq
    <2>2. Len(d) = n - 1 /\ \A i \in 1..Len(d) : d[i] = c[i + 1]
      BY HeadTailProperties
    <2> QED
      BY <2>1, <2>2
  <1> HIDE DEF n, d
  <1>2. ASSUME NEW name
        PROVE  Has(c, name) <=> Head(c) = name \/ Has(d, name)
    <2>1. ASSUME Has(c, name)
          PROVE  Head(c) = name \/ Has(d, name)
      <3>1. PICK i \in 1..n : c[i] = name
        BY <2>1 DEF Has, n
      <3>2. CASE i = 1
        BY <1>1, <3>1, <3>2
      <3>3. CASE i # 1
        <4>1. i - 1 \in 1..(n - 1) /\ (i - 1) + 1 = i
          BY <1>1, <3>3
        <4>2. d[i - 1] = name
          BY <1>1, <3>1, <4>1
        <4> QED
          BY <1>1, <4>1, <4>2 DEF Has
      <3> QED
        BY <3>2, <3>3
    <2>2. ASSUME Head(c) = name
          PROVE  Has(c, name)
      <3>1. 1 \in 1..n /\ c[1] = name
        BY <1>1, <2>2
      <3> QED
        BY <3>1 DEF Has, n
    <2>3. ASSUME Has(d, name)
          PROVE  Has(c, name)
      <3>1. PICK i \in 1..(n - 1) : d[i] = name
        BY <1>1, <2>3 DEF Has
      <3>2. i + 1 \in 1..n /\ c[i + 1] = name
        BY <1>1, <3>1
      <3> QED
        BY <3>2 DEF Has, n
    <2> QED
      BY <2>1, <2>2, <2>3
  <1>3. ASSUME Shape(c)
        PROVE  /\ Shape(d)
               /\ Head(c) = "regexRewrite" => ~Has(d, "regexRewrite")
               /\ Head(c) = "data" => ~Has(c, "regexRewrite")
    <2>1. /\ ~Has(c, "UiServerPathRewrite")
          /\ Has(c, "stripPrefix") => ~Has(c, "data") /\ ~Has(c, "regexRewrite")
          /\ \A i, j \in 1..n : c[i] = "regexRewrite" /\ c[j] = "regexRewrite" => i = j
          /\ \A i \in 1..n : c[i] = "data" => i = n
      BY <1>3 DEF Shape, n
    <2>2. \A i \in 1..(n - 1) : i + 1 \in 1..n
      BY <1>1
    <2>3. ASSUME NEW i \in 1..(n - 1), NEW j \in 1..(n - 1),
                 d[i] = "regexRewrite", d[j] = "regexRewrite"
          PROVE  i = j
      <3>1. i + 1 = j + 1
        BY <1>1, <2>1, <2>2, <2>3
      <3> QED
        BY <1>1, <3>1
    <2>4. ASSUME NEW i \in 1..(n - 1), d[i] = "data"
          PROVE  i = n - 1
      <3>1. i + 1 = n
        BY <1>1, <2>1, <2>2, <2>4
      <3> QED
        BY <1>1, <3>1
    <2>5. Shape(d)
      BY <1>1, <1>2, <2>1, <2>3, <2>4 DEF Shape
    <2>6. ASSUME Head(c) = "regexRewrite"
          PROVE  ~Has(d, "regexRewrite")
      <3> SUFFICES ASSUME NEW i \in 1..(n - 1), d[i] = "regexRewrite"
                   PROVE  FALSE
        BY <1>1 DEF Has
      <3>1. 1 \in 1..n /\ i + 1 \in 1..n /\ c[1] = "regexRewrite" /\ c[i + 1] = "regexRewrite"
        BY <1>1, <2>2, <2>6
      <3>2. 1 = i + 1
        BY <2>1, <3>1
      <3> QED
        BY <1>1, <3>2
    <2>7. ASSUME Head(c) = "data"
          PROVE  ~Has(c, "regexRewrite")
      <3>1. 1 \in 1..n /\ n = 1
        BY <1>1, <2>1, <2>7
      <3> QED
        BY <1>1, <2>7, <3>1 DEF Has, n
    <2> QED
      BY <2>5, <2>6, <2>7
  <1> QED
    BY <1>2, <1>3 DEF d

----------------------------------------------------------------------------
(* Where the request arrives                                                *)

\* What DataServicePath and EncodingKept say of a URL.
Meant(u) == /\ u.Path = Intended(WithoutTrailingSlash(Decode(asked)))
            /\ \/ IsPrefix(uiNotebooks, asked)
               \/ WithoutTrailingSlash(asked) # asked
               \/ Escaped(u) = Intended(asked)

\* The route for the notebooks puts them below the data service.
LEMMA BelowIs ==
    ASSUME NEW e \in Url, IsPrefix(notebooks, e)
    PROVE  /\ below \o From(e, 3) \in Url
           /\ below \o From(e, 3) = Below(e)
           /\ Decode(below \o From(e, 3)) = Below(Decode(e))
PROOF
  <1>1. ASSUME NEW t \in Url, IsPrefix(notebooks, t)
        PROVE  /\ below \o From(t, 3) = Below(t) /\ From(t, 3) \in Url
               /\ below \o From(t, 3) \in Url
    <2> DEFINE f == From(t, 3)
               g == Tail(t)
    <2>1. Len(t) >= 2 /\ Len(t) \in Nat /\ t[1] = "api" /\ t[2] = "notebooks"
      BY <1>1, Related
    <2>2. f \in Url /\ Len(f) = Len(t) - 2 /\ \A i \in 1..(Len(t) - 2) : f[i] = t[2 + i]
      <3>1. 2 + 1 = 3
        OBVIOUS
      <3> QED
        BY <2>1, <3>1, FromIs
    <2>3. g \in Url /\ Len(g) = Len(t) - 1 /\ \A i \in 1..(Len(t) - 1) : g[i] = t[i + 1]
      BY <2>1, FromIsTail
    <2> HIDE DEF f, g
    <2> DEFINE u == below \o f
               v == <<"api", "data">> \o g
    <2>4. /\ u \in Url /\ Len(u) = 3 + Len(f)
          /\ \A i \in 1..(3 + Len(f)) : u[i] = IF i <= 3 THEN below[i] ELSE f[i - 3]
      <3>1. below \in Seq(Segment) /\ f \in Seq(Segment) /\ Len(below) = 3
        BY <2>2, NewPrefixes DEF Url
      <3>2. /\ u \in Seq(Segment) /\ Len(u) = Len(below) + Len(f)
            /\ \A i \in 1..(Len(below) + Len(f)) :
                  u[i] = IF i <= Len(below) THEN below[i] ELSE f[i - Len(below)]
        BY <3>1, ConcatProperties
      <3> HIDE DEF u
      <3> QED
        BY <3>1, <3>2 DEF Url
    <2>5. /\ v \in Url /\ Len(v) = 2 + Len(g)
          /\ \A i \in 1..(2 + Len(g)) : v[i] = IF i <= 2 THEN <<"api", "data">>[i] ELSE g[i - 2]
      BY <2>3, NewPrefixes, ConcatProperties DEF Url
    <2> HIDE DEF u, v
    <2>6. Len(u) = Len(t) + 1 /\ Len(v) = Len(t) + 1
      BY <2>1, <2>2, <2>3, <2>4, <2>5
    <2>7. ASSUME NEW i \in 1..(Len(t) + 1)
          PROVE  u[i] = v[i]
      <3>1. /\ u[i] = IF i <= 3 THEN below[i] ELSE f[i - 3]
            /\ v[i] = IF i <= 2 THEN <<"api", "data">>[i] ELSE g[i - 2]
        BY <2>1, <2>2, <2>3, <2>4, <2>5
      <3>2. CASE i <= 2
        <4>1. i = 1 \/ i = 2
          BY <2>1, <3>2
        <4>2. u[i] = below[i] /\ v[i] = <<"api", "data">>[i]
          BY <3>1, <4>1
        <4>3. below[1] = "api" /\ below[2] = "data"
          BY DEF below
        <4> QED
          BY <4>1, <4>2, <4>3
      <3>3. CASE i = 3
        <4>1. u[i] = "notebooks"
          BY <3>1, <3>3 DEF below
        <4>2. v[i] = g[1] /\ g[1] = t[2]
          BY <2>1, <2>3, <3>1, <3>3
        <4> QED
          BY <2>1, <4>1, <4>2
      <3>4. CASE i > 3
        <4>1. i - 3 \in 1..(Len(t) - 2) /\ i - 2 \in 1..(Len(t) - 1) /\ 2 + (i - 3) = (i - 2) + 1
          BY <2>1, <3>4
        <4>2. u[i] = f[i - 3] /\ v[i] = g[i - 2]
          BY <3>1, <3>4
        <4> QED
          BY <2>2, <2>3, <4>1, <4>2
      <3> QED
        BY <2>1, <3>2, <3>3, <3>4
    <2>8. u = v
      BY <2>4, <2>5, <2>6, <2>7, SeqEqual DEF Url
    <2>9. Below(t) = v
      BY <1>1 DEF Below, v, g
    <2> QED
      BY <2>2, <2>4, <2>8, <2>9 DEF u, f
  <1>2. /\ IsPrefix(notebooks, Decode(e)) /\ Decode(e) \in Url
        /\ From(Decode(e), 3) = Decode(From(e, 3))
    <2>1. Len(notebooks) + 1 = 3
      BY CleanPrefixes
    <2>2. /\ IsPrefix(notebooks, Decode(e))
          /\ From(Decode(e), Len(notebooks) + 1) = Decode(From(e, Len(notebooks) + 1))
      BY CleanPrefix, CleanPrefixes
    <2> QED
      BY <2>1, <2>2, DecodeType
  <1>3. Decode(below \o From(e, 3)) = below \o Decode(From(e, 3))
    <2>1. Plain(below) /\ below \in Url /\ From(e, 3) \in Url
      BY <1>1, NewPrefixes DEF Clean, Plain
    <2> QED
      BY <2>1, DecodeConcat, DecodePlain
  <1> QED
    BY <1>1, <1>2, <1>3

\* What the rules for the UI server leave of a path, if nothing is left over of
\* another one: it leads to the path that is meant.
LeadsTo(p, e) ==
    \/ IsPrefix(uiServer, e)
    \/ /\ Intended(p) = Below(Decode(e))
       /\ \/ IsPrefix(uiNotebooks, asked)
          \/ WithoutTrailingSlash(asked) # asked
          \/ Intended(asked) = Below(e)

\* Such a URL on a route to the data service is the one that is meant, or will
\* be when the route is through.
LEMMA RoutedParsed ==
    ASSUME NEW e \in Url, NEW p, p = WithoutTrailingSlash(Decode(asked)), LeadsTo(p, e),
           NEW v, v = Parse(e), NEW c, c = Route(v)
    PROVE  /\ Has(c, "regexRewrite") => Meant(ReplacePrefix(v, notebooks, below))
           /\ Has(c, "data") /\ ~Has(c, "regexRewrite") => Meant(v)
PROOF
  <1>1. Has(c, "regexRewrite") => Has(c, "data")
    BY RouteFinds, ChainsShaped
  <1>2. CASE ~Has(c, "data")
    BY <1>1, <1>2
  <1>3. CASE Has(c, "data")
    <2>1. \/ IsPrefix(notebooks, e) /\ c = withRewrite
          \/ IsPrefix(<<"api", "data">>, e) /\ c = withoutRewrite
      BY <1>3, DataRoutes, RoutedBy
    <2>2. e[1] = "api" /\ ~IsPrefix(uiServer, e)
      <3>1. e[1] = "api"
        BY <2>1, Prefix2, Related
      <3>2. "api" # "ui-server"
        OBVIOUS
      <3> QED
        BY <3>1, <3>2, Related
    <2>3. /\ Intended(p) = Below(Decode(e))
          /\ \/ IsPrefix(uiNotebooks, asked)
             \/ WithoutTrailingSlash(asked) # asked
             \/ Intended(asked) = Below(e)
      BY <2>2 DEF LeadsTo
    <2>4. CASE IsPrefix(<<"api", "data">>, e) /\ c = withoutRewrite
      <3>1. ~IsPrefix(notebooks, e)
        BY <2>4, Prefix2, Related
      <3>2. ~IsPrefix(notebooks, Decode(e))
        BY <3>1, CleanPrefix, CleanPrefixes
      <3>3. Below(e) = e /\ Below(Decode(e)) = Decode(e)
        BY <3>1, <3>2 DEF Below
      <3>4. v.Path = Decode(e) /\ Escaped(v) = e
        BY ParseIs
      <3> QED
        BY <2>3, <2>4, <3>3, <3>4, DataChainsRewrite DEF Meant
    <2>5. CASE IsPrefix(notebooks, e) /\ c = withRewrite
      <3> DEFINE w == below \o From(e, 3)
      <3>1. w = Below(e) /\ Decode(w) = Below(Decode(e)) /\ w \in Url
        BY <2>5, BelowIs
      <3>2. Len(notebooks) + 1 = 3
        BY CleanPrefixes
      <3>3. ReplacePrefix(v, notebooks, below) = Parse(w)
        BY <2>5, <3>2, ReplacedIs
      <3> HIDE DEF w
      <3>4. Parse(w).Path = Decode(w) /\ Escaped(Parse(w)) = w
        BY <3>1, ParseIs
      <3>5. Meant(Parse(w))
        BY <2>3, <3>1, <3>4 DEF Meant
      <3> QED
        BY <2>5, <3>3, <3>5, DataChainsRewrite
    <2> QED
      BY <2>1, <2>4, <2>5
  <1> QED
    BY <1>2, <1>3

----------------------------------------------------------------------------
(* The trailing slash                                                       *)

LEMMA EmptyIsNoLiteral == Empty # "b" /\ Empty # Encoded /\ Empty \notin Literal
PROOF
  <1>1. Empty # "b" /\ Empty # Encoded
    BY Zenon DEF Empty, Encoded
  <1>2. Empty # "ui-server" /\ Empty # "api" /\ Empty # "auth"
    BY Zenon DEF Empty
  <1>3. Empty # "data" /\ Empty # "notebooks"
    BY Zenon DEF Empty
  <1> QED
    BY <1>1, <1>2, <1>3 DEF Literal

LEMMA AppendIs ==
    ASSUME NEW q \in Url, NEW x \in Segment
    PROVE  /\ Append(q, x) \in Url /\ Append(q, x) # <<>> /\ Append(q, x) # q
           /\ Append(q, x) = q \o <<x>> /\ <<x>> \in Url
           /\ Len(Append(q, x)) = Len(q) + 1 /\ Len(q) \in Nat
           /\ \A i \in 1..Len(q) : Append(q, x)[i] = q[i]
           /\ Append(q, x)[Len(q) + 1] = x
           /\ Last(Append(q, x)) = x /\ Front(Append(q, x)) = q
PROOF
  <1> DEFINE n == Len(q)
             more == Append(q, x)
             f == SubSeq(more, 1, n)
  <1>1. /\ more \in Url /\ Len(more) = n + 1 /\ more[n + 1] = x
        /\ \A i \in 1..n : more[i] = q[i]
        /\ more = q \o <<x>> /\ <<x>> \in Url /\ n \in Nat
    BY AppendProperties, AppendIsConcat, LenProperties DEF Url
  <1> HIDE DEF more, n
  <1>2. more # <<>> /\ more # q
    BY <1>1, EmptyPath DEF n
  <1>3. (n + 1) - 1 = n /\ Last(more) = x /\ Front(more) = f
    BY <1>1 DEF Last, Front
  <1>4. f = q
    <2>1. /\ f \in Seq(Segment) /\ Len(f) = n
          /\ \A i \in 1..n : f[i] = more[i]
      <3>1. \A i \in 1..n : more[i] \in Segment
        BY <1>1, LenProperties DEF Url, n
      <3>2. more \in Seq(Segment) /\ n <= Len(more)
        BY <1>1 DEF Url
      <3> QED
        BY <1>1, <3>1, <3>2, SubSeqProperties
    <2> HIDE DEF f
    <2>2. \A i \in 1..n : f[i] = q[i]
      BY <1>1, <2>1
    <2> QED
      BY <2>1, <2>2, SeqEqual DEF Url, n
  <1> QED
    BY <1>1, <1>2, <1>3, <1>4, Zenon DEF more, n

\* A path that ends with a slash also does so as it is written.
LEMMA Trailing ==
    ASSUME NEW raw \in Url, NEW p, p = WithoutTrailingSlash(Decode(raw))
    PROVE  /\ p \in Url /\ Plain(p) /\ Decode(p) = p
           /\ p # Decode(raw) =>
                 /\ WithoutTrailingSlash(raw) # raw /\ raw # <<>>
                 /\ Empty \in Segment /\ Decode(raw) = Append(p, Empty)
PROOF
  <1> DEFINE D == Decode(raw)
  <1>1. D \in Url /\ Plain(D)
    BY DecodeType, DecodedIsPlain
  <1>2. CASE p = D
    BY <1>1, <1>2, DecodePlain
  <1>3. CASE p # D
    <2>1. D # <<>> /\ Last(D) = Empty /\ p = Front(D)
      BY <1>3 DEF WithoutTrailingSlash
    <2>2. raw # <<>>
      BY <2>1, DecodeEmpty
    <2>3. PICK q \in Url, x \in Segment : raw = Append(q, x)
      BY <2>2, SequenceEmptyOrAppend DEF Url
    <2>4. D = Decode(q) \o Piece(x) /\ Decode(q) \in Url /\ Plain(Decode(q))
      BY <2>3, DecodeAppend, DecodeType, DecodedIsPlain
    <2>5. Append(Decode(q), "a") \in Url /\ "a" \in Segment /\ "b" \in Segment
      BY <2>4, AppendIs, RevproxyAssumption
    <2>6. x # Encoded
      <3> SUFFICES ASSUME x = Encoded
                   PROVE  FALSE
        OBVIOUS
      <3>1. Piece(x) = <<"a">> \o <<"b">>
        BY DEF Piece
      <3>2. /\ Append(Decode(q), "a") = Decode(q) \o <<"a">>
            /\ Append(Append(Decode(q), "a"), "b") = Append(Decode(q), "a") \o <<"b">>
            /\ <<"a">> \in Url /\ <<"b">> \in Url
            /\ Last(Append(Append(Decode(q), "a"), "b")) = "b"
        BY <2>4, <2>5, AppendIs
      <3>3. D = Append(Append(Decode(q), "a"), "b")
        BY <2>4, <3>1, <3>2, ConcatAssociates
      <3> QED
        BY <2>1, <3>2, <3>3, EmptyIsNoLiteral
    <2>7. D = Append(Decode(q), x)
      BY <2>4, <2>6, AppendIs DEF Piece
    <2>8. x = Empty /\ p = Decode(q)
      <3>1. Last(Append(Decode(q), x)) = x /\ Front(Append(Decode(q), x)) = Decode(q)
        BY <2>4, AppendIs
      <3> HIDE DEF D
      <3> QED
        BY <2>1, <2>7, <3>1
    <2>9. WithoutTrailingSlash(raw) = q /\ raw # q
      BY <2>2, <2>3, <2>8, AppendIs DEF WithoutTrailingSlash
    <2> QED
      BY <2>2, <2>4, <2>7, <2>8, <2>9, DecodePlain
  <1> QED
    BY <1>2, <1>3

\* What the removal leaves of a URL whose path has an encoded slash: a RawPath
\* that is by the trailing slash longer than the path.
Stale(u, p) == /\ u = [Path |-> p, RawPath |-> u.RawPath]
               /\ u.RawPath \in Url /\ u.RawPath # <<>>
               /\ Empty \in Segment /\ Decode(u.RawPath) = Append(p, Empty)

LEMMA RemovedIs ==
    ASSUME asked \in Url, NEW p, p = WithoutTrailingSlash(Decode(asked)),
           NEW u, u = RemoveTrailingSlash(Parse(asked))
    PROVE  \/ u = Parse(asked) /\ p = Decode(asked)
           \/ u = Parse(p) /\ WithoutTrailingSlash(asked) # asked
           \/ Stale(u, p) /\ WithoutTrailingSlash(asked) # asked
PROOF
  <1> DEFINE D == Decode(asked)
             R == IF D = asked THEN <<>> ELSE asked
  <1>1. u = [Path |-> p, RawPath |-> R] /\ Parse(asked) = [Path |-> D, RawPath |-> R]
    BY DEF RemoveTrailingSlash, Parse
  <1>2. CASE p = D
    BY <1>1, <1>2
  <1>3. CASE p # D
    <2>1. /\ p \in Url /\ Decode(p) = p /\ WithoutTrailingSlash(asked) # asked /\ asked # <<>>
          /\ Empty \in Segment /\ D = Append(p, Empty)
      BY <1>3, Trailing
    <2>2. CASE D = asked
      <3>1. Parse(p) = [Path |-> p, RawPath |-> <<>>] /\ R = <<>>
        BY <2>1, <2>2 DEF Parse
      <3>2. u = [Path |-> p, RawPath |-> R]
        BY <1>1
      <3> HIDE DEF D, R
      <3> QED
        BY <2>1, <3>1, <3>2
    <2>3. CASE D # asked
      <3>1. u = [Path |-> p, RawPath |-> asked]
        BY <1>1, <2>3
      <3>2. u.RawPath = asked
        BY <3>1
      <3> HIDE DEF D
      <3> QED
        BY <2>1, <3>1, <3>2 DEF Stale, D
    <2> QED
      BY <2>2, <2>3
  <1> QED
    BY <1>2, <1>3

\* A prefix of literals is one of the path without the trailing slash as well.
LEMMA StalePrefix ==
    ASSUME NEW S, NEW old \in Seq(S), Clean(old), NEW p \in Url, NEW u, Stale(u, p),
           IsPrefix(old, p)
    PROVE  /\ IsPrefix(old, u.RawPath) /\ From(u.RawPath, Len(old) + 1) \in Url
           /\ Len(Decode(From(u.RawPath, Len(old) + 1))) = Len(From(p, Len(old) + 1)) + 1
           /\ From(p, Len(old) + 1) \in Url
PROOF
  <1> DEFINE n == Len(old)
             D == Append(p, Empty)
             r == u.RawPath
  <1>1. /\ r \in Url /\ Decode(r) = D /\ D \in Url /\ Len(D) = Len(p) + 1 /\ Len(p) \in Nat
        /\ \A i \in 1..Len(p) : D[i] = p[i]
    BY AppendIs DEF Stale
  <1>2. n \in Nat /\ n <= Len(p) /\ \A i \in 1..n : old[i] = p[i]
    BY PrefixIs, LenProperties
  <1> HIDE DEF n, D, r
  <1>3. IsPrefix(old, D)
    <2>1. n <= Len(D) /\ \A i \in 1..n : old[i] = D[i]
      BY <1>1, <1>2
    <2> QED
      BY <1>1, <2>1, PrefixIs DEF n
  <1>4. IsPrefix(old, r) /\ From(r, n + 1) \in Url /\ From(D, n + 1) = Decode(From(r, n + 1))
    BY <1>1, <1>3, CleanPrefix DEF n
  <1>5. /\ Len(From(D, n + 1)) = Len(D) - n /\ Len(From(p, n + 1)) = Len(p) - n
        /\ From(p, n + 1) \in Url
    <2>1. n <= Len(D)
      BY <1>1, <1>2
    <2>2. Len(From(D, n + 1)) = Len(D) - n
      BY <1>1, <1>2, <2>1, FromIs
    <2>3. Len(From(p, n + 1)) = Len(p) - n /\ From(p, n + 1) \in Url
      BY <1>2, FromIs
    <2> QED
      BY <2>2, <2>3
  <1>6. Len(From(D, n + 1)) = Len(From(p, n + 1)) + 1
    BY <1>1, <1>2, <1>5
  <1> QED
    BY <1>4, <1>5, <1>6 DEF n, r

\* A rule makes of it what it makes of the path: the two forms do not fit, so
\* that the path counts.
LEMMA StaleRewritten ==
    ASSUME NEW S, NEW old \in Seq(S), old # <<>>, Clean(old), NEW new \in Url, Clean(new),
           NEW p \in Url, Plain(p), NEW u, Stale(u, p), IsPrefix(old, p)
    PROVE  Rewritten(u, p, old, new) = Rewritten(Parse(p), p, old, new)
PROOF
  <1> DEFINE d == From(p, Len(old) + 1)
             f == From(u.RawPath, Len(old) + 1)
             w == new \o f
  <1>1. /\ IsPrefix(old, u.RawPath) /\ f \in Url /\ d \in Url /\ u.RawPath \in Url
        /\ Len(Decode(f)) = Len(d) + 1
    BY StalePrefix DEF Stale
  <1>2. TrimPrefix(p, old) = d /\ TrimPrefix(u.RawPath, old) = f
    BY <1>1, TrimIs
  <1>3. Decode(p) = p /\ Decode(new) = new
    <2>1. Plain(new)
      BY DEF Clean, Plain
    <2> QED
      BY <2>1, DecodePlain
  <1>4. Rewritten(Parse(p), p, old, new) = Parse(new \o d)
    <2>1. IsPrefix(old, Decode(p))
      BY <1>3
    <2>2. Rewritten(Parse(p), Decode(p), old, new) = Parse(new \o From(p, Len(old) + 1))
      BY <2>1, RewrittenIs
    <2> QED
      BY <1>3, <2>2
  <1> HIDE DEF d, f
  <1>5. Decode(w) # new \o d
    <2>1. Decode(w) = new \o Decode(f) /\ Decode(f) \in Url
      BY <1>1, <1>3, DecodeConcat, DecodeType
    <2>2. Len(new \o Decode(f)) = Len(new) + Len(Decode(f)) /\ Len(new \o d) = Len(new) + Len(d)
      BY <1>1, <2>1, ConcatProperties DEF Url
    <2>3. Len(new) \in Nat /\ Len(d) \in Nat
      BY <1>1, LenProperties DEF Url
    <2> HIDE DEF w
    <2>4. Len(new \o Decode(f)) # Len(new \o d)
      BY <1>1, <2>2, <2>3
    <2> QED
      BY <2>1, <2>4
  <1>6. Escaped([Path |-> new \o d, RawPath |-> w]) = new \o d
    <2> DEFINE q == new \o d
    <2> HIDE DEF w, q
    <2>1. Decode(w) # q
      BY <1>5 DEF q
    <2>2. Escaped([Path |-> q, RawPath |-> w]) = q
      BY <2>1, EscapedOf
    <2> QED
      BY <2>2 DEF q
  <1>7. Rewritten(u, p, old, new)
          = Parse(Escaped([Path |-> new \o d, RawPath |-> w]))
    BY <1>2 DEF Rewritten
  <1> QED
    BY <1>4, <1>6, <1>7

LEMMA StaleRules ==
    ASSUME NEW p \in Url, Plain(p), NEW u, Stale(u, p)
    PROVE  \/ UiServerPathRewrite(u) = UiServerPathRewrite(Parse(p))
           \/ UiServerPathRewrite(u) = u /\ UiServerPathRewrite(Parse(p)) = Parse(p)
PROOF
  <1> DEFINE stays == \E prefix \in StaysAtUiServer : IsPrefix(prefix, p)
  <1>1. u.Path = p /\ Parse(p).Path = p
    BY ParseIs, DecodePlain DEF Stale
  <1>2. IsPrefix(uiApi, p) \/ IsPrefix(uiAuth, p) => IsPrefix(uiServer, p)
    BY Related
  <1>3. CASE stays
    BY <1>1, <1>3, RulesAre
  <1>4. CASE ~stays /\ IsPrefix(uiAuth, p)
    <2>1. Rewritten(u, p, uiServer, <<"api">>) = Rewritten(Parse(p), p, uiServer, <<"api">>)
      BY <1>2, <1>4, StaleRewritten, CleanPrefixes, NewPrefixes
    <2>2. /\ UiServerPathRewrite(u) = Rewritten(u, p, uiServer, <<"api">>)
          /\ UiServerPathRewrite(Parse(p)) = Rewritten(Parse(p), p, uiServer, <<"api">>)
      BY <1>1, <1>4, RulesAre
    <2> QED
      BY <2>1, <2>2
  <1>5. CASE ~stays /\ IsPrefix(uiNotebooks, p)
    <2>1. Rewritten(u, p, uiNotebooks, below) = Rewritten(Parse(p), p, uiNotebooks, below)
      BY <1>5, StaleRewritten, CleanPrefixes, NewPrefixes
    <2>2. /\ UiServerPathRewrite(u)
               = Rewritten(Rewritten(u, p, uiNotebooks, below), p, uiServer, <<>>)
          /\ UiServerPathRewrite(Parse(p))
               = Rewritten(Rewritten(Parse(p), p, uiNotebooks, below), p, uiServer, <<>>)
      BY <1>1, <1>5, RulesAre
    <2> QED
      BY <2>1, <2>2
  <1>6. CASE ~stays /\ IsPrefix(uiApi, p) /\ ~IsPrefix(uiNotebooks, p)
    <2>1. Rewritten(u, p, uiServer, <<>>) = Rewritten(Parse(p), p, uiServer, <<>>)
      BY <1>2, <1>6, StaleRewritten, CleanPrefixes, NewPrefixes
    <2>2. /\ UiServerPathRewrite(u) = Rewritten(u, p, uiServer, <<>>)
          /\ UiServerPathRewrite(Parse(p)) = Rewritten(Parse(p), p, uiServer, <<>>)
      BY <1>1, <1>6, RulesAre
    <2> QED
      BY <2>1, <2>2
  <1>7. CASE ~stays /\ ~IsPrefix(uiApi, p) /\ ~IsPrefix(uiAuth, p)
    BY <1>1, <1>7, RulesAre
  <1> QED
    BY <1>3, <1>4, <1>5, <1>6, <1>7

\* A URL that no rule applies to goes by its RawPath to the same route, as a
\* trailing slash makes no difference to the prefix, and arrives as its path.
LEMMA RoutedStale ==
    ASSUME NEW p \in Url, Plain(p), p = WithoutTrailingSlash(Decode(asked)),
           WithoutTrailingSlash(asked) # asked, LeadsTo(p, p),
           NEW u, Stale(u, p), NEW c, c = Route(u)
    PROVE  /\ Has(c, "regexRewrite") => Meant(ReplacePrefix(u, notebooks, below))
           /\ Has(c, "data") /\ ~Has(c, "regexRewrite") => Meant(u)
PROOF
  <1> DEFINE D == Append(p, Empty)
             r == u.RawPath
  <1>1. /\ r \in Url /\ r # <<>> /\ Decode(r) = D /\ u.Path = p /\ D # p
        /\ D \in Url /\ Len(D) = Len(p) + 1 /\ Len(p) \in Nat
        /\ D[Len(p) + 1] = Empty /\ \A i \in 1..Len(p) : D[i] = p[i]
    <2>1. r \in Url /\ r # <<>> /\ Decode(r) = D /\ u.Path = p /\ Empty \in Segment
      BY DEF Stale
    <2>2. /\ D \in Url /\ Len(D) = Len(p) + 1 /\ Len(p) \in Nat /\ D # p
          /\ D[Len(p) + 1] = Empty /\ \A i \in 1..Len(p) : D[i] = p[i]
      BY <2>1, AppendIs
    <2> HIDE DEF D, r
    <2> QED
      BY <2>1, <2>2
  <1>2. Decode(p) = p
    BY DecodePlain
  <1> HIDE DEF D, r
  <1>3. Has(c, "regexRewrite") => Has(c, "data")
    BY RouteFinds, ChainsShaped
  <1>4. CASE ~Has(c, "data")
    BY <1>3, <1>4
  <1>5. CASE Has(c, "data")
    <2>1. \/ IsPrefix(notebooks, r) /\ c = withRewrite
          \/ IsPrefix(<<"api", "data">>, r) /\ c = withoutRewrite
      <3>1. r = IF u.RawPath = <<>> THEN u.Path ELSE u.RawPath
        BY <1>1 DEF r
      <3> QED
        BY <1>5, <3>1, DataRoutes
    <2>2. ASSUME NEW x, x \in {"notebooks", "data"},
                 Len(D) >= 2 /\ D[1] = "api" /\ D[2] = x
          PROVE  Len(p) >= 2 /\ p[1] = "api" /\ p[2] = x
      <3>1. x # Empty
        <4>1. "notebooks" \in Literal /\ "data" \in Literal
          BY DEF Literal
        <4> QED
          BY <2>2, <4>1, EmptyIsNoLiteral
      <3>2. Len(p) # 1
        <4>1. Len(p) = 1 => D[2] = Empty
          BY <1>1
        <4>2. D[2] = x
          BY <2>2
        <4> QED
          BY <3>1, <4>1, <4>2
      <3>3. Len(p) >= 2 /\ 1 \in 1..Len(p) /\ 2 \in 1..Len(p)
        <4>1. Len(D) = Len(p) + 1 /\ Len(p) \in Nat
          BY <1>1
        <4>2. Len(D) >= 2
          BY <2>2
        <4> QED
          BY <3>2, <4>1, <4>2
      <3> QED
        BY <1>1, <2>2, <3>3
    <2>3. LeadsTo(p, p) /\ p[1] = "api" => Intended(p) = Below(p)
      <3>1. "api" # "ui-server"
        OBVIOUS
      <3> QED
        BY <1>2, <3>1, Related DEF LeadsTo
    <2>4. CASE IsPrefix(<<"api", "data">>, r) /\ c = withoutRewrite
      <3>1. IsPrefix(<<"api", "data">>, D)
        <4>1. <<"api", "data">> \in Seq(Segment) /\ Clean(<<"api", "data">>)
          BY NewPrefixes DEF Url
        <4> QED
          BY <1>1, <2>4, <4>1, CleanPrefix
      <3>2. Len(p) >= 2 /\ p[1] = "api" /\ p[2] = "data"
        BY <1>1, <2>2, <3>1, Prefix2
      <3>3. Below(p) = p
        <4>1. "data" # "notebooks"
          OBVIOUS
        <4> QED
          BY <3>2, <4>1, Related DEF Below
      <3> QED
        BY <1>1, <2>3, <2>4, <3>2, <3>3, DataChainsRewrite DEF Meant
    <2>5. CASE IsPrefix(notebooks, r) /\ c = withRewrite
      <3> DEFINE w == below \o From(p, 3)
      <3>1. IsPrefix(notebooks, D)
        BY <1>1, <2>5, CleanPrefix, CleanPrefixes
      <3>2. p[1] = "api" /\ IsPrefix(notebooks, p)
        BY <1>1, <2>2, <3>1, Related
      <3>3. w \in Url /\ Decode(w) = Below(p)
        BY <1>2, <3>2, BelowIs
      <3>4. Escaped(u) = p
        BY <1>1 DEF Escaped, r
      <3>5. ReplacePrefix(u, notebooks, below) = Parse(w)
        <4>1. Len(notebooks) + 1 = 3
          BY CleanPrefixes
        <4> QED
          BY <3>2, <3>4, <4>1 DEF ReplacePrefix
      <3> HIDE DEF w
      <3>6. Parse(w).Path = Decode(w)
        BY <3>3, ParseIs
      <3>7. Meant(Parse(w))
        BY <2>3, <3>2, <3>3, <3>6 DEF Meant
      <3> QED
        BY <2>5, <3>5, <3>7, DataChainsRewrite
    <2> QED
      BY <2>1, <2>4, <2>5
  <1> QED
    BY <1>4, <1>5

\* The URL that the middlewares before the router leave, on a route to the data
\* service.
LEMMA RoutedWell ==
    ASSUME asked \in Url, NEW v, v = UiServerPathRewrite(RemoveTrailingSlash(Parse(asked))),
           NEW c, c = Route(v)
    PROVE  /\ v \in [Path : Url, RawPath : Url]
           /\ Has(c, "regexRewrite") => Meant(ReplacePrefix(v, notebooks, below))
           /\ Has(c, "data") /\ ~Has(c, "regexRewrite") => Meant(v)
PROOF
  <1> DEFINE p == WithoutTrailingSlash(Decode(asked))
             u == RemoveTrailingSlash(Parse(asked))
  <1>1. p \in Url /\ Plain(p) /\ Decode(p) = p
    BY Trailing
  <1>2. \/ u = Parse(asked) /\ p = Decode(asked)
        \/ u = Parse(p) /\ WithoutTrailingSlash(asked) # asked
        \/ Stale(u, p) /\ WithoutTrailingSlash(asked) # asked
    BY RemovedIs
  <1>3. v = UiServerPathRewrite(u)
    OBVIOUS
  <1>4. ASSUME NEW e \in Url, v = Parse(e), LeadsTo(p, e)
        PROVE  /\ v \in [Path : Url, RawPath : Url]
               /\ Has(c, "regexRewrite") => Meant(ReplacePrefix(v, notebooks, below))
               /\ Has(c, "data") /\ ~Has(c, "regexRewrite") => Meant(v)
    <2>1. v \in [Path : Url, RawPath : Url]
      BY <1>4, ParseIs
    <2> QED
      BY <1>4, <2>1, RoutedParsed
  <1>5. WithoutTrailingSlash(asked) # asked =>
           \E e \in Url : UiServerPathRewrite(Parse(p)) = Parse(e) /\ LeadsTo(p, e)
    <2> HIDE DEF p
    <2> QED
      BY <1>1, RewriteIs DEF LeadsTo
  <1> HIDE DEF p, u
  <1>6. CASE u = Parse(asked) /\ p = Decode(asked)
    <2>1. PICK e \in Url : UiServerPathRewrite(Parse(asked)) = Parse(e) /\ LeadsTo(p, e)
      BY <1>6, RewriteIs DEF LeadsTo
    <2>2. v = Parse(e)
      BY <1>3, <1>6, <2>1
    <2> QED
      BY <1>4, <2>1, <2>2
  <1>7. CASE u = Parse(p) /\ WithoutTrailingSlash(asked) # asked
    <2>1. PICK e \in Url : UiServerPathRewrite(Parse(p)) = Parse(e) /\ LeadsTo(p, e)
      BY <1>5, <1>7
    <2>2. v = Parse(e)
      BY <1>3, <1>7, <2>1
    <2> QED
      BY <1>4, <2>1, <2>2
  <1>8. CASE Stale(u, p) /\ WithoutTrailingSlash(asked) # asked
    <2>1. PICK e \in Url : UiServerPathRewrite(Parse(p)) = Parse(e) /\ LeadsTo(p, e)
      BY <1>5, <1>8
    <2>2. CASE v = UiServerPathRewrite(Parse(p))
      BY <1>4, <2>1, <2>2
    <2>3. CASE v = u /\ UiServerPathRewrite(Parse(p)) = Parse(p)
      <3>1. e = p
        <4>1. Escaped(Parse(e)) = e /\ Escaped(Parse(p)) = p
          BY <1>1, ParseIs
        <4> QED
          BY <2>1, <2>3, <4>1
      <3>2. v \in [Path : Url, RawPath : Url]
        BY <1>1, <1>8, <2>3 DEF Stale
      <3>3. LeadsTo(p, p)
        BY <2>1, <3>1
      <3> QED
        BY <1>1, <1>8, <2>3, <3>2, <3>3, RoutedStale DEF p
    <2> QED
      BY <1>1, <1>3, <1>8, <2>2, <2>3, StaleRules
  <1> QED
    BY <1>2, <1>6, <1>7, <1>8

----------------------------------------------------------------------------
(* The steps                                                                *)

\* The request has not been routed yet, or is on its way: the URL is the one
\* that is meant as soon as no middleware is left that rewrites it.
OnTheWay ==
    /\ Shape(chain)
    /\ Has(chain, "regexRewrite") => Meant(ReplacePrefix(url, notebooks, below))
    /\ Has(chain, "data") /\ ~Has(chain, "regexRewrite") => Meant(url)
    /\ served = "data" => Meant(url)

PathInv ==
    /\ asked \in Requested
    /\ url \in [Path : Url, RawPath : Url]
    /\ \/ chain = <<"UiServerPathRewrite">> /\ url = Parse(asked) /\ served = ""
       \/ OnTheWay

\* Once a middleware is to run that is not the first, the request is on its way.
LEMMA UnderWay ==
    ASSUME HeaderInv, PathInv, chain # <<>>
    PROVE  /\ chain \in Seq(Middleware) /\ served = ""
           /\ Head(chain) = "UiServerPathRewrite" => url = Parse(asked)
           /\ Head(chain) # "UiServerPathRewrite" => OnTheWay
PROOF
  <1>1. chain \in Seq(Middleware) /\ served = ""
    BY DEF HeaderInv, TypeInv, ChainInv
  <1>2. Head(<<"UiServerPathRewrite">>) = "UiServerPathRewrite"
    OBVIOUS
  <1>3. OnTheWay => Head(chain) # "UiServerPathRewrite"
    BY <1>1, TailShaped DEF OnTheWay, Shape
  <1>4. \/ chain = <<"UiServerPathRewrite">> /\ url = Parse(asked)
        \/ OnTheWay
    BY DEF PathInv
  <1>5. CASE chain = <<"UiServerPathRewrite">> /\ url = Parse(asked)
    <2>1. Head(chain) = "UiServerPathRewrite"
      BY <1>2, <1>5
    <2> QED
      BY <1>1, <1>5, <2>1
  <1>6. CASE OnTheWay
    BY <1>1, <1>3, <1>6
  <1> QED
    BY <1>4, <1>5, <1>6

LEMMA RewritePathArrives ==
    ASSUME HeaderInv, PathInv, RewritePath
    PROVE  PathInv'
PROOF
  <1>1. /\ chain # <<>> /\ Head(chain) = "UiServerPathRewrite"
        /\ url' = UiServerPathRewrite(RemoveTrailingSlash(url)) /\ chain' = Route(url')
        /\ asked' = asked /\ served' = served
    BY DEF RewritePath, Runs, request, response
  <1>2. url = Parse(asked) /\ served = "" /\ asked \in Requested
    BY <1>1, UnderWay DEF PathInv
  <1>3. asked \in Url
    BY <1>2, RevproxyAssumption DEF Url
  <1>4. Shape(chain')
    BY <1>1, RouteFinds, ChainsShaped
  <1>5. /\ url' \in [Path : Url, RawPath : Url]
        /\ Has(chain', "regexRewrite") => Meant(ReplacePrefix(url', notebooks, below))
        /\ Has(chain', "data") /\ ~Has(chain', "regexRewrite") => Meant(url')
    BY <1>1, <1>2, <1>3, RoutedWell
  <1>6. \A u : Meant(u)' <=> Meant(u)
    BY <1>1 DEF Meant
  <1> QED
    BY <1>1, <1>2, <1>4, <1>5, <1>6 DEF PathInv, OnTheWay, Meant

\* A middleware that leaves the URL alone.
LEMMA ContinueArrives ==
    ASSUME HeaderInv, PathInv, chain # <<>>, Continue, UNCHANGED <<asked, url, served>>,
           Head(chain) \notin {"UiServerPathRewrite", "regexRewrite"}
    PROVE  PathInv'
PROOF
  <1>1. chain \in Seq(Middleware) /\ served = "" /\ OnTheWay /\ chain' = Tail(chain)
    BY UnderWay DEF Continue
  <1>2. /\ Shape(chain')
        /\ Has(chain', "data") => Has(chain, "data")
        /\ Has(chain', "regexRewrite") <=> Has(chain, "regexRewrite")
    BY <1>1, TailShaped DEF OnTheWay
  <1> QED
    BY <1>1, <1>2 DEF PathInv, OnTheWay, Meant

\* What is rewritten in a route is a URL again.
LEMMA ReplacedType ==
    ASSUME NEW u \in [Path : Url, RawPath : Url],
           NEW S, NEW old \in Seq(S), NEW new \in Url
    PROVE  ReplacePrefix(u, old, new) \in [Path : Url, RawPath : Url]
PROOF
  <1> DEFINE raw == Escaped(u)
  <1>1. raw \in Url
    BY DEF Escaped
  <1> HIDE DEF raw
  <1>2. CASE IsPrefix(old, raw)
    <2>1. From(raw, Len(old) + 1) \in Url
      BY <1>1, <1>2, Remainder
    <2>2. new \o From(raw, Len(old) + 1) \in Url
      BY <2>1, FromConcat
    <2>3. ReplacePrefix(u, old, new) = Parse(new \o From(raw, Len(old) + 1))
      BY <1>2 DEF ReplacePrefix, raw
    <2> QED
      BY <2>2, <2>3, ParseIs
  <1>3. CASE ~IsPrefix(old, raw)
    BY <1>3 DEF ReplacePrefix, raw
  <1> QED
    BY <1>2, <1>3

LEMMA RewriteNotebooksArrives ==
    ASSUME HeaderInv, PathInv, RewriteNotebooks
    PROVE  PathInv'
PROOF
  <1>1. /\ chain # <<>> /\ Head(chain) = "regexRewrite" /\ chain' = Tail(chain)
        /\ url' = ReplacePrefix(url, notebooks, below)
        /\ asked' = asked /\ served' = served
    BY DEF RewriteNotebooks, Runs, Continue, request, response, notebooks, below
  <1>2. chain \in Seq(Middleware) /\ served = "" /\ OnTheWay
    BY <1>1, UnderWay
  <1>3. Shape(chain') /\ ~Has(chain', "regexRewrite") /\ Has(chain, "regexRewrite")
    BY <1>1, <1>2, TailShaped DEF OnTheWay
  <1>4. Meant(url')
    BY <1>1, <1>2, <1>3 DEF OnTheWay
  <1>5. url' \in [Path : Url, RawPath : Url]
    <2>1. url \in [Path : Url, RawPath : Url]
      BY DEF PathInv
    <2>2. notebooks \in Seq(Literal) /\ below \in Url
      BY NewPrefixes, CleanPrefixes
    <2> QED
      BY <1>1, <2>1, <2>2, ReplacedType
  <1> QED
    BY <1>1, <1>2, <1>3, <1>4, <1>5 DEF PathInv, OnTheWay, Meant

LEMMA StripKcArrives ==
    ASSUME HeaderInv, PathInv, StripKc
    PROVE  PathInv'
PROOF
  <1>1. /\ chain # <<>> /\ Head(chain) = "stripPrefix" /\ chain' = Tail(chain)
        /\ url' = ReplacePrefix(url, <<"api", "kc">>, <<>>)
        /\ asked' = asked /\ served' = served
    BY DEF StripKc, Runs, Continue, request, response
  <1>2. chain \in Seq(Middleware) /\ served = "" /\ OnTheWay
    BY <1>1, UnderWay
  <1>3. Shape(chain') /\ ~Has(chain', "regexRewrite") /\ ~Has(chain', "data")
    BY <1>1, <1>2, TailShaped DEF OnTheWay, Shape
  <1>4. <<"api", "kc">> \in Seq({"api", "kc"})
    OBVIOUS
  <1>5. url' \in [Path : Url, RawPath : Url]
    <2> DEFINE old == <<"api", "kc">>
    <2>1. url \in [Path : Url, RawPath : Url] /\ <<>> \in Url /\ old \in Seq({"api", "kc"})
      BY <1>4, NewPrefixes DEF PathInv
    <2>2. url' = ReplacePrefix(url, old, <<>>)
      BY <1>1
    <2> HIDE DEF old
    <2> QED
      BY <2>1, <2>2, ReplacedType
  <1> QED
    BY <1>1, <1>2, <1>3, <1>5 DEF PathInv, OnTheWay

LEMMA ServeArrives ==
    ASSUME HeaderInv, PathInv, Serve
    PROVE  PathInv'
PROOF
  <1>1. /\ chain # <<>> /\ served' = Head(chain) /\ chain' = <<>> /\ Head(chain) \in Ends
        /\ asked' = asked /\ url' = url
    BY DEF Serve, request
  <1>2. chain \in Seq(Middleware) /\ OnTheWay
    <2>1. Head(chain) # "UiServerPathRewrite"
      BY <1>1 DEF Ends, Services
    <2> QED
      BY <1>1, <2>1, UnderWay
  <1>3. served' = "data" => Meant(url)
    BY <1>1, <1>2, TailShaped DEF OnTheWay
  <1>4. Shape(<<>>) /\ \A name : ~Has(<<>>, name)
    <2>1. Len(<<>>) = 0 /\ \A i : i \notin 1..0
      BY EmptyPath
    <2> QED
      BY <2>1 DEF Shape, Has
  <1> QED
    BY <1>1, <1>3, <1>4 DEF PathInv, OnTheWay, Meant

\* A request that ends with an error has not been served.
LEMMA CreateFailsArrives ==
    ASSUME HeaderInv, PathInv, CreateFails
    PROVE  PathInv'
PROOF
  <1>1. chain' = <<>> /\ served' = "error" /\ asked' = asked /\ url' = url
    BY DEF CreateFails, request
  <1>2. Shape(<<>>) /\ \A name : ~Has(<<>>, name)
    <2>1. Len(<<>>) = 0 /\ \A i : i \notin 1..0
      BY EmptyPath
    <2> QED
      BY <2>1 DEF Shape, Has
  <1> QED
    BY <1>1, <1>2 DEF PathInv, OnTheWay, Meant

LEMMA QuietArrives ==
    ASSUME PathInv, UNCHANGED <<asked, url, chain, served>>
    PROVE  PathInv'
  BY DEF PathInv, OnTheWay, Meant

LEMMA NextPaths == HeaderInv /\ PathInv /\ [Next]_vars => PathInv'
PROOF
  <1> SUFFICES ASSUME HeaderInv, PathInv, [Next]_vars
               PROVE  PathInv'
    OBVIOUS
  <1>1. CASE RewritePath
    BY <1>1, RewritePathArrives
  <1>2. CASE LoadSession \/ RenkuAccessToken \/ RenkuRefreshToken \/ GitlabAccessToken
    <2>1. \/ Runs("session") \/ Runs("renkuAccessToken")
          \/ Runs("notebooksRenkuRefreshToken") \/ Runs("dataGitlabAccessToken")
      BY <1>2 DEF LoadSession, RenkuAccessToken, RenkuRefreshToken, GitlabAccessToken, Inject
    <2>2. Continue /\ UNCHANGED <<asked, url, served>>
      BY <1>2 DEF LoadSession, RenkuAccessToken, RenkuRefreshToken, GitlabAccessToken, Inject,
                  request, response
    <2> QED
      BY <2>1, <2>2, ContinueArrives DEF Runs
  <1>3. CASE EnsureSession \/ AnonymousID
    <2>1. Runs("ensureSession") \/ Runs("notebooksAnonymousID")
      BY <1>3 DEF EnsureSession, AnonymousID
    <2>2. Continue /\ UNCHANGED <<asked, url, served>>
      BY <1>3 DEF EnsureSession, AnonymousID, request
    <2> QED
      BY <2>1, <2>2, ContinueArrives DEF Runs
  <1>4. CASE RewriteNotebooks
    BY <1>4, RewriteNotebooksArrives
  <1>5. CASE StripKc
    BY <1>5, StripKcArrives
  <1>6. CASE Serve
    BY <1>6, ServeArrives
  <1>7. CASE SessionExpires
    BY <1>7, QuietArrives DEF SessionExpires, request, response
  <1>8. CASE \E kind \in Kind : TokenExpires(kind)
    BY <1>8, QuietArrives DEF TokenExpires, request, response
  <1>9. CASE CreateFails
    BY <1>9, CreateFailsArrives
  <1>10. CASE UNCHANGED vars
    BY <1>10, QuietArrives DEF vars
  <1> QED
    BY <1>1, <1>2, <1>3, <1>4, <1>5, <1>6, <1>7, <1>8, <1>9, <1>10 DEF Next

LEMMA InitPaths == Init => PathInv
PROOF
  <1> SUFFICES ASSUME Init
               PROVE  PathInv
    OBVIOUS
  <1>1. asked \in Requested /\ url = Parse(asked) /\ served = ""
        /\ chain = <<"UiServerPathRewrite">>
    BY DEF Init
  <1>2. asked \in Url
    BY <1>1, RevproxyAssumption DEF Url
  <1> QED
    BY <1>1, <1>2, ParseIs DEF PathInv

LEMMA PathInvariance == Spec => [](HeaderInv /\ PathInv)
PROOF
  <1>1. Init => PathInv
    BY InitPaths
  <1>2. HeaderInv /\ PathInv /\ [Next]_vars => PathInv'
    BY NextPaths
  <1> QED
    BY <1>1, <1>2, HeaderInvariance, PTL DEF Spec

(* Every value of the model stays in its type: in particular the URL is a    *)
(* path and an escaped path of segments whatever rules rewrote it            *)
(* (middlewares.go:65-118), and only middlewares of RegisterHandlers wait to *)
(* be run (RegisterHandlers, main.go:33-92).                                 *)
THEOREM RevproxyTypeCorrect == Spec => []TypeOK
<1>1. HeaderInv /\ PathInv => TypeOK
  <2> SUFFICES ASSUME HeaderInv, PathInv
               PROVE  TypeOK
    OBVIOUS
  <2>1. url \in [Path : Seq(Segment), RawPath : Seq(Segment)]
    BY DEF PathInv, Url
  <2> QED
    BY <2>1 DEF HeaderInv, TypeInv, PathInv, TypeOK, Header, Auth
<1>2. QED
  BY <1>1, PathInvariance, PTL

(* A request of any path, of any length, that reaches the data service gets *)
(* there with the path that is meant, without a trailing slash: its removal, *)
(* the rules for the UI server, the choice of the route and the rewriting in *)
(* the route agree, although the removal leaves the escaped path as it was   *)
(* (src/cmd/gateway/main.go:70, middlewares.go:65-118, main.go:61).          *)
THEOREM DataServicePathAlways == Spec => []DataServicePath
<1>1. HeaderInv /\ PathInv => DataServicePath
  BY DEF PathInv, OnTheWay, Meant, DataServicePath
<1>2. QED
  BY <1>1, PathInvariance, PTL

(* Its escaped path is the one that was asked for as well, with every        *)
(* encoded slash, if there was no trailing slash to be removed and the path  *)
(* is not below /ui-server/api/notebooks (src/cmd/gateway/main.go:70,        *)
(* middlewares.go:93-118, main_test.go:475-478).                             *)
THEOREM EncodingKeptAlways == Spec => []EncodingKept
<1>1. HeaderInv /\ PathInv => EncodingKept
  BY DEF PathInv, OnTheWay, Meant, EncodingKept, uiNotebooks
<1>2. QED
  BY <1>1, PathInvariance, PTL
=============================================================================
