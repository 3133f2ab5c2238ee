------------------------- MODULE SpecExchangeProofs -------------------------
(***************************************************************************)
(* That a collection just imported is served, and its requests accepted,   *)
(* for any collections, environments, documents and tables.                *)
(***************************************************************************)
EXTENDS SpecExchange, FiniteSetTheorems, SequenceTheorems, WellFoundedInduction, TLAPS

-----------------------------------------------------------------------------
(* Induction over numbers and over sequences, for sets.                    *)

LEMMA AllNumbers ==
  ASSUME NEW S \in SUBSET Nat, 0 \in S, \A n \in S : n + 1 \in S
  PROVE  S = Nat
<1> DEFINE Less == OpToRel(<, Nat)
           T == Nat \ S
<1>1. IsWellFoundedOn(Less, Nat)
  BY NatLessThanWellFounded, Zenon
<1>2. \A y \in Nat, z \in Nat : y < z => <<y, z>> \in Less
  BY DEF OpToRel
<1> HIDE DEF Less
<1>3. SUFFICES ASSUME T # {} PROVE FALSE
  OBVIOUS
<1>4. PICK m \in T : \A y \in T : <<y, m>> \notin Less
  BY <1>1, <1>3, WFMin
<1>5. m \in Nat \ {0} /\ m - 1 \in Nat /\ m - 1 < m
  BY <1>4
<1>6. m - 1 \notin T
  BY <1>2, <1>4, <1>5
<1>7. m - 1 \in S
  BY <1>5, <1>6
<1>8. (m - 1) + 1 \in S
  BY <1>7
<1> QED BY <1>4, <1>5, <1>8

LEMMA UpTo ==
  ASSUME NEW N \in Nat, NEW S, 0 \in S, \A n \in 1..N : n - 1 \in S => n \in S
  PROVE  0..N \subseteq S
<1> DEFINE T == {n \in Nat : n <= N => n \in S}
<1>1. 0 \in T
  OBVIOUS
<1>2. ASSUME NEW n \in T PROVE n + 1 \in T
  BY <1>2
<1>3. T = Nat
  <2> HIDE DEF T
  <2>1. T \in SUBSET Nat
    BY DEF T
  <2> QED BY <1>1, <1>2, <2>1, AllNumbers
<1> QED BY <1>3

LEMMA AllSequences ==
  ASSUME NEW A, NEW S \in SUBSET Seq(A), <<>> \in S,
         \A s \in S, x \in A : Append(s, x) \in S
  PROVE  S = Seq(A)
<1> DEFINE T == {n \in Nat : \A s \in Seq(A) : Len(s) = n => s \in S}
<1>1. 0 \in T
  <2>1. \A s \in Seq(A) : Len(s) = 0 => s = <<>>
    OBVIOUS
  <2> QED BY <2>1
<1>2. ASSUME NEW n \in T PROVE n + 1 \in T
  <2>1. ASSUME NEW s \in Seq(A), Len(s) = n + 1 PROVE s \in S
    <3> DEFINE front == SubSeq(s, 1, n)
    <3>1. front \in Seq(A) /\ Len(front) = n /\ s[n + 1] \in A
      BY <2>1
    <3>2. s = Append(front, s[n + 1])
      <4>1. /\ Append(front, s[n + 1]) \in Seq(A)
            /\ Len(Append(front, s[n + 1])) = Len(s)
        BY <2>1, <3>1
      <4>2. \A i \in 1..Len(s) : Append(front, s[n + 1])[i] = s[i]
        BY <2>1, <3>1
      <4> QED BY <4>1, <4>2, SeqEqual
    <3> QED BY <1>2, <3>1, <3>2
  <2> QED BY <1>2, <2>1
<1>3. T = Nat
  <2> HIDE DEF T
  <2>1. T \in SUBSET Nat
    BY DEF T
  <2> QED BY <1>1, <1>2, <2>1, AllNumbers
<1>4. \A s \in Seq(A) : Len(s) \in Nat
  OBVIOUS
<1> QED BY <1>3, <1>4

-----------------------------------------------------------------------------
(* FlattenSeq, which a sequence of sequences makes one.                    *)

Flattens(f, ss, n) ==
  f = [i \in 1..n |-> IF i = 1 THEN ss[i] ELSE f[i - 1] \o ss[i]]

LEMMA FlattenExists ==
  ASSUME NEW A, NEW ss \in Seq(Seq(A)), NEW n \in 0..Len(ss)
  PROVE  \E f \in [1..n -> Seq(A)] : Flattens(f, ss, n)
<1> DEFINE S == {k \in 0..Len(ss) : \E f \in [1..k -> Seq(A)] : Flattens(f, ss, k)}
<1> Len(ss) \in Nat
  OBVIOUS
<1>1. 0 \in S
  <2> DEFINE e == [i \in {} |-> <<>>]
  <2>1. 1..0 = {} /\ 0 \in 0..Len(ss)
    OBVIOUS
  <2>2. e \in [1..0 -> Seq(A)]
    BY <2>1
  <2>3. e = [i \in 1..0 |-> IF i = 1 THEN ss[i] ELSE e[i - 1] \o ss[i]]
    BY <2>1
  <2> HIDE DEF e
  <2>4. Flattens(e, ss, 0)
    BY <2>3 DEF Flattens
  <2> QED BY <2>1, <2>2, <2>4, Zenon
<1>2. ASSUME NEW k \in 1..Len(ss), k - 1 \in S PROVE k \in S
  <2>1. PICK f \in [1..k - 1 -> Seq(A)] : Flattens(f, ss, k - 1)
    BY <1>2
  <2>2. ss[k] \in Seq(A) /\ (k # 1 => f[k - 1] \in Seq(A))
    OBVIOUS
  <2> DEFINE last == IF k = 1 THEN ss[k] ELSE f[k - 1] \o ss[k]
             g == [i \in 1..k |-> IF i = k THEN last ELSE f[i]]
  <2>3. last \in Seq(A)
    BY <2>2
  <2>4. g \in [1..k -> Seq(A)]
    <3> HIDE DEF last
    <3> QED BY <2>3
  <2>5. \A i \in 1..k : g[i] = IF i = 1 THEN ss[i] ELSE g[i - 1] \o ss[i]
    <3>1. g[k] = IF k = 1 THEN ss[k] ELSE g[k - 1] \o ss[k]
      OBVIOUS
    <3>2. ASSUME NEW i \in 1..k - 1 PROVE g[i] = IF i = 1 THEN ss[i] ELSE g[i - 1] \o ss[i]
      <4>1. f[i] = IF i = 1 THEN ss[i] ELSE f[i - 1] \o ss[i]
        BY <2>1, Zenon DEF Flattens
      <4>2. g[i] = f[i] /\ (i # 1 => g[i - 1] = f[i - 1])
        <5> HIDE DEF last
        <5>1. i \in 1..k /\ i # k /\ (i # 1 => i - 1 \in 1..k /\ i - 1 # k)
          OBVIOUS
        <5> QED BY <5>1
      <4> HIDE DEF g
      <4> QED BY <4>1, <4>2
    <3> HIDE DEF g
    <3> QED BY <3>1, <3>2
  <2>6. Flattens(g, ss, k)
    <3> HIDE DEF g
    <3> QED BY <2>4, <2>5 DEF Flattens
  <2> HIDE DEF g
  <2> QED BY <2>4, <2>6
<1>3. 0..Len(ss) \subseteq S
  <2> HIDE DEF S
  <2> QED BY <1>1, <1>2, UpTo
<1> QED BY <1>3

Agree(f, g, n) == \A i \in 1..n : f[i] = g[i]

LEMMA FlattenAgrees ==
  ASSUME NEW ss, NEW tt, NEW m \in Nat, NEW n \in Nat, NEW f, NEW g,
         Flattens(f, ss, m), Flattens(g, tt, n), m <= n, Agree(ss, tt, m)
  PROVE  Agree(f, g, m)
<1> DEFINE S == {k \in 0..m : k # 0 => f[k] = g[k]}
<1>1. ASSUME NEW k \in 1..m, k - 1 \in S PROVE k \in S
  <2>1. f[k] = IF k = 1 THEN ss[k] ELSE f[k - 1] \o ss[k]
    BY Zenon DEF Flattens
  <2>2. k \in 1..n
    OBVIOUS
  <2>3. g[k] = IF k = 1 THEN tt[k] ELSE g[k - 1] \o tt[k]
    BY <2>2, Zenon DEF Flattens
  <2>4. k # 1 => f[k - 1] = g[k - 1]
    BY <1>1
  <2>5. f[k] = g[k]
    BY <2>1, <2>3, <2>4 DEF Agree
  <2> QED BY <2>5
<1>2. 0..m \subseteq S
  <2>1. 0 \in S
    OBVIOUS
  <2> HIDE DEF S
  <2> QED BY <1>1, <2>1, UpTo
<1> QED BY <1>2 DEF Agree

LEMMA FlattenIs ==
  ASSUME NEW A, NEW ss \in Seq(Seq(A)), NEW f, Flattens(f, ss, Len(ss)), ss # <<>>
  PROVE  FlattenSeq(ss) = f[Len(ss)]
<1> DEFINE F == CHOOSE g : Flattens(g, ss, Len(ss))
<1>1. FlattenSeq(ss) = F[Len(ss)]
  BY DEF FlattenSeq, Flattens
<1>2. Flattens(F, ss, Len(ss))
  BY Zenon
<1> HIDE DEF F
<1>3. Agree(ss, ss, Len(ss)) /\ Len(ss) \in Nat /\ Len(ss) <= Len(ss) /\ Len(ss) \in 1..Len(ss)
  BY DEF Agree
<1>4. Agree(f, F, Len(ss))
  BY <1>2, <1>3, FlattenAgrees
<1> QED BY <1>1, <1>3, <1>4 DEF Agree

LEMMA FlattenEmpty == FlattenSeq(<<>>) = <<>>
BY DEF FlattenSeq

LEMMA FlattenLast ==
  ASSUME NEW A, NEW ss \in Seq(Seq(A)), NEW tt \in Seq(Seq(A)),
         NEW n \in Nat, NEW k \in Nat, n = Len(ss), k = Len(tt), k = n + 1, Agree(ss, tt, n)
  PROVE  /\ FlattenSeq(ss) \in Seq(A)
         /\ FlattenSeq(tt) = FlattenSeq(ss) \o tt[k]
<1>0. k \in 0..Len(tt) /\ k \in 1..k /\ n <= k /\ n \in 0..Len(ss)
  OBVIOUS
<1>1. k \in 0..Len(tt) /\ k \in 1..k /\ n <= k /\ n \in 0..Len(ss) /\ tt # <<>> /\ tt[k] \in Seq(A)
  <2>1. tt # <<>>
    <3>1. Len(tt) # 0
      OBVIOUS
    <3> QED BY <3>1, EmptySeq
  <2>2. tt[k] \in Seq(A)
    BY <1>0, ElementOfSeq
  <2> QED BY <1>0, <2>1, <2>2
<1>3. PICK f \in [1..n -> Seq(A)] : Flattens(f, ss, n)
  BY <1>1, FlattenExists
<1>4. PICK g \in [1..k -> Seq(A)] : Flattens(g, tt, k)
  BY <1>1, FlattenExists
<1>5. FlattenSeq(tt) = g[k]
  BY <1>1, <1>4, FlattenIs
<1>6. g[k] = IF k = 1 THEN tt[k] ELSE g[k - 1] \o tt[k]
  BY <1>1, <1>4, Zenon DEF Flattens
<1>7. CASE ss = <<>>
  <2>1. k = 1 /\ FlattenSeq(tt) = tt[k] /\ FlattenSeq(ss) = <<>>
    BY <1>5, <1>6, <1>7, FlattenEmpty
  <2>2. <<>> \o tt[k] = tt[k] /\ <<>> \in Seq(A)
    BY <1>1, ConcatEmptySeq
  <2> QED BY <2>1, <2>2
<1>8. CASE ss # <<>>
  <2>1. FlattenSeq(ss) = f[n] /\ n \in 1..n /\ n = k - 1 /\ k # 1
    BY <1>3, <1>8, FlattenIs
  <2>2. Agree(f, g, n)
    BY <1>1, <1>3, <1>4, FlattenAgrees
  <2>3. f[n] = g[n]
    BY <2>1, <2>2 DEF Agree
  <2> QED BY <1>5, <1>6, <2>1, <2>3
<1> QED BY <1>7, <1>8

LEMMA FlattenAppend ==
  ASSUME NEW A, NEW ss \in Seq(Seq(A)), NEW s \in Seq(A)
  PROVE  /\ FlattenSeq(ss) \in Seq(A)
         /\ FlattenSeq(Append(ss, s)) = FlattenSeq(ss) \o s
<1> DEFINE tt == Append(ss, s)
           n == Len(ss)
           k == Len(tt)
<1>1. n \in Nat /\ k \in Nat /\ k = n + 1 /\ tt \in Seq(Seq(A)) /\ tt[k] = s
  OBVIOUS
<1>2. Agree(ss, tt, n)
  BY DEF Agree
<1> HIDE DEF tt, n, k
<1>3. n = Len(ss) /\ k = Len(tt)
  BY DEF n, k
<1>4. FlattenSeq(ss) \in Seq(A) /\ FlattenSeq(tt) = FlattenSeq(ss) \o tt[k]
  BY <1>1, <1>2, <1>3, FlattenLast
<1> QED BY <1>1, <1>4 DEF tt

LEMMA FlattenOne ==
  ASSUME NEW A, NEW s \in Seq(A)
  PROVE  FlattenSeq(<<s>>) = s
<1>1. <<>> \in Seq(Seq(A)) /\ <<s>> = Append(<<>>, s)
  OBVIOUS
<1>2. FlattenSeq(<<s>>) = FlattenSeq(<<>>) \o s
  BY <1>1, FlattenAppend
<1> QED BY <1>2, FlattenEmpty, ConcatEmptySeq

(* What comes of it has the elements of the sequences it is made of.       *)
LEMMA FlattenElements ==
  ASSUME NEW A, NEW ss \in Seq(Seq(A)), NEW a
  PROVE  (\E i \in 1..Len(FlattenSeq(ss)) : FlattenSeq(ss)[i] = a) <=>
         (\E j \in 1..Len(ss) : \E i \in 1..Len(ss[j]) : ss[j][i] = a)
<1> DEFINE Has(s) == \E i \in 1..Len(s) : s[i] = a
           S == {tt \in Seq(Seq(A)) : Has(FlattenSeq(tt)) <=> \E j \in 1..Len(tt) : Has(tt[j])}
<1>1. <<>> \in S
  BY FlattenEmpty
<1>2. ASSUME NEW tt \in S, NEW s \in Seq(A) PROVE Append(tt, s) \in S
  <2> DEFINE new == Append(tt, s)
             old == FlattenSeq(tt)
  <2>1. old \in Seq(A) /\ FlattenSeq(new) = old \o s
    BY FlattenAppend
  <2>2. Has(old \o s) <=> Has(old) \/ Has(s)
    <3> HIDE DEF old
    <3>1. Has(old \o s) => Has(old) \/ Has(s)
      BY <2>1
    <3>2. Has(old) => Has(old \o s)
      BY <2>1
    <3>3. ASSUME NEW i \in 1..Len(s), s[i] = a PROVE Has(old \o s)
      <4>1. i + Len(old) \in 1..Len(old \o s) /\ (old \o s)[i + Len(old)] = s[i]
        BY <2>1
      <4> QED BY <3>3, <4>1
    <3> QED BY <3>1, <3>2, <3>3
  <2>3. new \in Seq(Seq(A)) /\ Len(new) = Len(tt) + 1 /\ new[Len(tt) + 1] = s
        /\ (\A j \in 1..Len(tt) : new[j] = tt[j]) /\ Len(tt) \in Nat
    OBVIOUS
  <2>4. (\E j \in 1..Len(new) : Has(new[j])) <=> (\E j \in 1..Len(tt) : Has(tt[j])) \/ Has(s)
    <3> HIDE DEF new
    <3>1. ASSUME NEW j \in 1..Len(new), Has(new[j])
          PROVE  (\E k \in 1..Len(tt) : Has(tt[k])) \/ Has(s)
      <4>1. j \in 1..Len(tt) \/ j = Len(tt) + 1
        BY <2>3
      <4>2. new[j] = s \/ (j \in 1..Len(tt) /\ new[j] = tt[j])
        BY <2>3, <4>1
      <4> HIDE DEF Has
      <4> QED BY <3>1, <4>2
    <3>2. ASSUME NEW j \in 1..Len(tt), Has(tt[j]) PROVE \E k \in 1..Len(new) : Has(new[k])
      <4>1. j \in 1..Len(new) /\ new[j] = tt[j]
        BY <2>3
      <4> HIDE DEF Has
      <4> QED BY <3>2, <4>1
    <3>3. ASSUME Has(s) PROVE \E k \in 1..Len(new) : Has(new[k])
      <4>1. Len(tt) + 1 \in 1..Len(new)
        BY <2>3
      <4> HIDE DEF Has
      <4> QED BY <2>3, <3>3, <4>1
    <3> HIDE DEF Has
    <3> QED BY <3>1, <3>2, <3>3
  <2>5. Has(FlattenSeq(tt)) <=> \E j \in 1..Len(tt) : Has(tt[j])
    OBVIOUS
  <2>6. Has(FlattenSeq(new)) <=> \E j \in 1..Len(new) : Has(new[j])
    <3> HIDE DEF new, Has
    <3> QED BY <2>1, <2>2, <2>4, <2>5
  <2>7. new \in S
    <3> HIDE DEF new, Has
    <3> QED BY <2>3, <2>6
  <2> QED BY <2>7
<1>3. S = Seq(Seq(A))
  <2>1. S \in SUBSET Seq(Seq(A))
    OBVIOUS
  <2> HIDE DEF S
  <2> QED BY <1>1, <1>2, <2>1, AllSequences
<1>4. ss \in S
  BY <1>3
<1> QED BY <1>4

-----------------------------------------------------------------------------
(* What becomes of a path when all its variables are replaced at once.     *)

Piece(x, e, F) == IF x \in F THEN e[x] ELSE <<x>>

Expand(segs, e, F) == FlattenSeq([i \in DOMAIN segs |-> Piece(segs[i], e, F)])

Values(e, F, A) == \A u \in F : e[u] \in Seq(A)

LEMMA ExpandEmpty == \A e, F : Expand(<<>>, e, F) = <<>>
BY FlattenEmpty DEF Expand

LEMMA ExpandPieces ==
  ASSUME NEW A, NEW e, NEW F, Values(e, F, A), NEW t \in Seq(A)
  PROVE  /\ [i \in DOMAIN t |-> Piece(t[i], e, F)] \in Seq(Seq(A))
         /\ Len([i \in DOMAIN t |-> Piece(t[i], e, F)]) = Len(t)
         /\ Expand(t, e, F) \in Seq(A)
<1> DEFINE pieces == [i \in DOMAIN t |-> Piece(t[i], e, F)]
<1>1. \A i \in 1..Len(t) : Piece(t[i], e, F) \in Seq(A)
  BY DEF Piece, Values
<1>2. pieces \in [1..Len(t) -> Seq(A)] /\ Len(t) \in Nat
  BY <1>1
<1>3. Expand(t, e, F) = FlattenSeq(pieces)
  BY DEF Expand
<1> HIDE DEF pieces
<1>4. pieces \in Seq(Seq(A)) /\ Len(pieces) = Len(t)
  BY <1>2
<1>5. FlattenSeq(pieces) \in Seq(A)
  <2>1. <<>> \in Seq(A)
    OBVIOUS
  <2> QED BY <1>4, <2>1, FlattenAppend
<1> QED BY <1>3, <1>4, <1>5 DEF pieces

LEMMA ExpandAppend ==
  ASSUME NEW A, NEW e, NEW F, Values(e, F, A), NEW s \in Seq(A), NEW x \in A
  PROVE  Expand(Append(s, x), e, F) = Expand(s, e, F) \o Piece(x, e, F)
<1> DEFINE pieces(t) == [i \in DOMAIN t |-> Piece(t[i], e, F)]
<1>1. Piece(x, e, F) \in Seq(A)
  BY DEF Piece, Values
<1>2. Append(s, x) \in Seq(A) /\ Len(Append(s, x)) = Len(s) + 1 /\ Len(s) \in Nat
  OBVIOUS
<1>3. /\ pieces(Append(s, x)) \in Seq(Seq(A)) /\ pieces(s) \in Seq(Seq(A))
      /\ Len(pieces(s)) = Len(s) /\ Len(pieces(Append(s, x))) = Len(s) + 1
  <2>1. ASSUME NEW t \in Seq(A) PROVE pieces(t) \in Seq(Seq(A)) /\ Len(pieces(t)) = Len(t)
    BY ExpandPieces
  <2> HIDE DEF pieces
  <2> QED BY <1>2, <2>1
<1>4. pieces(Append(s, x)) = Append(pieces(s), Piece(x, e, F))
  <2>2. /\ Append(pieces(s), Piece(x, e, F)) \in Seq(Seq(A))
        /\ Len(Append(pieces(s), Piece(x, e, F))) = Len(s) + 1
    BY <1>1, <1>3
  <2>3. ASSUME NEW i \in 1..Len(s) + 1
        PROVE  pieces(Append(s, x))[i] = Append(pieces(s), Piece(x, e, F))[i]
    BY <1>3
  <2> HIDE DEF pieces
  <2> QED BY <1>3, <2>2, <2>3, SeqEqual
<1>5. \A t : Expand(t, e, F) = FlattenSeq(pieces(t))
  BY DEF Expand
<1> HIDE DEF pieces
<1>6. FlattenSeq(Append(pieces(s), Piece(x, e, F))) = FlattenSeq(pieces(s)) \o Piece(x, e, F)
  BY <1>1, <1>3, FlattenAppend
<1> QED BY <1>4, <1>5, <1>6

LEMMA ExpandConcat ==
  ASSUME NEW A, NEW e, NEW F, Values(e, F, A), NEW s \in Seq(A), NEW t \in Seq(A)
  PROVE  Expand(s \o t, e, F) = Expand(s, e, F) \o Expand(t, e, F)
<1> DEFINE S == {r \in Seq(A) : Expand(s \o r, e, F) = Expand(s, e, F) \o Expand(r, e, F)}
<1>1. <<>> \in S
  <2>1. Expand(s, e, F) \in Seq(A) /\ Expand(<<>>, e, F) = <<>>
    BY ExpandPieces, ExpandEmpty
  <2>2. s \o <<>> = s /\ Expand(s, e, F) \o <<>> = Expand(s, e, F)
    BY <2>1, ConcatEmptySeq
  <2> QED BY <2>1, <2>2
<1>2. ASSUME NEW r \in S, NEW x \in A PROVE Append(r, x) \in S
  <2>0. r \in Seq(A) /\ s \o r \in Seq(A) /\ Piece(x, e, F) \in Seq(A)
    BY DEF Piece, Values
  <2>1. s \o Append(r, x) = Append(s \o r, x)
    <3>1. Append(r, x) = r \o <<x>> /\ Append(s \o r, x) = (s \o r) \o <<x>> /\ <<x>> \in Seq(A)
      BY <2>0, AppendIsConcat
    <3> QED BY <2>0, <3>1, ConcatAssociative
  <2>2. Expand(Append(s \o r, x), e, F) = Expand(s \o r, e, F) \o Piece(x, e, F)
    <3>1. \A sr \in Seq(A) : Expand(Append(sr, x), e, F) = Expand(sr, e, F) \o Piece(x, e, F)
      BY ExpandAppend
    <3> QED BY <2>0, <3>1, Zenon
  <2>3. Expand(Append(r, x), e, F) = Expand(r, e, F) \o Piece(x, e, F)
    BY <2>0, ExpandAppend
  <2>4. Expand(r, e, F) \in Seq(A) /\ Expand(s, e, F) \in Seq(A)
    BY <2>0, ExpandPieces
  <2>5. (Expand(s, e, F) \o Expand(r, e, F)) \o Piece(x, e, F)
        = Expand(s, e, F) \o (Expand(r, e, F) \o Piece(x, e, F))
    BY <2>0, <2>4, ConcatAssociative
  <2>6. Append(r, x) \in Seq(A)
    BY <2>0
  <2> QED BY <2>1, <2>2, <2>3, <2>5, <2>6
<1>3. S = Seq(A)
  <2>1. S \in SUBSET Seq(A)
    OBVIOUS
  <2> HIDE DEF S
  <2> QED BY <1>1, <1>2, <2>1, AllSequences
<1> QED BY <1>3

LEMMA ExpandJoins ==
  \A A, e, F, s, t :
    Values(e, F, A) /\ s \in Seq(A) /\ t \in Seq(A) =>
      Expand(s \o t, e, F) = Expand(s, e, F) \o Expand(t, e, F)
BY ExpandConcat

(* A path without the variables stays as it is.                            *)
LEMMA ExpandNothing ==
  ASSUME NEW A, NEW e, NEW F, Values(e, F, A), NEW s \in Seq(A),
         \A i \in 1..Len(s) : s[i] \notin F
  PROVE  Expand(s, e, F) = s
<1> DEFINE S == {r \in Seq(A) : (\A i \in 1..Len(r) : r[i] \notin F) => Expand(r, e, F) = r}
<1>1. <<>> \in S
  BY FlattenEmpty DEF Expand
<1>2. ASSUME NEW r \in S, NEW x \in A PROVE Append(r, x) \in S
  <2> DEFINE new == Append(r, x)
  <2>1. new \in Seq(A) /\ Len(new) = Len(r) + 1 /\ new[Len(r) + 1] = x
        /\ (\A i \in 1..Len(r) : new[i] = r[i]) /\ Len(r) \in Nat /\ r \in Seq(A)
    OBVIOUS
  <2>2. ASSUME \A i \in 1..Len(new) : new[i] \notin F PROVE Expand(new, e, F) = new
    <3>1. x \notin F /\ \A i \in 1..Len(r) : r[i] \notin F
      <4> HIDE DEF new
      <4>1. Len(r) + 1 \in 1..Len(new) /\ \A i \in 1..Len(r) : i \in 1..Len(new)
        BY <2>1
      <4> QED BY <2>1, <2>2, <4>1
    <3>2. Expand(r, e, F) = r
      BY <3>1
    <3>3. Expand(new, e, F) = Expand(r, e, F) \o Piece(x, e, F)
      BY <2>1, ExpandAppend
    <3>4. Piece(x, e, F) = <<x>>
      BY <3>1 DEF Piece
    <3> QED BY <2>1, <3>2, <3>3, <3>4, AppendIsConcat
  <2>3. new \in S
    <3> HIDE DEF new
    <3> QED BY <2>1, <2>2
  <2> QED BY <2>3
<1>3. S = Seq(A)
  <2>1. S \in SUBSET Seq(A)
    OBVIOUS
  <2> HIDE DEF S
  <2> QED BY <1>1, <1>2, <2>1, AllSequences
<1> QED BY <1>3

LEMMA ExpandElements ==
  ASSUME NEW A, NEW e, NEW F, Values(e, F, A), NEW s \in Seq(A),
         NEW i \in 1..Len(Expand(s, e, F))
  PROVE  \E j \in 1..Len(s) :
           \E k \in 1..Len(Piece(s[j], e, F)) : Expand(s, e, F)[i] = Piece(s[j], e, F)[k]
<1> DEFINE pieces == [n \in DOMAIN s |-> Piece(s[n], e, F)]
           a == Expand(s, e, F)[i]
<1>1. pieces \in Seq(Seq(A)) /\ Len(pieces) = Len(s) /\ Expand(s, e, F) = FlattenSeq(pieces)
  BY ExpandPieces DEF Expand
<1>2. \A j \in 1..Len(s) : pieces[j] = Piece(s[j], e, F)
  OBVIOUS
<1> HIDE DEF pieces
<1>3. \E n \in 1..Len(FlattenSeq(pieces)) : FlattenSeq(pieces)[n] = a
  BY <1>1
<1>4. \E j \in 1..Len(pieces) : \E k \in 1..Len(pieces[j]) : pieces[j][k] = a
  <2>1. \A b : (\E n \in 1..Len(FlattenSeq(pieces)) : FlattenSeq(pieces)[n] = b) <=>
               (\E j \in 1..Len(pieces) : \E k \in 1..Len(pieces[j]) : pieces[j][k] = b)
    BY <1>1, FlattenElements, Zenon
  <2> HIDE DEF a
  <2> QED BY <1>3, <2>1, Zenon
<1>5. PICK j \in 1..Len(s) : \E k \in 1..Len(pieces[j]) : pieces[j][k] = a
  BY <1>1, <1>4
<1> QED BY <1>2, <1>5

LEMMA ReplaceIsExpand ==
  ASSUME NEW s, NEW t, NEW v
  PROVE  Replace(s, t, v) = Expand(s, [u \in {t} |-> v], {t})
<1>1. \A x : (IF x = t THEN v ELSE <<x>>) = Piece(x, [u \in {t} |-> v], {t})
  BY DEF Piece
<1>2. [i \in DOMAIN s |-> IF s[i] = t THEN v ELSE <<s[i]>>]
      = [i \in DOMAIN s |-> Piece(s[i], [u \in {t} |-> v], {t})]
  BY <1>1, Zenon
<1> QED BY <1>2, Zenon DEF Replace, Expand

(* What is put in the place of the variables of F has no t in it.          *)
Apart(s, e, F, t) ==
  \A i \in 1..Len(s) : s[i] \in F => \A j \in 1..Len(e[s[i]]) : e[s[i]][j] # t

(* One more variable replaced: as if it had been one of the others.        *)
LEMMA ReplaceOneMore ==
  ASSUME NEW A, NEW e, NEW F, NEW t, t \notin F, Values(e, F \cup {t}, A),
         NEW s \in Seq(A), Apart(s, e, F, t)
  PROVE  Replace(Expand(s, e, F), t, e[t]) = Expand(s, e, F \cup {t})
<1> DEFINE T1 == {t}
           one == [u \in T1 |-> e[t]]
           G == F \cup {t}
           R(r) == Expand(r, one, T1)
           T(r) == Expand(r, e, F)
           U(r) == Expand(r, e, G)
           S == {r \in Seq(A) : Apart(r, e, F, t) => R(T(r)) = U(r)}
<1>0. Values(e, F, A) /\ Values(one, T1, A) /\ Values(e, G, A)
  BY DEF Values
<1>1. <<>> \in S
  BY ExpandEmpty
<1>2. ASSUME NEW r \in S, NEW x \in A, Apart(Append(r, x), e, F, t)
      PROVE  R(T(Append(r, x))) = U(Append(r, x))
  <2> DEFINE p == Piece(x, e, F)
  <2>1. r \in Seq(A) /\ T(r) \in Seq(A) /\ p \in Seq(A) /\ Append(r, x) \in Seq(A)
    <3>1. T(r) \in Seq(A)
      BY <1>0, ExpandPieces
    <3>2. p \in Seq(A)
      BY <1>0 DEF Piece, Values
    <3> QED BY <3>1, <3>2
  <2>2. Apart(r, e, F, t) /\ (x \in F => \A j \in 1..Len(e[x]) : e[x][j] # t)
    <3> DEFINE new == Append(r, x)
    <3>1. Len(new) = Len(r) + 1 /\ new[Len(r) + 1] = x /\ Len(r) \in Nat
          /\ \A i \in 1..Len(r) : new[i] = r[i] /\ i \in 1..Len(new)
      OBVIOUS
    <3>2. Apart(new, e, F, t)
      BY <1>2
    <3> HIDE DEF new
    <3>3. Len(r) + 1 \in 1..Len(new)
      BY <3>1
    <3>4. Apart(r, e, F, t)
      BY <3>1, <3>2 DEF Apart
    <3> QED BY <3>1, <3>2, <3>3, <3>4 DEF Apart
  <2>3. T(Append(r, x)) = T(r) \o p
    BY <1>0, <2>1, ExpandAppend
  <2>4. U(Append(r, x)) = U(r) \o Piece(x, e, G)
    <3>1. Values(e, G, A) /\ r \in Seq(A)
      BY <1>0, <2>1
    <3> HIDE DEF G
    <3> QED BY <3>1, ExpandAppend
  <2>5. R(T(r) \o p) = R(T(r)) \o R(p)
    <3>1. ASSUME NEW a \in Seq(A), NEW b \in Seq(A) PROVE R(a \o b) = R(a) \o R(b)
      <4>1. Values(one, T1, A)
        BY <1>0
      <4> HIDE DEF one, T1
      <4>2. Expand(a \o b, one, T1) = Expand(a, one, T1) \o Expand(b, one, T1)
        BY <4>1, ExpandJoins
      <4> QED BY <4>2
    <3> HIDE DEF R, T, p
    <3> QED BY <2>1, <3>1
  <2>6. R(p) = Piece(x, e, G)
    <3>1. CASE x \in F
      <4>1. p = e[x] /\ Piece(x, e, G) = e[x]
        BY <3>1 DEF Piece
      <4>2. \A j \in 1..Len(p) : p[j] \notin T1
        BY <2>2, <3>1, <4>1
      <4>3. R(p) = p
        <5> HIDE DEF one, T1, p
        <5> QED BY <1>0, <2>1, <4>2, ExpandNothing
      <4> QED BY <4>1, <4>3
    <3>2. CASE x \notin F
      <4>1. p = <<x>> /\ p = Append(<<>>, x) /\ <<>> \in Seq(A)
        BY <3>2 DEF Piece
      <4>2. R(<<>>) = <<>>
        BY ExpandEmpty
      <4>3. R(Append(<<>>, x)) = R(<<>>) \o Piece(x, one, T1)
        <5>1. ASSUME NEW z \in Seq(A) PROVE R(Append(z, x)) = R(z) \o Piece(x, one, T1)
          <6>1. Values(one, T1, A)
            BY <1>0
          <6> HIDE DEF one, T1
          <6> QED BY <6>1, ExpandAppend
        <5> HIDE DEF R
        <5> QED BY <4>1, <5>1
      <4>4. Piece(x, one, T1) = Piece(x, e, G) /\ Piece(x, one, T1) \in Seq(A)
        BY <3>2 DEF Piece, Values
      <4> HIDE DEF R
      <4> QED BY <4>1, <4>2, <4>3, <4>4, ConcatEmptySeq
    <3> QED BY <3>1, <3>2
  <2>7. R(T(r)) = U(r)
    BY <2>2
  <2> HIDE DEF R, T, U, p
  <2> QED BY <2>3, <2>4, <2>5, <2>6, <2>7
<1>3. ASSUME NEW r \in S, NEW x \in A PROVE Append(r, x) \in S
  <2>1. Append(r, x) \in Seq(A)
    OBVIOUS
  <2>2. Apart(Append(r, x), e, F, t) => R(T(Append(r, x))) = U(Append(r, x))
    BY <1>2
  <2> HIDE DEF R, T, U
  <2> QED BY <2>1, <2>2
<1>4. S = Seq(A)
  <2>1. S \in SUBSET Seq(A)
    OBVIOUS
  <2> HIDE DEF S
  <2> QED BY <1>1, <1>3, <2>1, AllSequences
<1>5. R(T(s)) = U(s)
  BY <1>4
<1> QED BY <1>5, ReplaceIsExpand

LEMMA ReplacesOneMore ==
  \A A, e, F, G, t, s :
    t \notin F /\ G = F \cup {t} /\ Values(e, G, A) /\ s \in Seq(A) /\ Apart(s, e, F, t) =>
      Replace(Expand(s, e, F), t, e[t]) = Expand(s, e, G)
BY ReplaceOneMore

-----------------------------------------------------------------------------
(* Every order of the variables.                                           *)

Replaces(f, segs, e, order) ==
  f = [n \in 0..Len(order) |-> IF n = 0 THEN segs ELSE Replace(f[n - 1], order[n], e[order[n]])]

(* The values of the variables of a path have no variables.                *)
Stable(segs, e) ==
  \A i \in 1..Len(segs) : segs[i] \in DOMAIN e =>
    \A j \in 1..Len(e[segs[i]]) : e[segs[i]][j] \notin DOMAIN e

(* An order of D names each element of it once.                            *)
Lists(order, D) ==
  /\ order \in Seq(D) /\ Len(order) \in Nat
  /\ \A i, j \in 1..Len(order) : order[i] = order[j] => i = j
  /\ D = {order[i] : i \in 1..Len(order)}

LEMMA OrderNamesAll ==
  ASSUME NEW D, IsFiniteSet(D), NEW order \in SetToSeqs(D)
  PROVE  Lists(order, D)
<1> DEFINE n == Cardinality(D)
<1>1. n \in Nat
  BY FS_CardinalityType
<1>2. order \in [1..n -> D] /\ \A i, j \in 1..n : i # j => order[i] # order[j]
  BY DEF SetToSeqs
<1> HIDE DEF n
<1>3. order \in Seq(D) /\ Len(order) = n
  BY <1>1, <1>2
<1>8. Len(order) \in Nat
  BY <1>1, <1>3
<1>4. order \in Injection(1..n, D)
  BY <1>2 DEF Injection, IsInjective
<1>5. IsFiniteSet(1..n) /\ Cardinality(1..n) = n
  BY <1>1, FS_Interval
<1>6. order \in Surjection(1..n, D)
  BY <1>4, <1>5, FS_Injection DEF n
<1>7. D = {order[i] : i \in 1..n}
  BY <1>2, <1>6 DEF Surjection
<1> QED BY <1>2, <1>3, <1>7, <1>8 DEF Lists

LEMMA OrderExists ==
  ASSUME NEW D, IsFiniteSet(D)
  PROVE  SetToSeqs(D) # {}
<1> DEFINE n == Cardinality(D)
<1>1. n \in Nat /\ ExistsBijection(1..n, D)
  BY FS_CardinalityType
<1>2. PICK b : b \in Bijection(1..n, D)
  BY <1>1 DEF ExistsBijection
<1>3. b \in [1..n -> D] /\ \A i, j \in 1..n : i # j => b[i] # b[j]
  BY <1>2 DEF Bijection, Injection, IsInjective
<1>4. b \in SetToSeqs(D)
  BY <1>3 DEF SetToSeqs
<1> QED BY <1>4

(* The order does not matter to a path whose variables have plain values.  *)
LEMMA ReplacedAtOnce ==
  ASSUME NEW A, NEW e, IsFiniteSet(DOMAIN e), Values(e, DOMAIN e, A),
         NEW segs \in Seq(A), Stable(segs, e), NEW order \in SetToSeqs(DOMAIN e)
  PROVE  ReplaceInOrder(segs, e, order) = Expand(segs, e, DOMAIN e)
<1>0. Lists(order, DOMAIN e)
  BY OrderNamesAll
<1> DEFINE D == DOMAIN e
           N == Len(order)
           First(n) == {order[i] : i \in 1..n}
           g == [n \in 0..N |-> Expand(segs, e, First(n))]
<1>1. /\ order \in Seq(D) /\ N \in Nat /\ D = First(N)
      /\ \A i, j \in 1..N : order[i] = order[j] => i = j
  BY <1>0, Zenon DEF Lists
<1>2. \A n \in 1..N : order[n] \in D
  BY <1>1
<1>3. ASSUME NEW n \in 1..N
      PROVE  Replace(Expand(segs, e, First(n - 1)), order[n], e[order[n]]) = Expand(segs, e, First(n))
  <2> DEFINE F == First(n - 1)
             G == First(n)
             t == order[n]
  <2>0. /\ \A i \in 1..n - 1 : i \in 1..N /\ i # n
        /\ 1..n = (1..n - 1) \cup {n}
    BY <1>1
  <2>1. t \notin F
    BY <1>1, <2>0
  <2>2. G = F \cup {t}
    BY <2>0
  <2>3. G \subseteq D
    BY <1>2
  <2> HIDE DEF F, G, First
  <2>4. Values(e, G, A)
    BY <2>3 DEF Values
  <2>5. t \in D
    BY <1>2
  <2>6. Apart(segs, e, F, t)
    BY <2>2, <2>3, <2>5 DEF Apart, Stable
  <2> HIDE DEF t, D
  <2>7. Replace(Expand(segs, e, F), t, e[t]) = Expand(segs, e, G)
    BY <2>1, <2>2, <2>4, <2>6, ReplacesOneMore
  <2> QED BY <2>7 DEF F, G, t
<1>4. First(0) = {}
  OBVIOUS
<1>5. Expand(segs, e, First(0)) = segs
  <2>1. Values(e, {}, A) /\ \A i \in 1..Len(segs) : segs[i] \notin {}
    BY DEF Values
  <2> DEFINE none == {}
  <2>2. Values(e, none, A) /\ \A i \in 1..Len(segs) : segs[i] \notin none
    BY <2>1
  <2> HIDE DEF none
  <2>3. Expand(segs, e, none) = segs
    BY <2>2, ExpandNothing
  <2> QED BY <1>4, <2>3 DEF none
<1> HIDE DEF First
<1>6. g = [n \in 0..N |-> IF n = 0 THEN segs ELSE Replace(g[n - 1], order[n], e[order[n]])]
  <2>1. ASSUME NEW n \in 0..N
        PROVE  g[n] = IF n = 0 THEN segs ELSE Replace(g[n - 1], order[n], e[order[n]])
    <3>1. CASE n = 0
      BY <1>5, <3>1
    <3>2. CASE n # 0
      <4>1. n \in 1..N /\ n - 1 \in 0..N
        BY <1>1, <3>2
      <4>2. g[n] = Expand(segs, e, First(n)) /\ g[n - 1] = Expand(segs, e, First(n - 1))
        BY <4>1
      <4> HIDE DEF g
      <4> QED BY <1>3, <3>2, <4>1, <4>2
    <3> QED BY <3>1, <3>2
  <2>2. g = [n \in 0..N |-> g[n]]
    OBVIOUS
  <2> HIDE DEF g
  <2> QED BY <2>1, <2>2
<1> DEFINE f == CHOOSE h : Replaces(h, segs, e, order)
<1>7. ReplaceInOrder(segs, e, order) = f[N]
  BY DEF ReplaceInOrder, Replaces
<1>8. Replaces(f, segs, e, order)
  <2>1. Replaces(g, segs, e, order)
    <3> HIDE DEF g
    <3> QED BY <1>6 DEF Replaces
  <2> HIDE DEF g
  <2> QED BY <2>1, Zenon
<1> HIDE DEF f, g
<1> DEFINE S == {n \in 0..N : f[n] = g[n]}
<1>9. 0 \in S
  <2>1. f[0] = segs /\ g[0] = segs
    BY <1>1, <1>6, <1>8 DEF Replaces
  <2> QED BY <1>1, <2>1
<1>10. ASSUME NEW n \in 1..N, n - 1 \in S PROVE n \in S
  <2>0. n \in 0..N /\ n # 0 /\ f[n - 1] = g[n - 1]
    BY <1>10
  <2>1. f[n] = Replace(f[n - 1], order[n], e[order[n]])
    BY <1>8, <2>0 DEF Replaces
  <2>2. g[n] = Replace(g[n - 1], order[n], e[order[n]])
    BY <1>6, <2>0
  <2> QED BY <2>0, <2>1, <2>2
<1>11. N \in S
  <2>1. N \in 0..N
    BY <1>1
  <2> HIDE DEF S
  <2>2. 0..N \subseteq S
    BY <1>1, <1>9, <1>10, UpTo
  <2> QED BY <2>1, <2>2
<1> QED BY <1>1, <1>7, <1>11 DEF g

(* A path may be resolved to something, whatever its variables.            *)
LEMMA ResolvedExists ==
  ASSUME NEW e, IsFiniteSet(DOMAIN e), NEW path
  PROVE  Resolved(path, e) # {}
<1>1. SetToSeqs(DOMAIN e) # {}
  BY OrderExists
<1> QED BY <1>1 DEF Resolved

LEMMA ResolvedOnce ==
  ASSUME NEW A, NEW e, IsFiniteSet(DOMAIN e), Values(e, DOMAIN e, A),
         NEW path, path.segs \in Seq(A), Stable(path.segs, e)
  PROVE  Resolved(path, e) = {[path EXCEPT !.segs = Expand(path.segs, e, DOMAIN e)]}
<1>1. \A order \in SetToSeqs(DOMAIN e) :
        ReplaceInOrder(path.segs, e, order) = Expand(path.segs, e, DOMAIN e)
  BY ReplacedAtOnce
<1>2. \A order \in SetToSeqs(DOMAIN e) :
        [path EXCEPT !.segs = ReplaceInOrder(@, e, order)]
        = [path EXCEPT !.segs = Expand(path.segs, e, DOMAIN e)]
  BY <1>1
<1>3. SetToSeqs(DOMAIN e) # {}
  BY OrderExists
<1> QED BY <1>2, <1>3 DEF Resolved

-----------------------------------------------------------------------------
(* The segments that are compared.                                         *)

LEMMA MaxIsMax ==
  ASSUME NEW n \in Nat, NEW S \in SUBSET (0..n), S # {}
  PROVE  Max(S) \in S /\ \A y \in S : Max(S) >= y
<1> DEFINE T == {k \in 0..n : \A U \in SUBSET (0..k) :
                   U # {} => \E m \in U : \A y \in U : m >= y}
<1>1. 0 \in T
  <2>1. \A U \in SUBSET (0..0) : \A y \in U : y = 0
    OBVIOUS
  <2>2. ASSUME NEW U \in SUBSET (0..0), U # {} PROVE \E m \in U : \A y \in U : m >= y
    <3>1. 0 \in U /\ \A y \in U : y = 0
      BY <2>1, <2>2
    <3>2. \A y \in U : 0 >= y
      BY <3>1
    <3> QED BY <3>1, <3>2
  <2> QED BY <2>2
<1>2. ASSUME NEW k \in 1..n, k - 1 \in T PROVE k \in T
  <2>1. ASSUME NEW U \in SUBSET (0..k), U # {} PROVE \E m \in U : \A y \in U : m >= y
    <3>1. CASE k \in U
      BY <2>1, <3>1
    <3>2. CASE k \notin U
      <4>1. U \in SUBSET (0..k - 1)
        BY <3>2
      <4> QED BY <1>2, <2>1, <4>1
    <3> QED BY <3>1, <3>2
  <2> QED BY <2>1
<1>3. n \in T
  <2> HIDE DEF T
  <2>1. 0..n \subseteq T
    BY <1>1, <1>2, UpTo
  <2> QED BY <2>1
<1>4. \E m \in S : \A y \in S : m >= y
  BY <1>3
<1> QED BY <1>4 DEF Max

(* The empty segment has a name here: SMT does not take the empty string.  *)
Gap == ""

Rooted(s) == IF s[1] = Gap /\ Len(s) > 1 THEN s ELSE <<Gap>> \o s

Named(r) == {1} \cup {i \in DOMAIN r : r[i] # Gap}

LEMMA SegmentsIs ==
  ASSUME NEW path
  PROVE  Segments(path) = Tail(SubSeq(Rooted(path.segs), 1, Max(Named(Rooted(path.segs)))))
BY Zenon DEF Segments, Rooted, Named, Gap

Fits(cs, rs) ==
  /\ Len(cs) = Len(rs)
  /\ \A i \in DOMAIN cs : IF cs[i] \in Wildcards THEN rs[i] # Gap ELSE cs[i] = rs[i]

LEMMA MatchesIs ==
  ASSUME NEW c, NEW p, Fits(Segments(c), Segments(p))
  PROVE  RoutePathsMatch(c, p)
BY Zenon DEF RoutePathsMatch, Fits, Gap

LEMMA GapIs ==
  /\ Gap \in Segment /\ Gap \notin Wildcards /\ Gap \notin Templates
  /\ Gap # "1" /\ "1" \notin Wildcards /\ "1" \notin Templates
BY CollationAssumption, SegmentAssumption, Zenon DEF Gap

LEMMA LastNamedIn ==
  ASSUME NEW A, NEW r \in Seq(A), r # <<>>
  PROVE  Max(Named(r)) \in 1..Len(r)
<1> DEFINE S == {1} \cup {i \in DOMAIN r : r[i] # Gap}
<1>1. S \in SUBSET (0..Len(r)) /\ S # {} /\ Len(r) \in Nat /\ \A i \in S : i \in 1..Len(r)
  OBVIOUS
<1> HIDE DEF S
<1>2. Max(S) \in S
  BY <1>1, MaxIsMax
<1> QED BY <1>1, <1>2 DEF S, Named

LEMMA TailOfFront ==
  ASSUME NEW A, NEW r \in Seq(A), NEW m \in 1..Len(r)
  PROVE  /\ Tail(SubSeq(r, 1, m)) \in Seq(A)
         /\ Len(Tail(SubSeq(r, 1, m))) = m - 1
         /\ \A i \in 1..m - 1 : Tail(SubSeq(r, 1, m))[i] = r[i + 1]
<1> DEFINE f == SubSeq(r, 1, m)
<1>1. f \in Seq(A) /\ Len(f) = m /\ (\A i \in 1..m : f[i] = r[i]) /\ m \in Nat /\ m > 0
  BY SubSeqProperties
<1> HIDE DEF f
<1>2. f # <<>>
  BY <1>1, EmptySeq
<1>3. Tail(f) \in Seq(A) /\ Len(Tail(f)) = m - 1 /\ \A i \in 1..m - 1 : Tail(f)[i] = f[i + 1]
  BY <1>1, <1>2, HeadTailProperties
<1> QED BY <1>1, <1>3 DEF f

(* A path with its wildcards filled in is matched by the path itself.      *)
LEMMA FilledMatches ==
  ASSUME NEW A, {Gap, "1"} \subseteq A, NEW y \in Seq(A), y # <<>>, y[1] = Gap,
         NEW c, NEW p, Rooted(c.segs) = Rooted(y), p.segs = Filled(y)
  PROVE  RoutePathsMatch(c, p)
<1> DEFINE z == Filled(y)
           q == Rooted(z)
           r == Rooted(y)
           wide(i) == IF r[i] \in Wildcards THEN "1" ELSE r[i]
<1>0. Gap \notin Wildcards /\ Len(y) \in Nat /\ Len(y) >= 1
  BY GapIs, EmptySeq
<1>1. /\ z \in Seq(A) /\ Len(z) = Len(y) /\ z[1] = Gap
      /\ \A i \in 1..Len(y) : z[i] = IF y[i] \in Wildcards THEN "1" ELSE y[i]
  <2>1. z \in [1..Len(y) -> A]
    BY DEF Filled
  <2>2. \A i \in 1..Len(y) : z[i] = IF y[i] \in Wildcards THEN "1" ELSE y[i]
    BY DEF Filled
  <2> HIDE DEF z
  <2> QED BY <1>0, <2>1, <2>2
<1>2. /\ r \in Seq(A) /\ q \in Seq(A) /\ Len(q) = Len(r) /\ Len(r) \in Nat /\ Len(r) >= 1
      /\ \A i \in 1..Len(r) : q[i] = wide(i)
  <2> HIDE DEF z
  <2>1. CASE Len(y) > 1
    <3>1. r = y /\ q = z
      BY <1>1, <2>1 DEF Rooted
    <3> QED BY <1>0, <1>1, <3>1
  <2>2. CASE Len(y) = 1
    <3>1. r = <<Gap>> \o y /\ q = <<Gap>> \o z
      BY <1>1, <2>2 DEF Rooted
    <3>2. y = <<Gap>> /\ z = <<Gap>>
      BY <1>1, <2>2
    <3>3. /\ <<Gap>> \o <<Gap>> \in Seq(A) /\ Len(<<Gap>> \o <<Gap>>) = 2
          /\ \A i \in 1..2 : (<<Gap>> \o <<Gap>>)[i] = Gap
      OBVIOUS
    <3>4. r = <<Gap>> \o <<Gap>> /\ q = r
      BY <3>1, <3>2
    <3>5. r \in Seq(A) /\ Len(r) = 2 /\ \A i \in 1..2 : r[i] = Gap
      BY <3>3, <3>4
    <3> HIDE DEF r, q
    <3> QED BY <1>0, <3>4, <3>5
  <2>3. Len(y) > 1 \/ Len(y) = 1
    <3>1. \A n \in Nat : n >= 1 => n > 1 \/ n = 1
      OBVIOUS
    <3> QED BY <1>0, <3>1, Zenon
  <2> QED BY <2>1, <2>2, <2>3, Zenon
<1> HIDE DEF q, r, z
<1>3. Max(Named(q)) = Max(Named(r))
  <2>1. \A i \in 1..Len(r) : q[i] # Gap <=> r[i] # Gap
    BY <1>0, <1>2, GapIs
  <2>2. DOMAIN q = 1..Len(r) /\ DOMAIN r = 1..Len(r)
    BY <1>2
  <2>3. {i \in DOMAIN q : q[i] # Gap} = {i \in DOMAIN r : r[i] # Gap}
    BY <2>1, <2>2
  <2> QED BY <2>3 DEF Named
<1> DEFINE m == Max(Named(r))
<1>4. m \in 1..Len(r)
  BY <1>2, LastNamedIn, EmptySeq
<1> HIDE DEF m
<1> DEFINE cs == Tail(SubSeq(r, 1, m))
           rs == Tail(SubSeq(q, 1, m))
<1>5. cs \in Seq(A) /\ Len(cs) = m - 1 /\ \A i \in 1..m - 1 : cs[i] = r[i + 1]
  BY <1>2, <1>4, TailOfFront
<1>6. rs \in Seq(A) /\ Len(rs) = m - 1 /\ \A i \in 1..m - 1 : rs[i] = q[i + 1]
  <2>1. m \in 1..Len(q) /\ q \in Seq(A)
    BY <1>2, <1>4
  <2> QED BY <2>1, TailOfFront
<1>7. Segments(c) = cs /\ Segments(p) = rs
  BY <1>3, SegmentsIs DEF m, q, r, z
<1> HIDE DEF cs, rs
<1>8. \A i \in 1..m - 1 : IF cs[i] \in Wildcards THEN rs[i] # Gap ELSE cs[i] = rs[i]
  <2>1. \A i \in 1..m - 1 : i + 1 \in 1..Len(r)
    BY <1>2, <1>4
  <2> QED BY <1>2, <1>5, <1>6, <2>1, GapIs
<1>9. Len(cs) = Len(rs) /\ DOMAIN cs = 1..m - 1
  BY <1>5, <1>6
<1>10. Fits(cs, rs)
  BY <1>8, <1>9 DEF Fits
<1> QED BY <1>7, <1>10, MatchesIs, Zenon

-----------------------------------------------------------------------------
(* The path of the row, and the path that Postman sends.                   *)

Inner(raw) == {i \in DOMAIN raw.segs : raw.segs[i] \in Templates /\ i < Len(raw.segs)}

Bare(raw) == raw = [segs |-> <<Gap>>, query |-> {}]

Rest(raw) ==
  IF Bare(raw) THEN Root.segs
  ELSE IF raw.segs[1] = Gap /\ Len(raw.segs) > 1 THEN raw.segs
  ELSE IF Inner(raw) # {} THEN <<Gap>> \o SubSeq(raw.segs, Min(Inner(raw)) + 1, Len(raw.segs))
  ELSE IF raw.segs[1] \in HostPorts THEN Root.segs
  ELSE IF raw.segs[1] \in Schemes THEN
    IF Len(raw.segs) = 3 THEN Root.segs
    ELSE <<Gap>> \o [i \in 1..Len(raw.segs) - 3 |->
           LET s == raw.segs[i + 3] IN IF s \in Templates THEN Encoded[s] ELSE s]
  ELSE IF Len(raw.segs) > 1 THEN <<Gap>> \o Tail(raw.segs)
  ELSE <<Gap>> \o raw.segs

LEMMA NormalizeIs ==
  ASSUME NEW raw
  PROVE  NormalizePath(raw) = [raw EXCEPT !.segs = Rest(raw)]
BY Zenon DEF NormalizePath, Rest, Bare, Inner, Gap

LEMMA ExtractIs ==
  ASSUME NEW url
  PROVE  ExtractPath(url) = IF url.path # <<>> THEN [segs |-> <<Gap>> \o url.path, query |-> {}]
                            ELSE NormalizePath(url.raw)
BY Zenon DEF ExtractPath, Gap

LEMMA OwnIs ==
  ASSUME NEW url
  PROVE  Own(url) =
           IF url.path # <<>> THEN <<Gap>> \o url.path
           ELSE IF url.raw.segs[1] \in Schemes
                THEN <<Gap>> \o SubSeq(url.raw.segs, 4, Len(url.raw.segs))
                ELSE <<Gap>> \o Tail(url.raw.segs)
BY Zenon DEF Own, Gap

Free(s, i) == \A j \in i..Len(s) : s[j] \notin Templates

LEMMA PlainIs ==
  ASSUME NEW url, Plain(url), url.path = <<>>
  PROVE  LET s == url.raw.segs IN
         \/ Len(s) > 1 /\ (s[1] = Gap \/ s[1] \in Templates) /\ Free(s, 2)
         \/ Len(s) > 2 /\ s[1] \in Schemes /\ s[2] = Gap /\ Free(s, 3)
BY Zenon DEF Plain, Free, Gap

LEMMA SchemesAre ==
  /\ Gap \notin Schemes
  /\ \A s \in Schemes : s \notin Templates /\ s \notin HostPorts /\ s # Gap
BY SchemesAssumption, Zenon DEF Gap

LEMMA RootIs == Root.segs = <<Gap, Gap>>
BY Zenon DEF Root, Gap

IsUrl(url) ==
  /\ url.path \in Seq(Segment) /\ url.raw.segs \in Seq(Segment)
  /\ DOMAIN url.raw = {"segs", "query"}

IsPath(s) == s \in Seq(Segment) /\ s # <<>> /\ s[1] = Gap

LEMMA PathOfGap ==
  ASSUME NEW s \in Seq(Segment)
  PROVE  IsPath(<<Gap>> \o s)
<1> DEFINE g == <<Gap>>
<1>1. g \in Seq(Segment) /\ Len(g) = 1 /\ g[1] = Gap
  BY GapIs
<1> HIDE DEF g
<1>2. g \o s \in Seq(Segment) /\ Len(g \o s) = 1 + Len(s) /\ (g \o s)[1] = Gap /\ Len(s) \in Nat
  BY <1>1, ConcatProperties
<1>3. g \o s # <<>>
  BY <1>2, EmptySeq
<1> QED BY <1>2, <1>3 DEF IsPath, g

LEMMA RowSegments ==
  ASSUME NEW url, IsUrl(url), Plain(url)
  PROVE  /\ IsPath(ExtractPath(url).segs) /\ IsPath(Own(url))
         /\ \/ ExtractPath(url).segs = Own(url)
            \/ ExtractPath(url).segs = <<Gap, Gap>> /\ Own(url) = <<Gap>>
         /\ url.path = <<>> => ExtractPath(url).query = url.raw.query
<1> DEFINE raw == url.raw
           s == url.raw.segs
<1>0. s \in Seq(Segment) /\ Len(s) \in Nat /\ url.path \in Seq(Segment)
  BY DEF IsUrl
<1>1. CASE url.path # <<>>
  <2>1. ExtractPath(url).segs = <<Gap>> \o url.path /\ Own(url) = <<Gap>> \o url.path
    BY <1>1, ExtractIs, OwnIs
  <2> QED BY <1>0, <1>1, <2>1, PathOfGap
<1>2. CASE url.path = <<>>
  <2>1. ExtractPath(url) = NormalizePath(raw)
    BY <1>2, ExtractIs
  <2>2. NormalizePath(raw) = [raw EXCEPT !.segs = Rest(raw)]
    BY NormalizeIs
  <2>3. NormalizePath(raw).segs = Rest(raw) /\ NormalizePath(raw).query = raw.query
    BY <2>2 DEF IsUrl
  <2>4. Own(url) = IF s[1] \in Schemes THEN <<Gap>> \o SubSeq(s, 4, Len(s)) ELSE <<Gap>> \o Tail(s)
    BY <1>2, OwnIs
  <2>5. \/ Len(s) > 1 /\ (s[1] = Gap \/ s[1] \in Templates) /\ Free(s, 2)
        \/ Len(s) > 2 /\ s[1] \in Schemes /\ s[2] = Gap /\ Free(s, 3)
    BY <1>2, PlainIs
  <2>6. Len(s) > 1 /\ ~Bare(raw)
    <3>1. Len(s) > 1
      BY <1>0, <2>5
    <3>2. SUFFICES ASSUME Bare(raw) PROVE FALSE
      BY <3>1, Zenon
    <3>3. s = <<Gap>>
      BY <3>2 DEF Bare
    <3>4. Len(<<Gap>>) = 1
      OBVIOUS
    <3>5. Len(s) = 1
      BY <3>3, <3>4, Zenon
    <3> QED BY <3>1, <3>5
  <2>7. s # <<>> /\ Tail(s) \in Seq(Segment)
    <3>1. s # <<>>
      BY <2>6, EmptySeq
    <3> QED BY <1>0, <3>1, HeadTailProperties
  <2>8. CASE s[1] = Gap
    <3>1. s[1] \notin Schemes
      BY <2>8, SchemesAre
    <3>2. Rest(raw) = s
      BY <2>6, <2>8 DEF Rest
    <3>3. <<Gap>> \o Tail(s) = s
      BY <1>0, <2>7, <2>8, HeadTailProperties, HeadTailAppend
    <3> QED BY <2>1, <2>3, <2>4, <2>7, <3>1, <3>2, <3>3, PathOfGap, <1>2
  <2>9. CASE s[1] \in Templates /\ Free(s, 2)
    <3>1. s[1] \notin Schemes /\ s[1] # Gap
      BY <2>9, SchemesAre, GapIs
    <3>2. Inner(raw) = {1}
      BY <1>0, <2>6, <2>9 DEF Inner, Free
    <3>3. Min({1}) = 1
      BY DEF Min
    <3>4. Rest(raw) = <<Gap>> \o SubSeq(s, 2, Len(s))
      BY <2>6, <3>1, <3>2, <3>3 DEF Rest
    <3>5. Tail(s) = SubSeq(s, 2, Len(s))
      BY <1>0, <2>7, TailIsSubSeq
    <3> QED BY <2>1, <2>3, <2>4, <2>7, <3>1, <3>4, <3>5, PathOfGap, <1>2
  <2>10. CASE Len(s) > 2 /\ s[1] \in Schemes /\ s[2] = Gap /\ Free(s, 3)
    <3>1. s[1] \notin Templates /\ s[1] \notin HostPorts /\ s[1] # Gap /\ Gap \notin Templates
      BY <2>10, SchemesAre, GapIs
    <3>2. Inner(raw) = {}
      <4>1. \A i \in 1..Len(s) : i = 1 \/ i = 2 \/ i \in 3..Len(s)
        BY <1>0
      <4>2. \A i \in 1..Len(s) : s[i] \notin Templates
        BY <2>10, <3>1, <4>1 DEF Free
      <4> QED BY <1>0, <4>2 DEF Inner
    <3>3. Own(url) = <<Gap>> \o SubSeq(s, 4, Len(s)) /\ SubSeq(s, 4, Len(s)) \in Seq(Segment)
      <4>1. SubSeq(s, 4, Len(s)) \in Seq(Segment)
        BY <1>0, SubSeqProperties
      <4> QED BY <2>4, <2>10, <4>1
    <3>4. CASE Len(s) = 3
      <4>1. Rest(raw) = <<Gap, Gap>>
        BY <2>6, <2>10, <3>1, <3>2, <3>4, RootIs DEF Rest
      <4>2. SubSeq(s, 4, Len(s)) = <<>>
        BY <3>4, <1>0, SubSeqProperties
      <4>3. Own(url) = <<Gap>>
        <5>1. <<Gap>> \o <<>> = <<Gap>>
          OBVIOUS
        <5> QED BY <3>3, <4>2, <5>1, Zenon
      <4>4. IsPath(<<Gap, Gap>>) /\ IsPath(<<Gap>>)
        BY GapIs DEF IsPath
      <4> QED BY <2>1, <2>3, <4>1, <4>3, <4>4, <1>2
    <3>5. CASE Len(s) # 3
      <4> DEFINE host == [i \in 1..Len(s) - 3 |->
                            LET u == s[i + 3] IN IF u \in Templates THEN Encoded[u] ELSE u]
      <4>1. Rest(raw) = <<Gap>> \o host
        BY <2>6, <2>10, <3>1, <3>2, <3>5 DEF Rest
      <4>2. \A i \in 1..Len(s) - 3 : host[i] = s[i + 3]
        BY <1>0, <2>10 DEF Free
      <4>3. host = SubSeq(s, 4, Len(s))
        <5>1. host = [i \in 1..Len(s) - 3 |-> s[i + 3]]
          BY <4>2
        <5>2. SubSeq(s, 4, Len(s)) \in Seq(Segment) /\ Len(SubSeq(s, 4, Len(s))) = Len(s) - 3
              /\ \A i \in 1..Len(s) - 3 : SubSeq(s, 4, Len(s))[i] = s[i + 3]
          BY <1>0, <2>10, <3>5, SubSeqProperties
        <5>3. [i \in 1..Len(s) - 3 |-> s[i + 3]] \in Seq(Segment)
              /\ Len([i \in 1..Len(s) - 3 |-> s[i + 3]]) = Len(s) - 3
          BY <1>0, <2>10, <3>5
        <5> HIDE DEF host
        <5> QED BY <5>1, <5>2, <5>3, SeqEqual
      <4> HIDE DEF host
      <4> QED BY <2>1, <2>3, <3>3, <4>1, <4>3, PathOfGap, <1>2
    <3> QED BY <3>4, <3>5
  <2> QED BY <2>5, <2>8, <2>9, <2>10
<1> QED BY <1>1, <1>2

-----------------------------------------------------------------------------
(* An item is resolved to one path, and its request is not resolved again. *)

IsEnvironment(e) ==
  /\ IsFiniteSet(DOMAIN e) /\ Values(e, DOMAIN e, Segment)
  /\ Gap \notin DOMAIN e /\ "1" \notin DOMAIN e

LEMMA EnvironmentsAre == \A e \in Environments : IsEnvironment(e)
BY EnvironmentsAssumption, GapIs DEF IsEnvironment, Values

Whole(s, e) == Expand(s, e, DOMAIN e)

LEMMA WholePath ==
  ASSUME NEW e, IsEnvironment(e), NEW y, IsPath(y)
  PROVE  IsPath(Whole(y, e))
<1> DEFINE D == DOMAIN e
           g == <<Gap>>
           t == Tail(y)
<1>1. y \in Seq(Segment) /\ y # <<>> /\ y[1] = Gap /\ t \in Seq(Segment)
  BY HeadTailProperties DEF IsPath
<1>2. y = g \o t
  BY <1>1, HeadTailProperties, HeadTailAppend
<1>3. Values(e, D, Segment) /\ Gap \notin D
  BY DEF IsEnvironment
<1>4. g \in Seq(Segment) /\ \A i \in 1..Len(g) : g[i] \notin D
  BY <1>3, GapIs
<1> HIDE DEF g, t, D
<1>5. Expand(g \o t, e, D) = Expand(g, e, D) \o Expand(t, e, D)
  BY <1>1, <1>3, <1>4, ExpandJoins
<1>6. Expand(g, e, D) = g
  BY <1>3, <1>4, ExpandNothing
<1>7. Expand(t, e, D) \in Seq(Segment)
  BY <1>1, <1>3, ExpandPieces
<1>8. IsPath(g \o Expand(t, e, D))
  BY <1>7, PathOfGap DEF g
<1> QED BY <1>2, <1>5, <1>6, <1>8 DEF Whole, D

LEMMA WholeHasNone ==
  ASSUME NEW e, IsEnvironment(e), NEW y \in Seq(Segment), Stable(y, e)
  PROVE  \A i \in 1..Len(Whole(y, e)) : Whole(y, e)[i] \notin DOMAIN e
<1> DEFINE D == DOMAIN e
<1>1. ASSUME NEW i \in 1..Len(Expand(y, e, D)) PROVE Expand(y, e, D)[i] \notin D
  <2>0. Values(e, D, Segment)
    BY DEF IsEnvironment
  <2> HIDE DEF D
  <2>1. PICK j \in 1..Len(y) :
          \E k \in 1..Len(Piece(y[j], e, D)) : Expand(y, e, D)[i] = Piece(y[j], e, D)[k]
    BY <2>0, ExpandElements
  <2>2. PICK k \in 1..Len(Piece(y[j], e, D)) : Expand(y, e, D)[i] = Piece(y[j], e, D)[k]
    BY <2>1
  <2>3. CASE y[j] \in D
    <3>1. Piece(y[j], e, D) = e[y[j]]
      BY <2>3 DEF Piece
    <3>2. \A n \in 1..Len(e[y[j]]) : e[y[j]][n] \notin D
      BY <2>3 DEF Stable, D
    <3> QED BY <2>2, <3>1, <3>2
  <2>4. CASE y[j] \notin D
    <3>1. Piece(y[j], e, D) = <<y[j]>>
      BY <2>4 DEF Piece
    <3>2. \A z : Len(<<z>>) = 1 /\ <<z>>[1] = z
      OBVIOUS
    <3>3. k \in 1..1
      BY <3>1, <3>2
    <3> QED BY <2>2, <2>4, <3>1, <3>2, <3>3
  <2> QED BY <2>3, <2>4
<1> QED BY <1>1 DEF Whole

LEMMA SettledIs ==
  ASSUME NEW s, s \in Seq(Segment), Settled(s), IsEnvironment(env)
  PROVE  Stable(s, env)
<1>1. ASSUME NEW i \in 1..Len(s), s[i] \in DOMAIN env, NEW j \in 1..Len(env[s[i]])
      PROVE  env[s[i]][j] \notin DOMAIN env
  <2> DEFINE t == s[i]
  <2>1. t \in Range(s) \cap DOMAIN env
    BY <1>1 DEF Range
  <2>2. Range(env[t]) \cap DOMAIN env = {}
    BY <2>1 DEF Settled
  <2>3. env[t] \in Seq(Segment)
    BY <1>1 DEF IsEnvironment, Values
  <2> HIDE DEF t
  <2>4. env[t][j] \in Range(env[t])
    <3>1. j \in DOMAIN env[t]
      BY <1>1, <2>3 DEF t
    <3> QED BY <3>1 DEF Range
  <2> QED BY <2>2, <2>4 DEF t
<1> QED BY <1>1 DEF Stable

(* A request names no variable, so that it is answered as it stands.       *)
LEMMA FilledStays ==
  ASSUME NEW e, IsEnvironment(e), NEW y \in Seq(Segment), Stable(y, e),
         NEW p, p.segs = Filled(Whole(y, e)), p = [p EXCEPT !.segs = p.segs]
  PROVE  Resolved(p, e) = {p}
<1> DEFINE w == Whole(y, e)
           B == Segment \cup {"1"}
           D == DOMAIN e
<1>1. Values(e, D, Segment) /\ IsFiniteSet(D) /\ "1" \notin D
  BY DEF IsEnvironment
<1>2. w \in Seq(Segment)
  BY <1>1, ExpandPieces DEF Whole
<1>3. \A i \in 1..Len(w) : w[i] \notin D
  BY WholeHasNone
<1> HIDE DEF w
<1>4. /\ Filled(w) \in Seq(B) /\ Len(Filled(w)) = Len(w)
      /\ \A i \in 1..Len(w) : Filled(w)[i] = IF w[i] \in Wildcards THEN "1" ELSE w[i]
  <2>1. Filled(w) \in [1..Len(w) -> B]
    BY <1>2 DEF Filled
  <2>2. \A i \in 1..Len(w) : Filled(w)[i] = IF w[i] \in Wildcards THEN "1" ELSE w[i]
    BY <1>2 DEF Filled
  <2> HIDE DEF B
  <2> QED BY <1>2, <2>1, <2>2
<1>5. Values(e, D, B)
  BY <1>1 DEF Values
<1>6. p.segs \in Seq(B) /\ \A i \in 1..Len(p.segs) : p.segs[i] \notin D
  BY <1>1, <1>3, <1>4 DEF w
<1>7. Stable(p.segs, e)
  BY <1>6 DEF Stable
<1> HIDE DEF B
<1>8. Resolved(p, e) = {[p EXCEPT !.segs = Expand(p.segs, e, D)]}
  <2>1. Values(e, DOMAIN e, B) /\ IsFiniteSet(DOMAIN e)
    BY <1>1, <1>5
  <2>2. p.segs \in Seq(B)
    BY <1>6
  <2> QED BY <1>7, <2>1, <2>2, ResolvedOnce
<1>9. Expand(p.segs, e, D) = p.segs
  <2> HIDE DEF D
  <2> QED BY <1>5, <1>6, ExpandNothing
<1> QED BY <1>8, <1>9

-----------------------------------------------------------------------------
(* The row of an item answers the request that the item sends.             *)

IsSendable(item) ==
  /\ IsUrl(item.request.url) /\ Plain(item.request.url)
  /\ Settled(Own(item.request.url))

LEMMA ExtractIsPath ==
  ASSUME NEW url, IsUrl(url)
  PROVE  DOMAIN ExtractPath(url) = {"segs", "query"}
<1>1. CASE url.path # <<>>
  BY <1>1, ExtractIs
<1>2. CASE url.path = <<>>
  <2>1. ExtractPath(url) = [url.raw EXCEPT !.segs = Rest(url.raw)]
    BY <1>2, ExtractIs, NormalizeIs
  <2>2. DOMAIN [url.raw EXCEPT !.segs = Rest(url.raw)] = DOMAIN url.raw
    OBVIOUS
  <2> QED BY <2>1, <2>2 DEF IsUrl
<1> QED BY <1>1, <1>2

LEMMA ItemResolved ==
  ASSUME IsEnvironment(env), NEW item, IsSendable(item)
  PROVE  LET url == item.request.url
             x == ExtractPath(url)
             y == Whole(Own(url), env)
         IN  /\ Resolved(x, env) = {[x EXCEPT !.segs = Whole(x.segs, env)]}
             /\ Rooted(Whole(x.segs, env)) = Rooted(y)
             /\ Addressed(item) = [segs |-> y, query |-> Query(url)]
             /\ Sent(item) = [method |-> item.request.method, body |-> SentBody(item.request.body),
                              path |-> [segs |-> Filled(y), query |-> Query(url)]]
             /\ Resolved(Sent(item).path, env) = {Sent(item).path}
<1> DEFINE url == item.request.url
           x == ExtractPath(url)
           own == Own(url)
           y == Whole(own, env)
<1>0. IsUrl(url) /\ Plain(url) /\ Settled(own)
  BY DEF IsSendable
<1>1. /\ IsPath(x.segs) /\ IsPath(own)
      /\ x.segs = own \/ (x.segs = <<Gap, Gap>> /\ own = <<Gap>>)
  BY <1>0, RowSegments
<1>2. DOMAIN x = {"segs", "query"}
  BY <1>0, ExtractIsPath
<1> HIDE DEF url, own
<1>3. Stable(own, env)
  BY <1>0, <1>1, SettledIs DEF IsPath
<1>4. ASSUME x.segs = <<Gap, Gap>>, own = <<Gap>>
      PROVE  Whole(x.segs, env) = x.segs /\ y = own /\ Stable(x.segs, env)
  <2>1. x.segs \in Seq(Segment) /\ \A i \in 1..Len(x.segs) : x.segs[i] \notin DOMAIN env
    BY <1>1, <1>4 DEF IsPath, IsEnvironment
  <2>2. own \in Seq(Segment) /\ \A i \in 1..Len(own) : own[i] \notin DOMAIN env
    BY <1>1, <1>4 DEF IsPath, IsEnvironment
  <2>3. Values(env, DOMAIN env, Segment)
    BY DEF IsEnvironment
  <2>4. Whole(x.segs, env) = x.segs
    BY <2>1, <2>3, ExpandNothing DEF Whole
  <2>5. Whole(own, env) = own
    BY <2>2, <2>3, ExpandNothing DEF Whole
  <2> QED BY <2>1, <2>4, <2>5 DEF Stable
<1>5. Stable(x.segs, env)
  BY <1>1, <1>3, <1>4
<1>6. Rooted(Whole(x.segs, env)) = Rooted(y)
  <2>1. CASE x.segs = <<Gap, Gap>> /\ own = <<Gap>>
    <3> DEFINE u == <<Gap, Gap>>
               v == <<Gap>>
    <3>1. Len(u) = 2 /\ u[1] = Gap /\ Len(v) = 1 /\ v \o v = u
      <4>1. u \in Seq(Segment) /\ Len(u) = 2 /\ u[1] = Gap /\ u[2] = Gap
        BY GapIs
      <4>2. v \in Seq(Segment) /\ Len(v) = 1 /\ v[1] = Gap
        BY GapIs
      <4> HIDE DEF u, v
      <4>3. v \o v \in Seq(Segment) /\ Len(v \o v) = 2 /\ (v \o v)[1] = Gap /\ (v \o v)[2] = Gap
        BY <4>2, ConcatProperties
      <4>4. \A i \in 1..Len(u) : u[i] = (v \o v)[i]
        BY <4>1, <4>3
      <4>5. u = v \o v
        BY <4>1, <4>3, <4>4, SeqEqual
      <4> QED BY <4>1, <4>2, <4>5
    <3>2. Whole(x.segs, env) = u /\ y = v
      BY <1>4, <2>1
    <3> HIDE DEF u, v
    <3>3. Rooted(u) = u
      BY <3>1 DEF Rooted
    <3>4. Rooted(v) = v \o v
      BY <3>1 DEF Rooted, v
    <3> QED BY <3>1, <3>2, <3>3, <3>4
  <2> QED BY <1>1, <2>1
<1>7. Resolved(x, env) = {[x EXCEPT !.segs = Whole(x.segs, env)]}
  BY <1>1, <1>5, ResolvedOnce DEF IsEnvironment, IsPath, Whole
<1>8. Addressed(item) = [segs |-> y, query |-> Query(url)]
  <2> DEFINE p == [segs |-> own, query |-> Query(url)]
  <2>1. p.segs = own
    OBVIOUS
  <2>2. Resolved(p, env) = {[p EXCEPT !.segs = y]}
    <3> HIDE DEF p
    <3> QED BY <1>1, <1>3, <2>1, ResolvedOnce DEF IsEnvironment, IsPath, Whole
  <2>3. [p EXCEPT !.segs = y] = [segs |-> y, query |-> Query(url)]
    OBVIOUS
  <2>4. Addressed(item) = CHOOSE q \in Resolved(p, env) : TRUE
    BY DEF Addressed, url, own
  <2> HIDE DEF p, y
  <2> QED BY <2>2, <2>3, <2>4
<1>9. Sent(item) = [method |-> item.request.method, body |-> SentBody(item.request.body),
                    path |-> [segs |-> Filled(y), query |-> Query(url)]]
  <2>1. [Addressed(item) EXCEPT !.segs = Filled(@)] = [segs |-> Filled(y), query |-> Query(url)]
    <3> HIDE DEF y
    <3> QED BY <1>8
  <2> QED BY <2>1 DEF Sent
<1>10. Resolved(Sent(item).path, env) = {Sent(item).path}
  <2> DEFINE p == Sent(item).path
  <2>1. p = [segs |-> Filled(y), query |-> Query(url)]
    BY <1>9
  <2>2. p.segs = Filled(y) /\ p = [p EXCEPT !.segs = p.segs]
    <3> HIDE DEF p, y
    <3> QED BY <2>1
  <2> HIDE DEF p
  <2>3. Resolved(p, env) = {p}
    BY <1>1, <1>3, <2>2, FilledStays DEF IsPath
  <2> QED BY <2>3 DEF p
<1> QED BY <1>6, <1>7, <1>8, <1>9, <1>10 DEF url, own

Key(path) ==
  [i \in DOMAIN path.segs |-> CHOOSE n \in DOMAIN Collation : Collation[n] = path.segs[i]]
    \o (IF path.query = {} THEN <<>> ELSE <<Len(Collation) + 1>>)

LEMMA NotBeforeItself ==
  ASSUME NEW path, path.segs \in Seq(Segment)
  PROVE  ~Before(path, path)
<1> DEFINE a == [i \in DOMAIN path.segs |-> CHOOSE n \in DOMAIN Collation : Collation[n] = path.segs[i]]
           b == IF path.query = {} THEN <<>> ELSE <<Len(Collation) + 1>>
           k == Key(path)
<1>1. Collation \in Seq(Segment) /\ Len(Collation) \in Nat /\ DOMAIN Collation \subseteq Nat
  <2>1. Collation \in Seq(Segment)
    BY CollationAssumption, Zenon
  <2> QED BY <2>1
<1>2. \A s \in Segment : (CHOOSE n \in DOMAIN Collation : Collation[n] = s) \in Nat
  BY <1>1 DEF Segment, Range
<1>3. a \in Seq(Nat)
  <2>1. a \in [1..Len(path.segs) -> Nat] /\ Len(path.segs) \in Nat
    BY <1>2
  <2> HIDE DEF a
  <2> QED BY <2>1
<1>4. b \in Seq(Nat)
  BY <1>1
<1>5. k \in Seq(Nat)
  <2>1. k = a \o b
    BY DEF Key
  <2> HIDE DEF a, b
  <2> QED BY <1>3, <1>4, <2>1, ConcatProperties
<1>6. Before(path, path) => \E i \in DOMAIN k : i > Len(k) \/ k[i] < k[i]
  BY Zenon DEF Before, Key
<1> HIDE DEF k
<1> QED BY <1>5, <1>6

Fit(row, table, e, method, p) ==
  /\ row \in table /\ row.method = method /\ row.path.segs \in Seq(Segment)
  /\ \A c \in Resolved(row.path, e) : RoutePathsMatch(c, p)

Rival(own, table, e, method, p) ==
  \E row \in table \ {own} :
    row.method = method /\ \E c \in Resolved(row.path, e) : RoutePathsMatch(c, p)

(* What answers, of a table with a row that matches whatever the order.    *)
LEMMA RowAnswers ==
  ASSUME NEW table, NEW e, NEW method, NEW p, NEW own, IsEnvironment(e), Resolved(p, e) = {p},
         Fit(own, table, e, method, p), \A row \in table : row # Unanswered
  PROVE  /\ Unanswered \notin Find(table, e, method, p)
         /\ ~Rival(own, table, e, method, p) => Find(table, e, method, p) = {own}
<1> DEFINE candidates == {row \in table : row.method = method}
           may(row) == \E c \in Resolved(row.path, e) : RoutePathsMatch(c, p)
           must(row) == \A c \in Resolved(row.path, e) : RoutePathsMatch(c, p)
           first == {row \in candidates : may(row) /\
                       ~\E other \in candidates : must(other) /\ Before(other.path, row.path)}
           none == IF \E row \in candidates : must(row) THEN {} ELSE {Unanswered}
<1>1. Find(table, e, method, p) = first \cup none
  <2> DEFINE F(q) == {row \in candidates : (\E c \in Resolved(row.path, e) : RoutePathsMatch(c, q)) /\
                       ~\E other \in candidates :
                           (\A c \in Resolved(other.path, e) : RoutePathsMatch(c, q))
                              /\ Before(other.path, row.path)}
             N(q) == IF \E row \in candidates : \A c \in Resolved(row.path, e) : RoutePathsMatch(c, q)
                     THEN {} ELSE {Unanswered}
  <2>1. Find(table, e, method, p) = UNION {F(q) \cup N(q) : q \in Resolved(p, e)}
    BY Zenon DEF Find
  <2>2. F(p) = first /\ N(p) = none
    OBVIOUS
  <2> HIDE DEF F, N, first, none
  <2>3. UNION {F(q) \cup N(q) : q \in {p}} = F(p) \cup N(p)
    OBVIOUS
  <2> QED BY <2>1, <2>2, <2>3
<1>2. own \in candidates /\ must(own)
  BY DEF Fit
<1>3. \A row : must(row) => may(row)
  <2>1. \A row : Resolved(row.path, e) # {}
    BY ResolvedExists DEF IsEnvironment
  <2> QED BY <2>1
<1>4. ~Before(own.path, own.path)
  BY NotBeforeItself DEF Fit
<1>5. candidates \subseteq table /\ \A row \in candidates : row.method = method
  OBVIOUS
<1> HIDE DEF may, must, candidates
<1>6. none = {}
  BY <1>2
<1>7. first \subseteq table
  BY <1>5
<1>8. ASSUME ~\E row \in table \ {own} : row.method = method /\ may(row)
      PROVE  first = {own}
  <2>1. \A row \in candidates : may(row) => row = own
    BY <1>5, <1>8
  <2>2. own \in first
    BY <1>2, <1>3, <1>4, <2>1
  <2>3. \A row \in first : row = own
    BY <2>1
  <2> HIDE DEF first
  <2> QED BY <2>2, <2>3
<1> HIDE DEF first, none
<1>9. Unanswered \notin Find(table, e, method, p)
  BY <1>1, <1>6, <1>7
<1>10. (~\E row \in table \ {own} : row.method = method /\ may(row))
         => Find(table, e, method, p) = {own}
  BY <1>1, <1>6, <1>8
<1> QED BY <1>9, <1>10 DEF may, Rival

-----------------------------------------------------------------------------
(* What an import leaves in the table.                                     *)

KeyOf(d) == <<d.method, d.path>>

IsRowOf(row, d) ==
  /\ row # Unanswered
  /\ row.method = d.method /\ row.path = d.path
  /\ row.types = d.types /\ row.params = d.params

LEMMA UpsertIs ==
  ASSUME NEW table, NEW d
  PROVE  /\ DOMAIN Upsert(table, d) = DOMAIN table \cup {KeyOf(d)}
         /\ IsRowOf(Upsert(table, d)[KeyOf(d)], d)
         /\ \A k \in DOMAIN table : k # KeyOf(d) => Upsert(table, d)[k] = table[k]
<1> DEFINE key == <<d.method, d.path>>
           kept == key \in DOMAIN table /\ Contains(d.examples, table[key].sel)
           sel == IF kept THEN table[key].sel ELSE d.examples[1]
           row == [sel |-> sel, method |-> d.method, path |-> d.path, folders |-> d.folders,
                   examples |-> d.examples, types |-> d.types, params |-> d.params]
<1>1. Upsert(table, d) = [k \in DOMAIN table \cup {key} |-> IF k = key THEN row ELSE table[k]]
  BY Zenon DEF Upsert
<1>2. IsRowOf(row, d)
  <2> HIDE DEF sel
  <2>1. DOMAIN row # DOMAIN Unanswered
    <3>1. "sel" \in DOMAIN row /\ "sel" \notin DOMAIN Unanswered
      BY DEF Unanswered
    <3> HIDE DEF row
    <3> QED BY <3>1
  <2>2. row # Unanswered
    <3> HIDE DEF row
    <3> QED BY <2>1
  <2> QED BY <2>2 DEF IsRowOf
<1> HIDE DEF row
<1> QED BY <1>1, <1>2 DEF KeyOf

Imports(f, table, definitions, n) ==
  f = [m \in 0..n |-> IF m = 0 THEN table ELSE Upsert(f[m - 1], definitions[m])]

LEMMA ImportsExists ==
  ASSUME NEW table, NEW definitions, NEW N \in Nat
  PROVE  \E f : Imports(f, table, definitions, N)
<1> DEFINE S == {n \in 0..N : \E f : Imports(f, table, definitions, n)}
<1>1. 0 \in S
  <2> DEFINE f == [m \in 0..0 |-> table]
  <2>1. f = [m \in 0..0 |-> IF m = 0 THEN table ELSE Upsert(f[m - 1], definitions[m])]
    OBVIOUS
  <2> HIDE DEF f
  <2>2. Imports(f, table, definitions, 0)
    BY <2>1 DEF Imports
  <2> QED BY <2>2
<1>2. ASSUME NEW n \in 1..N, n - 1 \in S PROVE n \in S
  <2>1. PICK f : Imports(f, table, definitions, n - 1)
    BY <1>2
  <2> DEFINE last == Upsert(f[n - 1], definitions[n])
             g == [m \in 0..n |-> IF m = n THEN last ELSE f[m]]
  <2>2. ASSUME NEW m \in 0..n
        PROVE  g[m] = IF m = 0 THEN table ELSE Upsert(g[m - 1], definitions[m])
    <3> HIDE DEF last
    <3>1. CASE m = n
      <4>1. g[m] = last /\ g[m - 1] = f[n - 1] /\ m # 0
        BY <3>1
      <4> HIDE DEF g
      <4> QED BY <3>1, <4>1 DEF last
    <3>2. CASE m # n
      <4>1. m \in 0..n - 1
        BY <3>2
      <4>2. f[m] = IF m = 0 THEN table ELSE Upsert(f[m - 1], definitions[m])
        BY <2>1, <4>1, Zenon DEF Imports
      <4>3. g[m] = f[m] /\ (m # 0 => g[m - 1] = f[m - 1])
        BY <3>2
      <4> HIDE DEF g
      <4> QED BY <4>2, <4>3
    <3> QED BY <3>1, <3>2
  <2>3. g = [m \in 0..n |-> g[m]]
    OBVIOUS
  <2> HIDE DEF g
  <2>4. Imports(g, table, definitions, n)
    BY <2>2, <2>3 DEF Imports
  <2> QED BY <2>4
<1>3. N \in S
  <2> HIDE DEF S
  <2>1. 0..N \subseteq S
    BY <1>1, <1>2, UpTo
  <2> QED BY <2>1
<1> QED BY <1>3

Holding(table, definitions, n) ==
  /\ \A k \in DOMAIN table : table[k] # Unanswered
  /\ \A i \in 1..n :
       /\ KeyOf(definitions[i]) \in DOMAIN table
       /\ \E j \in 1..n : /\ KeyOf(definitions[j]) = KeyOf(definitions[i])
                         /\ IsRowOf(table[KeyOf(definitions[i])], definitions[j])

LEMMA HoldingOneMore ==
  ASSUME NEW table, NEW definitions, NEW n \in Nat \ {0}, Holding(table, definitions, n - 1)
  PROVE  Holding(Upsert(table, definitions[n]), definitions, n)
<1> DEFINE d == definitions[n]
           new == Upsert(table, d)
<1>1. /\ DOMAIN new = DOMAIN table \cup {KeyOf(d)}
      /\ IsRowOf(new[KeyOf(d)], d)
      /\ \A k \in DOMAIN table : k # KeyOf(d) => new[k] = table[k]
  BY UpsertIs
<1> HIDE DEF new
<1>2. \A k \in DOMAIN new : new[k] # Unanswered
  BY <1>1 DEF Holding, IsRowOf
<1>3. ASSUME NEW i \in 1..n
      PROVE  /\ KeyOf(definitions[i]) \in DOMAIN new
             /\ \E j \in 1..n : /\ KeyOf(definitions[j]) = KeyOf(definitions[i])
                               /\ IsRowOf(new[KeyOf(definitions[i])], definitions[j])
  <2>1. CASE KeyOf(definitions[i]) = KeyOf(d)
    BY <1>1, <2>1
  <2>2. CASE KeyOf(definitions[i]) # KeyOf(d)
    <3>1. i \in 1..n - 1
      BY <2>2
    <3>2. PICK j \in 1..n - 1 : /\ KeyOf(definitions[j]) = KeyOf(definitions[i])
                               /\ IsRowOf(table[KeyOf(definitions[i])], definitions[j])
      BY <3>1 DEF Holding
    <3>3. KeyOf(definitions[i]) \in DOMAIN table
      BY <3>1 DEF Holding
    <3>4. j \in 1..n /\ new[KeyOf(definitions[i])] = table[KeyOf(definitions[i])]
      BY <1>1, <2>2, <3>3
    <3> QED BY <1>1, <3>2, <3>3, <3>4
  <2> QED BY <2>1, <2>2
<1> QED BY <1>2, <1>3 DEF Holding, new

LEMMA ImportHolds ==
  ASSUME NEW table, NEW definitions, Len(definitions) \in Nat,
         \A k \in DOMAIN table : table[k] # Unanswered
  PROVE  Holding(ImportDefinitions(table, definitions), definitions, Len(definitions))
<1> DEFINE N == Len(definitions)
           f == CHOOSE g : Imports(g, table, definitions, N)
<1>1. ImportDefinitions(table, definitions) = f[N]
  BY DEF ImportDefinitions, Imports
<1>2. Imports(f, table, definitions, N)
  BY ImportsExists, Zenon
<1> HIDE DEF f
<1> DEFINE S == {n \in 0..N : Holding(f[n], definitions, n)}
<1>3. 0 \in S
  <2>1. f[0] = table
    BY <1>2 DEF Imports
  <2> QED BY <2>1 DEF Holding
<1>4. ASSUME NEW n \in 1..N, n - 1 \in S PROVE n \in S
  <2>1. f[n] = Upsert(f[n - 1], definitions[n])
    BY <1>2 DEF Imports
  <2>2. Holding(f[n - 1], definitions, n - 1) /\ n \in Nat \ {0}
    BY <1>4
  <2>3. Holding(f[n], definitions, n)
    BY <2>1, <2>2, HoldingOneMore
  <2> QED BY <2>3
<1>5. N \in S
  <2> HIDE DEF S
  <2>1. 0..N \subseteq S
    BY <1>3, <1>4, UpTo
  <2> QED BY <2>1
<1> QED BY <1>1, <1>5

-----------------------------------------------------------------------------
(* The items of a collection, and the requests that are read from it.      *)

Levelled(f, items, n) ==
  f = [m \in 0..n |-> IF m = 0 THEN ToSet(items) ELSE UNION {ToSet(item.item) : item \in f[m - 1]}]

LEMMA LevelledExists ==
  ASSUME NEW items, NEW N \in Nat
  PROVE  \E f : Levelled(f, items, N)
<1> DEFINE S == {n \in 0..N : \E f : Levelled(f, items, n)}
<1>1. 0 \in S
  <2> DEFINE f == [m \in 0..0 |-> ToSet(items)]
  <2>1. f = [m \in 0..0 |-> IF m = 0 THEN ToSet(items)
                            ELSE UNION {ToSet(item.item) : item \in f[m - 1]}]
    OBVIOUS
  <2> HIDE DEF f
  <2>2. Levelled(f, items, 0)
    BY <2>1 DEF Levelled
  <2> QED BY <2>2
<1>2. ASSUME NEW n \in 1..N, n - 1 \in S PROVE n \in S
  <2>1. PICK f : Levelled(f, items, n - 1)
    BY <1>2
  <2> DEFINE last == UNION {ToSet(item.item) : item \in f[n - 1]}
             g == [m \in 0..n |-> IF m = n THEN last ELSE f[m]]
  <2>2. ASSUME NEW m \in 0..n
        PROVE  g[m] = IF m = 0 THEN ToSet(items) ELSE UNION {ToSet(item.item) : item \in g[m - 1]}
    <3> HIDE DEF last
    <3>1. CASE m = n
      <4>1. g[m] = last /\ g[m - 1] = f[n - 1] /\ m # 0
        BY <3>1
      <4> HIDE DEF g
      <4> QED BY <3>1, <4>1 DEF last
    <3>2. CASE m # n
      <4>1. m \in 0..n - 1
        BY <3>2
      <4>2. f[m] = IF m = 0 THEN ToSet(items) ELSE UNION {ToSet(item.item) : item \in f[m - 1]}
        BY <2>1, <4>1, Zenon DEF Levelled
      <4>3. g[m] = f[m] /\ (m # 0 => g[m - 1] = f[m - 1])
        BY <3>2
      <4> HIDE DEF g
      <4> QED BY <4>2, <4>3
    <3> QED BY <3>1, <3>2
  <2>3. g = [m \in 0..n |-> g[m]]
    OBVIOUS
  <2> HIDE DEF g
  <2>4. Levelled(g, items, n)
    BY <2>2, <2>3, Zenon DEF Levelled
  <2> QED BY <2>4
<1>3. N \in S
  <2> HIDE DEF S
  <2>1. 0..N \subseteq S
    BY <1>1, <1>2, UpTo
  <2> QED BY <2>1
<1> QED BY <1>3

LEMMA BelowIs ==
  ASSUME NEW items
  PROVE  /\ Below(items)[0] = ToSet(items)
         /\ \A n \in 1..Levels :
              Below(items)[n] = UNION {ToSet(item.item) : item \in Below(items)[n - 1]}
<1> DEFINE f == CHOOSE g : Levelled(g, items, Levels)
<1>1. Below(items) = f
  BY DEF Below, Levelled
<1>2. Levelled(f, items, Levels)
  BY LevelledExists, LevelsAssumption, Zenon
<1> HIDE DEF f
<1>3. f[0] = ToSet(items)
  BY <1>2, LevelsAssumption DEF Levelled
<1>4. ASSUME NEW n \in 1..Levels
      PROVE  f[n] = UNION {ToSet(item.item) : item \in f[n - 1]}
  <2>1. n \in 0..Levels /\ n # 0
    BY LevelsAssumption
  <2> QED BY <1>2, <2>1, Zenon DEF Levelled
<1> QED BY <1>1, <1>3, <1>4

Opens(f, items, n) ==
  f = [m \in 0..n |-> IF m = 0 THEN [i \in DOMAIN items |-> [item |-> items[i], folders |-> <<>>]]
                      ELSE OpenFolders(f[m - 1])]

LEMMA OpensExists ==
  ASSUME NEW items, NEW N \in Nat
  PROVE  \E f : Opens(f, items, N)
<1> DEFINE start == [i \in DOMAIN items |-> [item |-> items[i], folders |-> <<>>]]
           S == {n \in 0..N : \E f : Opens(f, items, n)}
<1>0. \A f, n : Opens(f, items, n) <=> f = [m \in 0..n |-> IF m = 0 THEN start ELSE OpenFolders(f[m - 1])]
  BY Zenon DEF Opens
<1> HIDE DEF start
<1>1. 0 \in S
  <2> DEFINE f == [m \in 0..0 |-> start]
  <2>1. f = [m \in 0..0 |-> IF m = 0 THEN start ELSE OpenFolders(f[m - 1])]
    OBVIOUS
  <2> HIDE DEF f
  <2>2. Opens(f, items, 0)
    BY <1>0, <2>1
  <2> QED BY <2>2
<1>2. ASSUME NEW n \in 1..N, n - 1 \in S PROVE n \in S
  <2>1. PICK f : Opens(f, items, n - 1)
    BY <1>2
  <2> DEFINE last == OpenFolders(f[n - 1])
             g == [m \in 0..n |-> IF m = n THEN last ELSE f[m]]
  <2>2. ASSUME NEW m \in 0..n
        PROVE  g[m] = IF m = 0 THEN start ELSE OpenFolders(g[m - 1])
    <3> HIDE DEF last
    <3>1. CASE m = n
      <4>1. g[m] = last /\ g[m - 1] = f[n - 1] /\ m # 0
        BY <3>1
      <4> HIDE DEF g
      <4> QED BY <3>1, <4>1 DEF last
    <3>2. CASE m # n
      <4>1. m \in 0..n - 1
        BY <3>2
      <4>2. f[m] = IF m = 0 THEN start ELSE OpenFolders(f[m - 1])
        BY <1>0, <2>1, <4>1, Zenon
      <4>3. g[m] = f[m] /\ (m # 0 => g[m - 1] = f[m - 1])
        BY <3>2
      <4> HIDE DEF g
      <4> QED BY <4>2, <4>3
    <3> QED BY <3>1, <3>2
  <2>3. g = [m \in 0..n |-> g[m]]
    OBVIOUS
  <2> HIDE DEF g
  <2>4. g = [m \in 0..n |-> IF m = 0 THEN start ELSE OpenFolders(g[m - 1])]
    BY <2>2, <2>3
  <2>5. Opens(g, items, n)
    BY <1>0, <2>4
  <2> QED BY <2>5
<1>3. N \in S
  <2> HIDE DEF S
  <2>1. 0..N \subseteq S
    BY <1>1, <1>2, UpTo
  <2> QED BY <2>1
<1> QED BY <1>3

Entries(I, F) == [item : I, folders : Seq(F)]

ItemsOf(entries) == {entries[i].item : i \in 1..Len(entries)}

Inside(item) ==
  IF item.item # <<>> THEN ToSet(item.item)
  ELSE IF item.request = NoRequest THEN {} ELSE {item}

Opened(entry) ==
  LET folder == entry.item
      inside == IF folder.name = Blank THEN entry.folders
                ELSE Append(entry.folders, folder.name)
  IN IF folder.item # <<>>
     THEN [j \in DOMAIN folder.item |-> [item |-> folder.item[j], folders |-> inside]]
     ELSE IF folder.request = NoRequest THEN <<>> ELSE <<entry>>

LEMMA OpenFoldersIs ==
  ASSUME NEW entries
  PROVE  OpenFolders(entries) = FlattenSeq([i \in DOMAIN entries |-> Opened(entries[i])])
BY Zenon DEF OpenFolders, Opened

(* A set of items with all that is in them, and their names.               *)
Closed(I, F) == \A x \in I : x.item \in Seq(I) /\ x.name \in F

LEMMA OpenedIs ==
  ASSUME NEW I, NEW F, Closed(I, F), NEW entry \in Entries(I, F)
  PROVE  Opened(entry) \in Seq(Entries(I, F)) /\ ItemsOf(Opened(entry)) = Inside(entry.item)
<1> DEFINE folder == entry.item
           inside == IF folder.name = Blank THEN entry.folders
                     ELSE Append(entry.folders, folder.name)
           some == [j \in DOMAIN folder.item |-> [item |-> folder.item[j], folders |-> inside]]
<1>1. folder \in I /\ folder.item \in Seq(I) /\ inside \in Seq(F)
  BY DEF Entries, Closed
<1>2. CASE folder.item # <<>>
  <2>1. Opened(entry) = some
    BY <1>2 DEF Opened
  <2>2. Inside(folder) = ToSet(folder.item)
    BY <1>2 DEF Inside
  <2> HIDE DEF inside
  <2>3. some \in [1..Len(folder.item) -> Entries(I, F)] /\ Len(folder.item) \in Nat
    BY <1>1 DEF Entries
  <2>4. \A j \in 1..Len(folder.item) : some[j].item = folder.item[j]
    BY <1>1
  <2> HIDE DEF some, folder
  <2>5. some \in Seq(Entries(I, F)) /\ Len(some) = Len(folder.item)
    BY <2>3
  <2>6. ItemsOf(some) = ToSet(folder.item)
    <3>1. ToSet(folder.item) = {folder.item[j] : j \in 1..Len(folder.item)}
      BY <1>1 DEF ToSet
    <3>2. ItemsOf(some) = {some[j].item : j \in 1..Len(folder.item)}
      BY <2>5 DEF ItemsOf
    <3> QED BY <2>4, <3>1, <3>2
  <2> QED BY <2>1, <2>2, <2>5, <2>6 DEF folder
<1>3. CASE folder.item = <<>> /\ folder.request = NoRequest
  <2>1. Opened(entry) = <<>> /\ Inside(folder) = {}
    BY <1>3 DEF Opened, Inside
  <2>2. ItemsOf(<<>>) = {}
    BY DEF ItemsOf
  <2> QED BY <2>1, <2>2
<1>4. CASE folder.item = <<>> /\ folder.request # NoRequest
  <2>1. Opened(entry) = <<entry>> /\ Inside(folder) = {folder}
    BY <1>4 DEF Opened, Inside
  <2>2. ItemsOf(<<entry>>) = {folder}
    BY DEF ItemsOf
  <2> QED BY <2>1, <2>2
<1> QED BY <1>2, <1>3, <1>4

LEMMA OpenFoldersItems ==
  ASSUME NEW I, NEW F, Closed(I, F), NEW entries \in Seq(Entries(I, F))
  PROVE  /\ OpenFolders(entries) \in Seq(Entries(I, F))
         /\ ItemsOf(OpenFolders(entries)) = UNION {Inside(x) : x \in ItemsOf(entries)}
<1> DEFINE E == Entries(I, F)
           ss == [i \in DOMAIN entries |-> Opened(entries[i])]
           all == FlattenSeq(ss)
<1>1. \A i \in 1..Len(entries) :
        Opened(entries[i]) \in Seq(E) /\ ItemsOf(Opened(entries[i])) = Inside(entries[i].item)
  <2>1. ASSUME NEW i \in 1..Len(entries)
        PROVE  Opened(entries[i]) \in Seq(E) /\ ItemsOf(Opened(entries[i])) = Inside(entries[i].item)
    <3>1. entries[i] \in Entries(I, F)
      BY ElementOfSeq
    <3> QED BY <3>1, OpenedIs
  <2> QED BY <2>1
<1>2. ss \in Seq(Seq(E)) /\ Len(ss) = Len(entries)
  <2>1. ss \in [1..Len(entries) -> Seq(E)] /\ Len(entries) \in Nat
    BY <1>1
  <2> HIDE DEF ss, E
  <2> QED BY <2>1
<1>3. \A i \in 1..Len(entries) : ss[i] = Opened(entries[i])
  OBVIOUS
<1>4. OpenFolders(entries) = all
  BY OpenFoldersIs
<1> HIDE DEF E, ss
<1>5. all \in Seq(E)
  <2>1. <<>> \in Seq(E)
    OBVIOUS
  <2> QED BY <1>2, <2>1, FlattenAppend
<1>6. \A a : (\E i \in 1..Len(all) : all[i] = a) <=>
             (\E j \in 1..Len(ss) : \E i \in 1..Len(ss[j]) : ss[j][i] = a)
  BY <1>2, FlattenElements, Zenon
<1> HIDE DEF all
<1>7. ASSUME NEW x \in ItemsOf(all) PROVE \E y \in ItemsOf(entries) : x \in Inside(y)
  <2>1. PICK i \in 1..Len(all) : x = all[i].item
    BY <1>7 DEF ItemsOf
  <2>2. PICK j \in 1..Len(ss) : \E k \in 1..Len(ss[j]) : ss[j][k] = all[i]
    BY <1>6, <2>1, Zenon
  <2>3. PICK k \in 1..Len(ss[j]) : ss[j][k] = all[i]
    BY <2>2
  <2>4. x \in ItemsOf(ss[j])
    BY <2>1, <2>3 DEF ItemsOf
  <2>5. x \in Inside(entries[j].item) /\ entries[j].item \in ItemsOf(entries)
    BY <1>1, <1>2, <1>3, <2>4 DEF ItemsOf
  <2> QED BY <2>5
<1>8. ASSUME NEW y \in ItemsOf(entries), NEW x \in Inside(y) PROVE x \in ItemsOf(all)
  <2>1. PICK j \in 1..Len(entries) : y = entries[j].item
    BY <1>8 DEF ItemsOf
  <2>2. x \in ItemsOf(ss[j])
    BY <1>1, <1>3, <1>8, <2>1
  <2>3. PICK k \in 1..Len(ss[j]) : x = ss[j][k].item
    BY <2>2 DEF ItemsOf
  <2>4. j \in 1..Len(ss)
    BY <1>2
  <2>5. \E i \in 1..Len(all) : all[i] = ss[j][k]
    BY <1>6, <2>4, Zenon
  <2> QED BY <2>3, <2>5 DEF ItemsOf
<1>9. ItemsOf(all) = UNION {Inside(x) : x \in ItemsOf(entries)}
  BY <1>7, <1>8
<1> QED BY <1>4, <1>5, <1>9 DEF E

(* Every request of a collection is collected, and nothing else.           *)
LEMMA CollectItems ==
  ASSUME NEW d, IsCollection(d)
  PROVE  /\ Len(Collect(d)) \in Nat /\ DOMAIN Collect(d) = 1..Len(Collect(d))
         /\ ItemsOf(Collect(d)) = Leaves(d)
<1> DEFINE below == Below(d)
           I == UNION {below[n] : n \in 0..Levels}
           F == {x.name : x \in I}
           Leaf(x) == x.item = <<>> /\ x.request # NoRequest
           Upper(n) == UNION {below[m] : m \in 0..n}
           Kept(n) == below[n] \cup {x \in Upper(n) : Leaf(x)}
           start == [i \in DOMAIN d |-> [item |-> d[i], folders |-> <<>>]]
           f == CHOOSE g : Opens(g, d, Levels)
<1>0. Levels \in Nat
  BY LevelsAssumption
<1>1. below[0] = ToSet(d) /\ \A n \in 1..Levels : below[n] = UNION {ToSet(x.item) : x \in below[n - 1]}
  BY BelowIs
<1>2. below[Levels] = {} /\ d \in Seq(ToSet(d))
  BY DEF IsCollection
<1>3. \A n \in 0..Levels : \A x \in below[n] : x.item \in Seq(ToSet(x.item))
  BY DEF IsCollection
<1>4. Collect(d) = f[Levels]
  BY DEF Collect, Opens
<1>5. Opens(f, d, Levels)
  BY <1>0, OpensExists, Zenon
<1>6. Leaves(d) = {x \in I : Leaf(x)}
  BY DEF Leaves
<1> HIDE DEF below, f
<1>7. Closed(I, F)
  <2>1. ASSUME NEW x \in I PROVE x.item \in Seq(I) /\ x.name \in F
    <3>1. PICK n \in 0..Levels : x \in below[n]
      OBVIOUS
    <3>2. n # Levels
      BY <1>2, <3>1
    <3>3. n + 1 \in 1..Levels /\ n + 1 \in 0..Levels /\ (n + 1) - 1 = n
      BY <1>0, <3>2
    <3>4. ToSet(x.item) \subseteq below[n + 1]
      BY <1>1, <3>1, <3>3
    <3>5. ToSet(x.item) \subseteq I
      BY <3>3, <3>4
    <3>6. x.item \in Seq(ToSet(x.item))
      BY <1>3, <3>1
    <3> HIDE DEF I
    <3>7. x.item \in Seq(I)
      BY <3>5, <3>6, SeqMonotonic
    <3> QED BY <3>7
  <2> HIDE DEF I, F
  <2> QED BY <2>1 DEF Closed
<1>8. start \in Seq(Entries(I, F)) /\ ItemsOf(start) = ToSet(d)
  <2>1. ToSet(d) \subseteq I
    <3>1. 0 \in 0..Levels
      BY <1>0
    <3> QED BY <1>1, <3>1
  <2>2. d \in Seq(I)
    <3> HIDE DEF I
    <3> QED BY <1>2, <2>1, SeqMonotonic
  <2> HIDE DEF I, F
  <2>3. start \in [1..Len(d) -> Entries(I, F)] /\ Len(d) \in Nat
    BY <2>2 DEF Entries
  <2>4. \A i \in 1..Len(d) : start[i].item = d[i]
    BY <2>2
  <2>5. ToSet(d) = {d[i] : i \in 1..Len(d)}
    BY <2>2 DEF ToSet
  <2> HIDE DEF start
  <2>6. start \in Seq(Entries(I, F)) /\ Len(start) = Len(d)
    BY <2>3
  <2> QED BY <2>4, <2>5, <2>6 DEF ItemsOf
<1>9. Kept(0) = ToSet(d)
  <2>1. 0..0 = {0}
    OBVIOUS
  <2>2. Upper(0) = below[0]
    BY <2>1
  <2> HIDE DEF Upper, Leaf
  <2> QED BY <1>1, <2>2
<1>10. ASSUME NEW n \in 1..Levels PROVE UNION {Inside(x) : x \in Kept(n - 1)} = Kept(n)
  <2>0. n - 1 \in 0..Levels /\ n \in 0..Levels /\ (0..n) = (0..n - 1) \cup {n} /\ n - 1 \in 0..n - 1
    BY <1>0
  <2>1. Upper(n) = Upper(n - 1) \cup below[n] /\ below[n - 1] \subseteq Upper(n - 1)
    BY <2>0
  <2>2. \A x \in below[n - 1] : ToSet(x.item) \subseteq below[n]
    BY <1>1
  <2>3. \A y \in below[n] : \E x \in below[n - 1] : y \in ToSet(x.item)
    BY <1>1
  <2>4. \A x : Leaf(x) => Inside(x) = {x}
    BY DEF Inside
  <2>5. \A x : ~Leaf(x) => (IF x.item = <<>> THEN Inside(x) = {} ELSE Inside(x) = ToSet(x.item))
    BY DEF Inside
  <2>6. \A x \in below[n - 1] : \A y \in ToSet(x.item) : x.item # <<>>
    BY <1>3, <2>0 DEF ToSet
  <2>7. \A x : x.item # <<>> => ~Leaf(x)
    OBVIOUS
  <2> HIDE DEF Upper, Leaf
  <2>8. ASSUME NEW x \in Kept(n - 1), NEW y \in Inside(x) PROVE y \in Kept(n)
    <3>1. CASE Leaf(x)
      BY <2>1, <2>4, <2>8, <3>1
    <3>2. CASE ~Leaf(x)
      <4>1. x \in below[n - 1] /\ y \in ToSet(x.item)
        BY <2>5, <2>8, <3>2
      <4> QED BY <2>2, <4>1
    <3> QED BY <3>1, <3>2
  <2>9. ASSUME NEW y \in Kept(n) PROVE \E x \in Kept(n - 1) : y \in Inside(x)
    <3>1. CASE y \in below[n]
      <4>1. PICK x \in below[n - 1] : y \in ToSet(x.item)
        BY <2>3, <3>1
      <4>2. Inside(x) = ToSet(x.item)
        BY <2>5, <2>6, <2>7, <4>1
      <4> QED BY <4>1, <4>2
    <3>2. CASE y \notin below[n]
      <4>1. Leaf(y) /\ y \in Upper(n - 1)
        BY <2>1, <2>9, <3>2
      <4> QED BY <2>4, <4>1
    <3> QED BY <3>1, <3>2
  <2> HIDE DEF Kept
  <2> QED BY <2>8, <2>9
<1>11. f[0] = start /\ \A n \in 1..Levels : f[n] = OpenFolders(f[n - 1])
  <2>1. f[0] = start
    BY <1>0, <1>5 DEF Opens
  <2>2. ASSUME NEW n \in 1..Levels PROVE f[n] = OpenFolders(f[n - 1])
    <3>1. n \in 0..Levels /\ n # 0
      BY <1>0
    <3> HIDE DEF start
    <3> QED BY <1>5, <3>1 DEF Opens
  <2> QED BY <2>1, <2>2
<1> DEFINE S == {n \in 0..Levels : f[n] \in Seq(Entries(I, F)) /\ ItemsOf(f[n]) = Kept(n)}
<1>12. 0 \in S
  <2> HIDE DEF Kept, start, I, F
  <2> QED BY <1>0, <1>8, <1>9, <1>11
<1>13. ASSUME NEW n \in 1..Levels, n - 1 \in S PROVE n \in S
  <2> HIDE DEF Kept, start, I, F
  <2>1. f[n - 1] \in Seq(Entries(I, F)) /\ ItemsOf(f[n - 1]) = Kept(n - 1)
    BY <1>13
  <2>2. /\ OpenFolders(f[n - 1]) \in Seq(Entries(I, F))
        /\ ItemsOf(OpenFolders(f[n - 1])) = UNION {Inside(x) : x \in ItemsOf(f[n - 1])}
    BY <1>7, <2>1, OpenFoldersItems
  <2>3. n \in 0..Levels
    BY <1>0
  <2> QED BY <1>10, <1>11, <2>1, <2>2, <2>3
<1>14. Levels \in S
  <2> HIDE DEF S
  <2>1. 0..Levels \subseteq S
    BY <1>0, <1>12, <1>13, UpTo
  <2> QED BY <1>0, <2>1
<1>15. f[Levels] \in Seq(Entries(I, F)) /\ ItemsOf(f[Levels]) = Kept(Levels)
  BY <1>14
<1>16. Kept(Levels) = {x \in I : Leaf(x)}
  BY <1>2
<1>17. Len(f[Levels]) \in Nat /\ DOMAIN f[Levels] = 1..Len(f[Levels])
  <2> HIDE DEF I, F, Kept
  <2> QED BY <1>15
<1> QED BY <1>4, <1>6, <1>15, <1>16, <1>17

-----------------------------------------------------------------------------
(* The table after an import.                                              *)

Came(row, item) ==
  /\ row # Unanswered
  /\ row.method = item.request.method /\ row.path = ExtractPath(item.request.url)
  /\ row.types = RequestBodyTypes(item.request.body)
  /\ row.params = RequestParamKeys(item.request.url)

RouteOf(item) == <<item.request.method, ExtractPath(item.request.url)>>

LEMMA DefinitionIs ==
  ASSUME NEW item, NEW folders
  PROVE  LET d == RequestDefinition(item, folders) IN
         /\ KeyOf(d) = RouteOf(item)
         /\ \A row : IsRowOf(row, d) => Came(row, item)
<1> DEFINE d == RequestDefinition(item, folders)
<1>1. /\ d.method = item.request.method /\ d.path = ExtractPath(item.request.url)
      /\ d.types = RequestBodyTypes(item.request.body) /\ d.params = RequestParamKeys(item.request.url)
  BY DEF RequestDefinition
<1> HIDE DEF d
<1>2. KeyOf(d) = RouteOf(item) /\ \A row : IsRowOf(row, d) => Came(row, item)
  BY <1>1 DEF KeyOf, RouteOf, IsRowOf, Came
<1> QED BY <1>2 DEF d

(* At the route of every request of the collection there is the row of it, *)
(* or of another request of the collection with that route.                *)
Brought(table, d) ==
  \A item \in Leaves(d) :
    /\ RouteOf(item) \in DOMAIN table
    /\ \E other \in Leaves(d) : RouteOf(other) = RouteOf(item) /\ Came(table[RouteOf(item)], other)

LEMMA ImportBrings ==
  ASSUME NEW d, IsCollection(d), NEW table, \A k \in DOMAIN table : table[k] # Unanswered
  PROVE  LET new == ImportDefinitions(table, ParseCollection(d)) IN
         /\ Brought(new, d)
         /\ \A k \in DOMAIN new : new[k] # Unanswered
<1> DEFINE c == Collect(d)
           defs == ParseCollection(d)
           new == ImportDefinitions(table, defs)
<1>1. Len(c) \in Nat /\ DOMAIN c = 1..Len(c) /\ ItemsOf(c) = Leaves(d)
  BY CollectItems
<1>2. defs = [i \in DOMAIN c |-> RequestDefinition(c[i].item, c[i].folders)]
  BY DEF ParseCollection
<1> HIDE DEF c, defs
<1>3. defs = [i \in 1..Len(c) |-> RequestDefinition(c[i].item, c[i].folders)]
  BY <1>1, <1>2
<1>4. Len(defs) = Len(c) /\ \A i \in 1..Len(c) : defs[i] = RequestDefinition(c[i].item, c[i].folders)
  BY <1>1, <1>3
<1>5. Holding(new, defs, Len(defs))
  BY <1>1, <1>4, ImportHolds
<1> HIDE DEF new
<1>6. \A i \in 1..Len(c) : KeyOf(defs[i]) = RouteOf(c[i].item)
  BY <1>4, DefinitionIs
<1>7. \A row : \A i \in 1..Len(c) : IsRowOf(row, defs[i]) => Came(row, c[i].item)
  BY <1>4, DefinitionIs
<1>8. ASSUME NEW item \in Leaves(d)
      PROVE  /\ RouteOf(item) \in DOMAIN new
             /\ \E other \in Leaves(d) : RouteOf(other) = RouteOf(item) /\ Came(new[RouteOf(item)], other)
  <2>1. PICK i \in 1..Len(c) : c[i].item = item
    BY <1>1 DEF ItemsOf
  <2>2. KeyOf(defs[i]) \in DOMAIN new
    BY <1>4, <1>5 DEF Holding
  <2>3. PICK j \in 1..Len(c) : KeyOf(defs[j]) = KeyOf(defs[i]) /\ IsRowOf(new[KeyOf(defs[i])], defs[j])
    BY <1>4, <1>5 DEF Holding
  <2>4. c[j].item \in Leaves(d)
    BY <1>1 DEF ItemsOf
  <2>5. KeyOf(defs[i]) = RouteOf(item) /\ KeyOf(defs[j]) = RouteOf(c[j].item)
    BY <1>6, <2>1
  <2>6. Came(new[RouteOf(item)], c[j].item)
    BY <1>7, <2>3, <2>5
  <2> QED BY <2>2, <2>3, <2>4, <2>5, <2>6
<1> QED BY <1>5, <1>8 DEF Holding, Brought, new, defs

LEMMA OperationsFinite ==
  ASSUME NEW d, IsFiniteSet(DOMAIN d)
  PROVE  Len(ParseOpenAPI(d)) \in Nat
<1> DEFINE some == {at \in DOMAIN d : at.method \in SpecMethods}
           known == {[path |-> [segs |-> at.segs, query |-> {}], method |-> at.method] : at \in some}
           f == [at \in some |-> [path |-> [segs |-> at.segs, query |-> {}], method |-> at.method]]
           sorted == InRouteOrder(known)
<1>1. IsFiniteSet(some)
  <2>1. some \in SUBSET (DOMAIN d)
    OBVIOUS
  <2> HIDE DEF some
  <2> QED BY <2>1, FS_Subset
<1>2. f \in Surjection(some, known)
  BY DEF Surjection
<1>3. IsFiniteSet(known)
  <2> HIDE DEF f, known, some
  <2> QED BY <1>1, <1>2, FS_Surjection
<1>4. ParseOpenAPI(d) = [i \in DOMAIN sorted |-> OperationDefinition(d, sorted[i].path.segs, sorted[i].method)]
  BY Zenon DEF ParseOpenAPI
<1> HIDE DEF known
<1>5. DOMAIN sorted = 1..Cardinality(known)
  BY DEF InRouteOrder
<1>6. Cardinality(known) \in Nat
  BY <1>3, FS_CardinalityType
<1> HIDE DEF sorted
<1>7. DOMAIN ParseOpenAPI(d) = 1..Cardinality(known)
  BY <1>4, <1>5
<1> QED BY <1>6, <1>7

(* The inductive invariant.                                                *)
TableInv ==
  /\ env \in Environments
  /\ doc \in Collections \cup {Nothing}
  /\ \A k \in DOMAIN rows : rows[k] # Unanswered
  /\ doc # Nothing => Brought(rows, doc)

LEMMA InitTable == Init => TableInv
<1>1. DOMAIN <<>> = {}
  OBVIOUS
<1> QED BY <1>1 DEF Init, TableInv, Empty

LEMMA NextTable == TableInv /\ [Next]_vars => TableInv'
<1> SUFFICES ASSUME TableInv, [Next]_vars PROVE TableInv'
  OBVIOUS
<1>1. CASE ImportCollection
  <2>1. PICK d \in Collections : rows' = ImportDefinitions(rows, ParseCollection(d)) /\ doc' = d
    BY <1>1, Zenon DEF ImportCollection
  <2>2. IsCollection(d) /\ d # Nothing
    BY CollectionsAssumption, Zenon
  <2>3. \A k \in DOMAIN rows : rows[k] # Unanswered
    BY DEF TableInv
  <2>4. Brought(rows', d) /\ \A k \in DOMAIN rows' : rows'[k] # Unanswered
    BY <2>1, <2>2, <2>3, ImportBrings, Zenon
  <2>5. env' = env
    BY <1>1, Zenon DEF ImportCollection
  <2> QED BY <2>1, <2>4, <2>5 DEF TableInv
<1>2. CASE ImportSwagger
  <2>1. PICK d \in Specs : rows' = ImportDefinitions(rows, ParseOpenAPI(d))
    BY <1>2, Zenon DEF ImportSwagger
  <2>2. Len(ParseOpenAPI(d)) \in Nat
    BY SpecsAssumption, OperationsFinite, Zenon
  <2>3. Holding(rows', ParseOpenAPI(d), Len(ParseOpenAPI(d)))
    <3>1. \A k \in DOMAIN rows : rows[k] # Unanswered
      BY DEF TableInv
    <3> QED BY <2>1, <2>2, <3>1, ImportHolds, Zenon
  <2>4. env' = env /\ doc' = Nothing
    BY <1>2, Zenon DEF ImportSwagger
  <2> QED BY <2>3, <2>4 DEF TableInv, Holding
<1>3. CASE UNCHANGED <<rows, env, doc>>
  <2>1. rows' = rows /\ env' = env /\ doc' = doc
    BY <1>3
  <2> QED BY <2>1 DEF TableInv
<1>4. (\E format \in {"collection", "swagger"} : ExportSpec(format)) => UNCHANGED <<rows, env, doc>>
  BY Zenon DEF ExportSpec
<1>5. (ListForExport \/ ImportElsewhere \/ UNCHANGED vars) => UNCHANGED <<rows, env, doc>>
  BY DEF ListForExport, ImportElsewhere, vars
<1> QED BY <1>1, <1>2, <1>3, <1>4, <1>5 DEF Next

-----------------------------------------------------------------------------
(* What the invariant says of the items.                                   *)

LEMMA LeafUrl ==
  ASSUME NEW d, IsCollection(d), NEW item \in Leaves(d)
  PROVE  IsUrl(item.request.url)
<1>1. PICK n \in 0..Levels : item \in Below(d)[n] /\ item.request # NoRequest
  BY DEF Leaves
<1> QED BY <1>1 DEF IsCollection, IsUrl

LEMMA OwnRow ==
  ASSUME TableInv, doc # Nothing, NEW item \in Sendable(doc)
  PROVE  /\ IsEnvironment(env) /\ IsSendable(item) /\ item \in Leaves(doc)
         /\ RowOf(item) \in Range(rows)
         /\ RowOf(item).method = item.request.method
         /\ RowOf(item).path = ExtractPath(item.request.url)
         /\ RowOf(item).path.segs \in Seq(Segment)
         /\ \A row \in Range(rows) : row # Unanswered
         /\ \E other \in Leaves(doc) :
               /\ other.request.method = item.request.method
               /\ ExtractPath(other.request.url) = ExtractPath(item.request.url)
               /\ Came(RowOf(item), other)
<1>1. item \in Leaves(doc) /\ Plain(item.request.url) /\ Settled(Own(item.request.url))
  BY DEF Sendable
<1>2. IsCollection(doc) /\ IsEnvironment(env)
  BY CollectionsAssumption, EnvironmentsAre DEF TableInv
<1>3. IsUrl(item.request.url)
  BY <1>1, <1>2, LeafUrl
<1>4. IsSendable(item)
  BY <1>1, <1>3 DEF IsSendable
<1>5. RouteOf(item) \in DOMAIN rows /\ RowOf(item) = rows[RouteOf(item)]
  BY <1>1 DEF TableInv, Brought, RouteOf, RowOf
<1>6. RowOf(item) \in Range(rows)
  BY <1>5 DEF Range
<1>7. PICK other \in Leaves(doc) : RouteOf(other) = RouteOf(item) /\ Came(rows[RouteOf(item)], other)
  BY <1>1 DEF TableInv, Brought
<1>8. /\ other.request.method = item.request.method
      /\ ExtractPath(other.request.url) = ExtractPath(item.request.url)
  BY <1>7 DEF RouteOf
<1>9. Came(RowOf(item), other)
  BY <1>5, <1>7
<1>10. /\ RowOf(item).method = item.request.method
       /\ RowOf(item).path = ExtractPath(item.request.url)
  BY <1>8, <1>9 DEF Came
<1>11. RowOf(item).path.segs \in Seq(Segment)
  BY <1>1, <1>3, <1>10, RowSegments DEF IsPath
<1>12. \A row \in Range(rows) : row # Unanswered
  BY DEF TableInv, Range
<1> QED BY <1>1, <1>2, <1>4, <1>6, <1>8, <1>9, <1>10, <1>11, <1>12

LEMMA OwnPath ==
  ASSUME IsEnvironment(env), NEW item, IsSendable(item), NEW x, x = ExtractPath(item.request.url)
  PROVE  /\ Resolved(x, env) # {}
         /\ \A c \in Resolved(x, env) : /\ RoutePathsMatch(c, Sent(item).path)
                                      /\ Segments(c) = Segments(Addressed(item))
<1> DEFINE url == item.request.url
           y == Whole(Own(url), env)
           a == Addressed(item)
           p == Sent(item).path
           B == Segment \cup {"1"}
<1>1. /\ Resolved(x, env) = {[x EXCEPT !.segs = Whole(x.segs, env)]}
      /\ Rooted(Whole(x.segs, env)) = Rooted(y)
      /\ a = [segs |-> y, query |-> Query(url)]
      /\ Sent(item) = [method |-> item.request.method, body |-> SentBody(item.request.body),
                       path |-> [segs |-> Filled(y), query |-> Query(url)]]
  BY ItemResolved
<1>2. IsPath(y)
  BY RowSegments, WholePath DEF IsSendable
<1>3. DOMAIN x = {"segs", "query"}
  BY ExtractIsPath DEF IsSendable
<1> HIDE DEF y, a
<1>4. p = [segs |-> Filled(y), query |-> Query(url)]
  BY <1>1
<1>5. p.segs = Filled(y) /\ a.segs = y
  <2> HIDE DEF p
  <2> QED BY <1>1, <1>4
<1> HIDE DEF p
<1>6. ASSUME NEW c \in Resolved(x, env)
      PROVE  RoutePathsMatch(c, p) /\ Segments(c) = Segments(a)
  <2>1. c.segs = Whole(x.segs, env)
    BY <1>1, <1>3
  <2>2. Rooted(c.segs) = Rooted(y)
    BY <1>1, <2>1
  <2>3. Segment \subseteq B /\ {Gap, "1"} \subseteq B
    BY GapIs
  <2> HIDE DEF B
  <2>4. y \in Seq(B) /\ y # <<>> /\ y[1] = Gap
    BY <1>2, <2>3, SeqMonotonic DEF IsPath
  <2>5. RoutePathsMatch(c, p)
    BY <1>5, <2>2, <2>3, <2>4, FilledMatches
  <2>6. Segments(c) = Segments(a)
    BY <1>5, <2>2, SegmentsIs
  <2> QED BY <2>5, <2>6
<1> QED BY <1>1, <1>6 DEF a, p

(* An item is served: in every state of the invariant.                     *)
LEMMA TableServes == TableInv => ImportedIsServed
<1> SUFFICES ASSUME TableInv, doc # Nothing, NEW item \in Sendable(doc)
             PROVE  /\ Unanswered \notin Answers(rows, Sent(item))
                    /\ ~Shadowed(item) => Answers(rows, Sent(item)) = {RowOf(item)}
  BY DEF ImportedIsServed
<1> DEFINE own == RowOf(item)
           method == item.request.method
           p == Sent(item).path
<1>1. /\ IsEnvironment(env) /\ IsSendable(item)
      /\ own \in Range(rows) /\ own.method = method
      /\ own.path = ExtractPath(item.request.url) /\ own.path.segs \in Seq(Segment)
      /\ \A row \in Range(rows) : row # Unanswered
  BY OwnRow
<1>2. Resolved(p, env) = {p} /\ Sent(item).method = method
  BY <1>1, ItemResolved
<1>3. \A c \in Resolved(own.path, env) : RoutePathsMatch(c, p)
  BY <1>1, OwnPath
<1>4. Answers(rows, Sent(item)) = Find(Range(rows), env, method, p)
  BY <1>2 DEF Answers
<1>5. Shadowed(item) <=> Rival(own, Range(rows), env, method, p)
  BY DEF Shadowed, Rival
<1>6. Fit(own, Range(rows), env, method, p)
  BY <1>1, <1>3 DEF Fit
<1> HIDE DEF own, p, method
<1>7. /\ Unanswered \notin Find(Range(rows), env, method, p)
      /\ ~Rival(own, Range(rows), env, method, p) => Find(Range(rows), env, method, p) = {own}
  BY <1>1, <1>2, <1>6, RowAnswers
<1> QED BY <1>4, <1>5, <1>7 DEF own

(* Whatever collections, documents and environments there are, a request   *)
(* of the collection imported last is answered, and by its own row unless  *)
(* another route matches it (service.go:419).                              *)
THEOREM ImportsAreServed == Spec => []ImportedIsServed
<1>1. Spec => []TableInv
  BY InitTable, NextTable, PTL DEF Spec
<1> QED BY <1>1, TableServes, PTL

LEMMA QueryIs ==
  ASSUME NEW url, IsUrl(url)
  PROVE  RequestParamKeys(url) = Query(url)
<1>1. CASE url.query # {}
  BY <1>1 DEF RequestParamKeys, Query
<1>2. CASE url.query = {}
  <2>1. NormalizePath(url.raw).query = url.raw.query
    BY NormalizeIs DEF IsUrl
  <2>2. RequestParamKeys(url) = url.raw.query
    BY <1>2, <2>1 DEF RequestParamKeys
  <2>3. {q.key : q \in {q \in url.query : ~q.disabled}} = {}
    BY <1>2
  <2> QED BY <1>2, <2>2, <2>3 DEF Query
<1> QED BY <1>1, <1>2

(* A body as a collection has it.                                          *)
IsBody(body) ==
  /\ body.entries \in Seq(Range(body.entries))
  /\ \A i \in DOMAIN body.entries : body.entries[i].type # ""
  /\ \A k \in DOMAIN body.text.fields : body.text.fields[k] # ""
  /\ body.content \in {"json", "graphql", "other"}

(* The body that is sent is the one the parser expects.                    *)
AsExpected(types, sent) ==
  /\ IsObject(sent)
  /\ DOMAIN FieldTypes(sent) = DOMAIN types
  /\ \A k \in DOMAIN types : types[k] \in {"", FieldTypes(sent)[k]}

LEMMA RawReadAlike ==
  ASSUME NEW body, IsBody(body), body.mode = "raw", DOMAIN RequestBodyTypes(body) # {}
  PROVE  AsExpected(RequestBodyTypes(body), SentBody(body)) <=> ReadAlike(body)
<1> DEFINE fields == body.text.fields
           sent == SentBody(body)
<1>1. RequestBodyTypes(body) = fields
  <2>1. RequestBodyTypes(body)
          = IF body.language \in {"", "raw", "json"} /\ body.text.json # "no" THEN fields ELSE <<>>
    BY DEF RequestBodyTypes
  <2>2. DOMAIN <<>> = {}
    OBVIOUS
  <2> QED BY <2>1, <2>2
<1>2. sent.content = body.content /\ sent.text = body.text
  BY DEF SentBody
<1> HIDE DEF sent, fields
<1>3. CASE body.content = "json"
  <2>1. FieldTypes(sent) = fields
    BY <1>2, <1>3 DEF FieldTypes, fields
  <2>2. IsObject(sent) <=> body.text.json = "strict" /\ body.text.shape = "object"
    BY <1>2, <1>3 DEF IsObject
  <2>3. AsExpected(fields, sent) <=> body.text.json = "strict" /\ body.text.shape = "object"
    BY <2>1, <2>2 DEF AsExpected
  <2>4. ReadAlike(body) <=> body.text.json = "strict" /\ body.text.shape = "object"
    BY <1>3 DEF ReadAlike
  <2> QED BY <1>1, <2>3, <2>4 DEF sent
<1>4. CASE body.content = "graphql"
  <2>1. FieldTypes(sent) = [k \in {"query"} |-> "string"]
    BY <1>2, <1>4 DEF FieldTypes
  <2>2. IsObject(sent)
    BY <1>2, <1>4 DEF IsObject
  <2>3. \A k \in DOMAIN fields : fields[k] # ""
    BY DEF IsBody, fields
  <2>4. AsExpected(fields, sent) <=> DOMAIN fields = {"query"} /\ fields["query"] = "string"
    BY <2>1, <2>2, <2>3 DEF AsExpected
  <2>5. ReadAlike(body) <=> DOMAIN fields = {"query"} /\ fields["query"] = "string"
    BY <1>4 DEF ReadAlike, fields
  <2> QED BY <1>1, <2>4, <2>5 DEF sent
<1>5. CASE body.content = "other"
  <2>1. ~IsObject(sent)
    BY <1>2, <1>5 DEF IsObject
  <2>2. ~ReadAlike(body)
    BY <1>5 DEF ReadAlike
  <2> QED BY <2>1, <2>2 DEF AsExpected, sent
<1> QED BY <1>3, <1>4, <1>5 DEF IsBody

LEMMA FormReadAlike ==
  ASSUME NEW body, IsBody(body), body.mode = "urlencoded", DOMAIN RequestBodyTypes(body) # {}
  PROVE  AsExpected(RequestBodyTypes(body), SentBody(body)) <=> ReadAlike(body)
<1> DEFINE entries == body.entries
           types == RequestBodyTypes(body)
           sent == SentBody(body)
           enabled == {i \in DOMAIN entries : ~entries[i].disabled}
           named == {i \in DOMAIN entries : ~entries[i].disabled /\ entries[i].key # ""}
           Of(S, k) == {j \in S : entries[j].key = k}
           Right(k) == IF Cardinality(Of(enabled, k)) = 1 THEN "string" ELSE "array"
<1>1. /\ types = [k \in {entries[i].key : i \in named} |-> entries[Max(Of(named, k))].type]
      /\ DOMAIN types = {entries[i].key : i \in named}
  BY DEF RequestBodyTypes
<1>2. /\ sent.content = "form"
      /\ sent.form = [k \in {entries[i].key : i \in enabled} |-> Cardinality(Of(enabled, k))]
  BY DEF SentBody
<1>3. DOMAIN entries = 1..Len(entries) /\ Len(entries) \in Nat
  <2>1. entries \in Seq(Range(entries))
    BY DEF IsBody
  <2> HIDE DEF entries
  <2> QED BY <2>1, LenProperties
<1>4. ReadAlike(body) <=>
        \A i \in enabled : /\ entries[i].key # ""
                           /\ entries[Max(Of(enabled, entries[i].key))].type = Right(entries[i].key)
  BY DEF ReadAlike
<1>5. \A i \in enabled : \E m \in enabled :
         m = Max(Of(enabled, entries[i].key)) /\ entries[m].type # ""
  <2> SUFFICES ASSUME NEW i \in enabled
               PROVE  \E m \in enabled : m = Max(Of(enabled, entries[i].key)) /\ entries[m].type # ""
    OBVIOUS
  <2> DEFINE S == Of(enabled, entries[i].key)
  <2>1. S \subseteq 1..Len(entries) /\ i \in S
    BY <1>3
  <2>2. S \in SUBSET (0..Len(entries)) /\ S # {}
    <3> HIDE DEF S, entries
    <3> QED BY <1>3, <2>1
  <2>3. Max(S) \in S
    <3> HIDE DEF S, entries
    <3> QED BY <1>3, <2>2, MaxIsMax
  <2> QED BY <2>3 DEF S, IsBody
<1>6. DOMAIN FieldTypes(sent) = {entries[i].key : i \in enabled}
      /\ \A i \in enabled : FieldTypes(sent)[entries[i].key] = Right(entries[i].key)
  <2>1. FieldTypes(sent) = [k \in DOMAIN sent.form |-> IF sent.form[k] = 1 THEN "string" ELSE "array"]
    <3> HIDE DEF sent
    <3> QED BY <1>2 DEF FieldTypes
  <2> DEFINE count(k) == Cardinality(Of(enabled, k))
             D == {entries[i].key : i \in enabled}
  <2>2. sent.form = [k \in D |-> count(k)]
    BY <1>2
  <2>3. \A k : Right(k) = IF count(k) = 1 THEN "string" ELSE "array"
    OBVIOUS
  <2>4. \A i \in enabled : entries[i].key \in D
    OBVIOUS
  <2> HIDE DEF sent, D, count, Right
  <2>5. DOMAIN FieldTypes(sent) = D /\ \A k \in D : FieldTypes(sent)[k] = Right(k)
    BY <2>1, <2>2, <2>3
  <2>6. \A i \in enabled : FieldTypes(sent)[entries[i].key] = Right(entries[i].key)
    <3> HIDE DEF enabled, entries
    <3> QED BY <2>4, <2>5
  <2> QED BY <2>5, <2>6 DEF D
<1> HIDE DEF sent, types
<1>7. named \subseteq enabled /\ enabled # {}
  BY <1>1 DEF types
<1>8. IsObject(sent)
  <2>1. DOMAIN sent.form # {}
    <3>1. DOMAIN sent.form = {entries[i].key : i \in enabled}
      <4> HIDE DEF enabled, Of
      <4> QED BY <1>2
    <3>2. {entries[i].key : i \in enabled} # {}
      <4> HIDE DEF enabled
      <4> QED BY <1>7
    <3> QED BY <3>1, <3>2
  <2> QED BY <1>2, <2>1 DEF IsObject
<1>9. ASSUME \A i \in enabled : entries[i].key # ""
      PROVE  /\ named = enabled
             /\ DOMAIN types = DOMAIN FieldTypes(sent)
             /\ \A i \in enabled :
                  types[entries[i].key] = entries[Max(Of(enabled, entries[i].key))].type
  <2>1. named = enabled
    BY <1>9
  <2> HIDE DEF named, enabled
  <2> QED BY <1>1, <1>6, <2>1
<1>10. ASSUME ReadAlike(body)
       PROVE  AsExpected(types, sent)
  <2>1. \A i \in enabled : entries[i].key # ""
    BY <1>4, <1>10
  <2>2. \A i \in enabled : types[entries[i].key] = FieldTypes(sent)[entries[i].key]
    <3> HIDE DEF enabled, Right
    <3> QED BY <1>4, <1>6, <1>9, <1>10, <2>1
  <2>3. DOMAIN types = DOMAIN FieldTypes(sent)
    <3> HIDE DEF enabled
    <3> QED BY <1>9, <2>1
  <2>4. \A k \in DOMAIN types : \E i \in enabled : k = entries[i].key
    <3> HIDE DEF enabled
    <3> QED BY <1>6, <2>3
  <2>5. \A k \in DOMAIN types : types[k] = FieldTypes(sent)[k]
    <3> HIDE DEF enabled
    <3> QED BY <2>2, <2>4
  <2> HIDE DEF enabled, Right
  <2> QED BY <1>8, <2>3, <2>5 DEF AsExpected
<1>11. ASSUME AsExpected(types, sent)
       PROVE  ReadAlike(body)
  <2>1. \A i \in enabled : entries[i].key # ""
    <3>1. DOMAIN types = {entries[i].key : i \in enabled}
      BY <1>6, <1>11 DEF AsExpected
    <3>2. "" \notin {entries[i].key : i \in named}
      OBVIOUS
    <3>3. "" \notin {entries[i].key : i \in enabled}
      <4> HIDE DEF enabled, named
      <4> QED BY <1>1, <3>1, <3>2
    <3> QED BY <3>3
  <2>2. \A i \in enabled :
           types[entries[i].key] \in {"", FieldTypes(sent)[entries[i].key]}
    <3> HIDE DEF enabled, Right
    <3> QED BY <1>6, <1>11 DEF AsExpected
  <2>3. \A i \in enabled : types[entries[i].key] # ""
    <3> HIDE DEF enabled, Right, Of
    <3> QED BY <1>5, <1>9, <2>1
  <2>4. \A i \in enabled : types[entries[i].key] = Right(entries[i].key)
    <3> HIDE DEF enabled, Right
    <3> QED BY <1>6, <2>2, <2>3
  <2> HIDE DEF enabled, Right, Of
  <2> QED BY <1>4, <1>9, <2>1, <2>4
<1> QED BY <1>10, <1>11 DEF types, sent

LEMMA BodyReadAlike ==
  ASSUME NEW body, IsBody(body)
  PROVE  (DOMAIN RequestBodyTypes(body) # {} => AsExpected(RequestBodyTypes(body), SentBody(body)))
           <=> ReadAlike(body)
<1>1. CASE DOMAIN RequestBodyTypes(body) = {}
  BY <1>1 DEF ReadAlike
<1>2. CASE DOMAIN RequestBodyTypes(body) # {} /\ body.mode = "raw"
  BY <1>2, RawReadAlike
<1>3. CASE DOMAIN RequestBodyTypes(body) # {} /\ body.mode = "urlencoded"
  BY <1>3, FormReadAlike
<1>4. CASE body.mode = "graphql"
  <2> DEFINE sent == SentBody(body)
  <2>1. /\ sent.content = "json"
        /\ sent.text = [json |-> "strict", shape |-> "object", fields |-> RequestBodyTypes(body)]
    BY <1>4 DEF SentBody
  <2> HIDE DEF sent
  <2>2. sent.text.json = "strict" /\ sent.text.shape = "object" /\ sent.text.fields = RequestBodyTypes(body)
    BY <2>1
  <2>3. IsObject(sent) /\ FieldTypes(sent) = RequestBodyTypes(body)
    BY <2>1, <2>2 DEF IsObject, FieldTypes
  <2> QED BY <1>4, <2>3 DEF AsExpected, ReadAlike, sent
<1>5. CASE DOMAIN RequestBodyTypes(body) # {} /\ body.mode \notin {"raw", "urlencoded", "graphql"}
  <2>1. SentBody(body).content = "other"
    BY <1>5 DEF SentBody
  <2>2. ~IsObject(SentBody(body))
    BY <2>1 DEF IsObject
  <2>3. ~ReadAlike(body)
    BY <1>5 DEF ReadAlike
  <2> QED BY <1>5, <2>2, <2>3 DEF AsExpected
<1> QED BY <1>1, <1>2, <1>3, <1>4, <1>5

LEMMA LeafBody ==
  ASSUME NEW d, IsCollection(d), NEW item \in Leaves(d)
  PROVE  IsBody(item.request.body)
<1>1. item.request # NoRequest /\ \E n \in 0..Levels : item \in Below(d)[n]
  BY DEF Leaves
<1> QED BY <1>1 DEF IsCollection, IsBody

(* An item is accepted: in every state of the invariant.                   *)
LEMMA TableAccepts == TableInv => ExampleAccepted
<1> SUFFICES ASSUME TableInv, doc # Nothing, NEW item \in Sendable(doc), Current(item)
             PROVE  LET method == item.request.method
                        body == item.request.body
                        query == Query(item.request.url)
                        named == {ParamOf[s] : s \in Range(Segments(Addressed(item))) \cap Wildcards}
                    IN Accepts(RowOf(item), env, Sent(item)) <=>
                         /\ method \in {"POST", "PUT", "PATCH"} =>
                              ReadAlike(body)
                         /\ method \in {"GET", "DELETE"} =>
                              query \cap named = {} \/ query \subseteq named
  BY DEF ExampleAccepted
<1> DEFINE own == RowOf(item)
           method == item.request.method
           body == item.request.body
           url == item.request.url
           query == Query(url)
           named == {ParamOf[s] : s \in Range(Segments(Addressed(item))) \cap Wildcards}
           sent == Sent(item)
           Bodied == method \in {"POST", "PUT", "PATCH"}
           Queried == method \in {"GET", "DELETE"}
<1>1. /\ IsEnvironment(env) /\ IsSendable(item) /\ own.method = method
      /\ own.path = ExtractPath(url)
  BY OwnRow
<1>2. Came(own, item)
  <2>1. PICK other \in Leaves(doc) :
          /\ other.request.method = item.request.method
          /\ ExtractPath(other.request.url) = ExtractPath(item.request.url)
          /\ Came(RowOf(item), other)
    BY OwnRow
  <2>2. other = item
    BY <2>1 DEF Current
  <2> QED BY <2>1, <2>2
<1>3. own.types = RequestBodyTypes(body) /\ own.params = query
  <2>1. RequestParamKeys(url) = Query(url)
    BY <1>1, QueryIs DEF IsSendable
  <2> QED BY <1>2, <2>1 DEF Came
<1>4. sent.method = method /\ sent.body = SentBody(body) /\ sent.path.query = query
  BY <1>1, ItemResolved
<1>5. /\ Resolved(own.path, env) # {}
      /\ \A c \in Resolved(own.path, env) : Segments(c) = Segments(Addressed(item))
  BY <1>1, OwnPath
<1>6. BodyMatches(own, sent) <=> (Bodied => ReadAlike(body))
  <2>1. IsBody(body)
    <3>1. IsCollection(doc) /\ item \in Leaves(doc)
      BY OwnRow, CollectionsAssumption DEF TableInv
    <3> QED BY <3>1, LeafBody
  <2> HIDE DEF own, sent, body
  <2>2. BodyMatches(own, sent) <=>
          (Bodied /\ DOMAIN own.types # {} => AsExpected(own.types, SentBody(body)))
    BY <1>1, <1>4 DEF BodyMatches, AsExpected
  <2>3. (DOMAIN own.types # {} => AsExpected(own.types, SentBody(body))) <=> ReadAlike(body)
    BY <1>3, <2>1, BodyReadAlike
  <2> HIDE DEF Bodied
  <2> QED BY <2>2, <2>3
<1>7. ParamsMatch(own, env, sent) <=>
        (Queried => query \cap named = {} \/ query \subseteq named)
  <2>1. \A c \in Resolved(own.path, env) :
          {ParamOf[s] : s \in Range(Segments(c)) \cap Wildcards} = named
    BY <1>5
  <2> HIDE DEF own, sent, named, query, method
  <2>2. ParamsMatch(own, env, sent) <=>
          \A c \in Resolved(own.path, env) :
            (Queried /\ query \ named # {}) => query = query \ named
    BY <1>1, <1>3, <1>4, <2>1 DEF ParamsMatch
  <2>3. ParamsMatch(own, env, sent) <=> ((Queried /\ query \ named # {}) => query = query \ named)
    BY <1>5, <2>2
  <2>4. query = query \ named <=> query \cap named = {}
    OBVIOUS
  <2>5. query \ named # {} <=> ~(query \subseteq named)
    OBVIOUS
  <2> QED BY <2>3, <2>4, <2>5
<1> HIDE DEF own, sent, named, query, method, body
<1>8. Accepts(own, env, sent) <=>
        /\ Bodied => ReadAlike(body)
        /\ Queried => query \cap named = {} \/ query \subseteq named
  BY <1>6, <1>7 DEF Accepts
<1> QED BY <1>8, Zenon DEF own, sent, named, query, method, body

(* The mock of a request accepts the request, but for the bodies and the   *)
(* query keys the validation treats unlike the parser                      *)
(* (validation.go:33, 66, 96).                                             *)
THEOREM ExamplesAreAccepted == Spec => []ExampleAccepted
<1>1. Spec => []TableInv
  BY InitTable, NextTable, PTL DEF Spec
<1> QED BY <1>1, TableAccepts, PTL

=============================================================================
