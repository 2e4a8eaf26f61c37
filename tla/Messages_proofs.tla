-------------------------- MODULE Messages_proofs --------------------------
(***************************************************************************)
(* However a request is cut into segments, it is read as if it came in one *)
(* piece.                                                                  *)
(***************************************************************************)
EXTENDS Messages, TLAPS, SequenceTheorems, WellFoundedInduction

(* Induction over a set of numbers: what is not in it would have a least   *)
(* element.                                                                *)
LEMMA LeastOf ==
    ASSUME NEW S \in SUBSET Nat, S # {}
    PROVE  \E m \in S : \A n \in S : m <= n
<1>1. PICK m \in S : \A n \in S : <<n, m>> \notin OpToRel(<, Nat)
  BY NatLessThanWellFounded, WFMin, Zenon
<1>2. \A n \in S : ~(n < m)
  BY <1>1, Zenon DEF OpToRel
<1> QED
  BY <1>2

LEMMA AllNumbers ==
    ASSUME NEW S \in SUBSET Nat, 0 \in S, \A n \in S : n + 1 \in S
    PROVE  S = Nat
<1>1. SUFFICES ASSUME Nat \ S # {} PROVE FALSE
  OBVIOUS
<1>2. PICK m \in Nat \ S : \A n \in Nat \ S : m <= n
  BY <1>1, LeastOf
<1>3. m - 1 \in Nat /\ ~(m <= m - 1) /\ (m - 1) + 1 = m
  BY <1>2
<1> QED
  BY <1>2, <1>3

-----------------------------------------------------------------------------
(* Texts.  That these are strings has to be said. *)
Tokens == STRING \cup {"\r", "\n", ":", ";"}

LEMMA InFront ==
    ASSUME NEW b \in Seq(Tokens), NEW u \in Seq(Tokens)
    PROVE  \A i, j \in Int : 1 <= i /\ j <= Len(b) => SubSeq(b \o u, i, j) = SubSeq(b, i, j)
<1>1. SUFFICES ASSUME NEW i \in Int, NEW j \in Int, 1 <= i, j <= Len(b)
               PROVE  SubSeq(b \o u, i, j) = SubSeq(b, i, j)
  OBVIOUS
<1>2. \A k \in i..j : k \in 1..Len(b) /\ (b \o u)[k] = b[k]
  BY <1>1
<1> QED
  BY <1>1, <1>2

LEMMA FromMore ==
    ASSUME NEW b \in Seq(Tokens), NEW u \in Seq(Tokens), NEW i \in 1..(Len(b) + 1)
    PROVE  From(b \o u, i) = From(b, i) \o u
<1> DEFINE s == SubSeq(b \o u, i, Len(b) + Len(u))
           t == SubSeq(b, i, Len(b))
<1>1. /\ Len(b) \in Nat /\ Len(u) \in Nat /\ Len(b \o u) = Len(b) + Len(u)
      /\ t \in Seq(Tokens) /\ Len(t) = Len(b) - i + 1
      /\ s \in Seq(Tokens) /\ Len(s) = Len(b) + Len(u) - i + 1
      /\ t \o u \in Seq(Tokens) /\ Len(t \o u) = Len(s)
  OBVIOUS
<1>2. ASSUME NEW k \in 1..Len(s) PROVE s[k] = (t \o u)[k]
  <2>1. s[k] = (b \o u)[i + k - 1]
    BY <1>1
  <2>2. CASE k <= Len(t)
    BY <1>1, <2>1, <2>2
  <2>3. CASE k > Len(t)
    <3>1. (t \o u)[k] = u[k - Len(t)]
      BY <1>1, <2>3
    <3>2. (b \o u)[i + k - 1] = u[i + k - 1 - Len(b)]
      BY <1>1, <2>3
    <3>3. k - Len(t) = i + k - 1 - Len(b)
      BY <1>1
    <3> QED
      BY <3>1, <3>2, <3>3, <2>1
  <2> QED
    BY <2>2, <2>3, <1>1
<1>3. s = t \o u
  <2> HIDE DEF s, t
  <2> QED
    BY <1>1, <1>2, SeqEqual
<1> QED
  BY <1>1, <1>3 DEF From

LEMMA Behind ==
    ASSUME NEW b \in Seq(Tokens), NEW u \in Seq(Tokens), NEW k \in Nat, k <= Len(u)
    PROVE  /\ From(u, k + 1) = From(b \o u, Len(b) + k + 1)
           /\ SubSeq(b \o u, 1, Len(b) + k) = b \o SubSeq(u, 1, k)
<1> DEFINE t == b \o u
           n == Len(b)
<1>1. /\ n \in Nat /\ Len(u) \in Nat /\ t \in Seq(Tokens) /\ Len(t) = n + Len(u)
      /\ \A i \in 1..(n + Len(u)) : t[i] = IF i <= n THEN b[i] ELSE u[i - n]
  BY ConcatProperties
<1> HIDE DEF t, n
<1>2. From(u, k + 1) = From(t, n + k + 1)
  <2> DEFINE p == From(u, k + 1)
             q == From(t, n + k + 1)
  <2>1. /\ p \in Seq(Tokens) /\ Len(p) = Len(u) - k /\ q \in Seq(Tokens) /\ Len(q) = Len(u) - k
        /\ \A i \in 1..(Len(u) - k) : p[i] = u[k + i] /\ q[i] = t[n + k + i]
    BY <1>1 DEF From
  <2> HIDE DEF p, q
  <2>2. \A i \in 1..Len(p) : p[i] = q[i]
    <3>1. SUFFICES ASSUME NEW i \in 1..Len(p) PROVE p[i] = q[i]
      OBVIOUS
    <3>2. i \in 1..(Len(u) - k) /\ n + k + i \in 1..(n + Len(u)) /\ ~(n + k + i <= n)
          /\ n + k + i - n = k + i
      BY <1>1, <2>1
    <3>3. p[i] = u[k + i] /\ q[i] = t[n + k + i]
      BY <3>2, <2>1
    <3>4. t[n + k + i] = u[n + k + i - n]
      BY <3>2, <1>1
    <3> QED
      BY <3>2, <3>3, <3>4
  <2> QED
    BY <2>1, <2>2, SeqEqual DEF p, q
<1>3. SubSeq(t, 1, n + k) = b \o SubSeq(u, 1, k)
  <2> DEFINE a == SubSeq(u, 1, k)
             p == SubSeq(t, 1, n + k)
             q == b \o a
  <2>1. a \in Seq(Tokens) /\ Len(a) = k /\ \A i \in 1..k : a[i] = u[i]
    BY <1>1
  <2>2. p \in Seq(Tokens) /\ Len(p) = n + k /\ \A i \in 1..(n + k) : p[i] = t[i]
    BY <1>1
  <2> HIDE DEF a
  <2>3. q \in Seq(Tokens) /\ Len(q) = n + k
        /\ \A i \in 1..(n + k) : q[i] = IF i <= n THEN b[i] ELSE a[i - n]
    BY <2>1, ConcatProperties DEF n
  <2> HIDE DEF p, q
  <2>4. \A i \in 1..(n + k) : p[i] = q[i]
    <3>1. SUFFICES ASSUME NEW i \in 1..(n + k) PROVE p[i] = q[i]
      OBVIOUS
    <3>2. i \in 1..(n + Len(u)) /\ (~(i <= n) => i - n \in 1..k)
      BY <1>1
    <3> QED
      BY <3>2, <1>1, <2>1, <2>2, <2>3
  <2> QED
    BY <2>2, <2>3, <2>4, SeqEqual DEF p, q, a
<1> QED
  BY <1>2, <1>3 DEF t, n

-----------------------------------------------------------------------------
(* A fold of a function over a sequence has a value at every step: g maps  *)
(* a set of places to what the elements there make of the first value.     *)
Folds(g, f, base, s, n) ==
    \A S \in SUBSET (1..n) :
       g[S] = IF S = {} THEN base ELSE f[<<g[S \ {Max(S)}], s[Max(S)]>>]

LEMMA MaxOf ==
    ASSUME NEW m \in Nat, NEW S \in SUBSET (1..m), m \in S
    PROVE  Max(S) = m
<1>1. \A x \in S : x \in 1..m
  OBVIOUS
<1>2. \A y \in S : m >= y
  BY <1>1
<1>3. ASSUME NEW x \in S, \A y \in S : x >= y PROVE x = m
  BY <1>1, <1>3
<1> QED
  BY <1>2, <1>3 DEF Max

LEMMA MaxIn ==
    ASSUME NEW n \in Nat, NEW S \in SUBSET (1..n), S # {}
    PROVE  Max(S) \in S
<1> DEFINE T == {n - i : i \in S}
<1>0. \A i \in S : i \in 1..n /\ i \in Int
  OBVIOUS
<1>1. T \in SUBSET Nat /\ T # {}
  <2>1. \A i \in S : n - i \in Nat /\ n - i \in T
    BY <1>0
  <2> QED
    BY <2>1
<1>2. PICK t \in T : \A u \in T : t <= u
  BY <1>1, LeastOf
<1>3. PICK m \in S : t = n - m
  BY <1>2
<1>4. \A i \in S : m >= i
  <2>1. SUFFICES ASSUME NEW i \in S PROVE m >= i
    OBVIOUS
  <2>2. n - i \in T
    OBVIOUS
  <2>3. n - m <= n - i
    <3> HIDE DEF T
    <3> QED
      BY <1>2, <1>3, <2>2
  <2> QED
    BY <1>0, <2>3
<1> QED
  BY <1>4 DEF Max

LEMMA FirstOnes ==
    ASSUME NEW n \in Nat, NEW i \in Nat, i + 1 <= n
    PROVE  /\ i + 1 \in 1..n /\ 1..(i + 1) \in SUBSET (1..n) /\ i + 1 \in 1..(i + 1)
           /\ (1..(i + 1)) \ {i + 1} = 1..i /\ 1..(i + 1) # {}
           /\ Max(1..(i + 1)) = i + 1
<1>1. /\ i + 1 \in 1..n /\ 1..(i + 1) \in SUBSET (1..n) /\ i + 1 \in 1..(i + 1)
      /\ (1..(i + 1)) \ {i + 1} = 1..i /\ 1..(i + 1) # {}
  OBVIOUS
<1>2. Max(1..(i + 1)) = i + 1
  BY <1>1, MaxOf
<1> QED
  BY <1>1, <1>2

LEMMA LastOf ==
    ASSUME NEW n \in Nat, NEW S \in SUBSET (1..(n + 1))
    PROVE  /\ n + 1 \in S => Max(S) = n + 1 /\ S \ {n + 1} \in SUBSET (1..n)
           /\ n + 1 \notin S => S \in SUBSET (1..n) /\ S \ {Max(S)} \in SUBSET (1..n)
           /\ n + 1 \notin S \ {Max(S)}
<1>1. n + 1 \in S => Max(S) = n + 1
  BY MaxOf
<1>2. \A x \in S : x \in 1..n \/ x = n + 1
  OBVIOUS
<1> QED
  BY <1>1, <1>2

Foldable(D, f, base, s, n) == \E g \in [SUBSET (1..n) -> D] : Folds(g, f, base, s, n)

LEMMA FoldGoesOn ==
    ASSUME NEW D, NEW T, NEW s \in Seq(T), NEW base \in D, NEW f \in [D \X T -> D],
           NEW n \in Nat, NEW m, m = n + 1, m \in 1..Len(s), Foldable(D, f, base, s, n)
    PROVE  Foldable(D, f, base, s, m)
<1>0. PICK g \in [SUBSET (1..n) -> D] : Folds(g, f, base, s, n)
  BY DEF Foldable
<1> DEFINE h == [S \in SUBSET (1..(n + 1)) |->
                   IF n + 1 \in S THEN f[<<g[S \ {n + 1}], s[n + 1]>>] ELSE g[S]]
<1>1. ASSUME NEW S \in SUBSET (1..(n + 1))
      PROVE  /\ h[S] \in D
             /\ h[S] = IF S = {} THEN base ELSE f[<<h[S \ {Max(S)}], s[Max(S)]>>]
  <2>0. S \ {Max(S)} \in SUBSET (1..(n + 1)) /\ n + 1 \notin S \ {Max(S)}
    BY LastOf
  <2>1. h[S \ {Max(S)}] = g[S \ {Max(S)}]
    BY <2>0
  <2>2. CASE n + 1 \in S
    <3>1. h[S] = f[<<g[S \ {n + 1}], s[n + 1]>>]
      BY <2>2
    <3>2. S # {} /\ Max(S) = n + 1 /\ S \ {n + 1} \in SUBSET (1..n)
      BY <2>2, LastOf
    <3>3. g[S \ {n + 1}] \in D /\ s[n + 1] \in T
      BY <3>2
    <3> QED
      BY <3>1, <3>2, <3>3, <2>1
  <2>3. CASE n + 1 \notin S
    <3>1. S \in SUBSET (1..n) /\ h[S] = g[S]
      BY <2>3, LastOf
    <3>2. g[S] = IF S = {} THEN base ELSE f[<<g[S \ {Max(S)}], s[Max(S)]>>]
      BY <1>0, <3>1 DEF Folds
    <3> QED
      BY <3>1, <3>2, <2>1
  <2> QED
    BY <2>2, <2>3
<1>2. h \in [SUBSET (1..(n + 1)) -> D]
  BY <1>1
<1> HIDE DEF h
<1>3. Folds(h, f, base, s, n + 1)
  BY <1>1 DEF Folds
<1> QED
  BY <1>2, <1>3 DEF Foldable

LEMMA FoldExists ==
    ASSUME NEW D, NEW T, NEW s \in Seq(T), NEW base \in D, NEW f \in [D \X T -> D]
    PROVE  \E g \in [SUBSET (1..Len(s)) -> D] : Folds(g, f, base, s, Len(s))
<1> DEFINE Has(n) == Foldable(D, f, base, s, n)
           A == {n \in Nat : n <= Len(s) => Has(n)}
<1>1. 0 \in A
  <2> DEFINE g == [S \in SUBSET (1..0) |-> base]
  <2>1. g \in [SUBSET (1..0) -> D] /\ Folds(g, f, base, s, 0)
    BY DEF Folds
  <2> HIDE DEF g
  <2> QED
    BY <2>1 DEF Foldable
<1>2. ASSUME NEW n \in A PROVE n + 1 \in A
  <2>1. ASSUME n + 1 <= Len(s) PROVE Has(n + 1)
    <3> HIDE DEF Has
    <3>1. n \in Nat /\ n + 1 \in 1..Len(s) /\ Has(n)
      BY <2>1
    <3> HIDE DEF A
    <3> DEFINE m == n + 1
    <3>2. n \in Nat /\ m = n + 1 /\ m \in 1..Len(s) /\ Foldable(D, f, base, s, n)
      BY <3>1 DEF Has
    <3> HIDE DEF m
    <3>3. Foldable(D, f, base, s, m)
      BY <3>2, FoldGoesOn
    <3> QED
      BY <3>3 DEF Has, m
  <2> HIDE DEF Has
  <2> QED
    BY <2>1
<1>3. A = Nat
  <2> HIDE DEF A
  <2>1. A \in SUBSET Nat
    BY DEF A
  <2> QED
    BY <1>1, <1>2, <2>1, AllNumbers
<1>4. Has(Len(s))
  <2> HIDE DEF Has
  <2> QED
    BY <1>3
<1> QED
  BY <1>4 DEF Foldable

-----------------------------------------------------------------------------
(* Numbers. *)
LEMMA TenAre ==
    ASSUME NEW S, NEW a \in S, NEW b \in S, NEW c \in S, NEW d \in S, NEW e \in S,
           NEW f \in S, NEW g \in S, NEW h \in S, NEW i \in S, NEW j \in S
    PROVE  <<a, b, c, d, e, f, g, h, i, j>> \in Seq(S)
OBVIOUS

LEMMA SixAre ==
    ASSUME NEW S, NEW a \in S, NEW b \in S, NEW c \in S, NEW d \in S, NEW e \in S, NEW f \in S
    PROVE  <<a, b, c, d, e, f>> \in Seq(S)
OBVIOUS

LEMMA DigitsAre ==
    \E S : /\ Digits \in Seq(S) /\ HexDigits \in Seq(S)
          /\ \A c : Contains(Digits, c) => Contains(HexDigits, c)
<1> DEFINE A == {"0", "1", "2", "3", "4", "5", "6", "7", "8", "9"}
           B == {"a", "b", "c", "d", "e", "f"}
           S == A \cup B
           six == <<"a", "b", "c", "d", "e", "f">>
<1>1. /\ "0" \in A /\ "1" \in A /\ "2" \in A /\ "3" \in A /\ "4" \in A
      /\ "5" \in A /\ "6" \in A /\ "7" \in A /\ "8" \in A /\ "9" \in A
      /\ "a" \in B /\ "b" \in B /\ "c" \in B /\ "d" \in B /\ "e" \in B /\ "f" \in B
  OBVIOUS
<1> HIDE DEF A, B
<1>2. Digits \in Seq(S)
  BY <1>1, TenAre, Zenon DEF Digits
<1>3. six \in Seq(S)
  BY <1>1, SixAre, Zenon
<1>4. HexDigits = Digits \o six
  BY DEF HexDigits
<1> HIDE DEF six, S
<1>5. /\ HexDigits \in Seq(S) /\ Len(Digits) \in Nat /\ Len(HexDigits) = Len(Digits) + Len(six)
      /\ Len(six) \in Nat
      /\ \A i \in 1..Len(Digits) : HexDigits[i] = Digits[i]
  BY <1>2, <1>3, <1>4, ConcatProperties
<1>6. \A c : Contains(Digits, c) => Contains(HexDigits, c)
  BY <1>5 DEF Contains
<1> QED
  BY <1>2, <1>5, <1>6

LEMMA DigitIs == \A c : Contains(HexDigits, c) => Digit(c) \in Nat
<1>1. PICK S : HexDigits \in Seq(S)
  BY DigitsAre
<1>2. ASSUME NEW c, Contains(HexDigits, c) PROVE Digit(c) \in Nat
  <2>1. DOMAIN HexDigits = 1..Len(HexDigits) /\ Len(HexDigits) \in Nat
    BY <1>1
  <2>2. \E i \in DOMAIN HexDigits : HexDigits[i] = c
    BY <1>2, <2>1 DEF Contains
  <2> DEFINE j == CHOOSE i \in DOMAIN HexDigits : HexDigits[i] = c
  <2>3. j \in DOMAIN HexDigits
    BY <2>2
  <2> HIDE DEF j
  <2>4. j - 1 \in Nat
    BY <2>1, <2>3
  <2> QED
    BY <2>4 DEF Digit, j
<1> QED
  BY <1>2

Results == [ok : BOOLEAN, value : Nat]

LEMMA ExtendIs ==
    ASSUME NEW base \in Nat, NEW r \in Results, NEW c, Contains(HexDigits, c)
    PROVE  Extend(base, r, c) \in Results
<1>1. None \in Results
  BY DEF None, Results
<1>2. r.value * base + Digit(c) \in Nat
  BY DigitIs DEF Results
<1>3. Some(r.value * base + Digit(c)) \in Results
  BY <1>2 DEF Some, Results
<1> QED
  BY <1>1, <1>3 DEF Extend

LEMMA NumberIs ==
    ASSUME NEW s \in Seq(Tokens), NEW base \in Nat, NEW digits,
           \A c : Contains(digits, c) => Contains(HexDigits, c)
    PROVE  Number(s, base, digits) \in Results
<1>1. CASE s = <<>> \/ \E i \in DOMAIN s : ~Contains(digits, s[i])
  BY <1>1 DEF Number, None, Results
<1>2. CASE ~(s = <<>> \/ \E i \in DOMAIN s : ~Contains(digits, s[i]))
  <2> DEFINE T == {c \in Tokens : Contains(digits, c)}
             n == Len(s)
             f == [p \in Results \X T |-> Extend(base, p[1], p[2])]
             Steps(h) == h = [S \in SUBSET (1..n) |->
                                IF S = {} THEN Some(0)
                                ELSE Extend(base, h[S \ {Max(S)}], s[Max(S)])]
  <2>1. /\ n \in Nat /\ DOMAIN s = 1..n /\ s \in Seq(T) /\ \A i \in 1..n : s[i] \in T
    BY <1>2
  <2>2. f \in [Results \X T -> Results] /\ Some(0) \in Results
    <3>1. \A r \in Results, c \in T : Extend(base, r, c) \in Results
      BY ExtendIs
    <3>2. Some(0) \in Results
      BY DEF Some, Results
    <3> QED
      BY <3>1, <3>2
  <2>3. \A r \in Results, c \in T : f[<<r, c>>] = Extend(base, r, c)
    OBVIOUS
  <2> HIDE DEF T, f
  <2>4. PICK g \in [SUBSET (1..n) -> Results] : Folds(g, f, Some(0), s, n)
    BY <2>1, <2>2, FoldExists
  <2>5. Steps(g)
    <3>1. ASSUME NEW S \in SUBSET (1..n), S # {}
          PROVE  g[S] = Extend(base, g[S \ {Max(S)}], s[Max(S)])
      <4>1. S \ {Max(S)} \in SUBSET (1..n) /\ Max(S) \in 1..n
        BY <3>1, <2>1, MaxIn
      <4>2. g[S \ {Max(S)}] \in Results /\ s[Max(S)] \in T
        BY <4>1, <2>1
      <4>3. g[S] = f[<<g[S \ {Max(S)}], s[Max(S)]>>]
        BY <2>4, <3>1 DEF Folds
      <4> QED
        BY <4>2, <4>3, <2>3
    <3>2. g[{}] = Some(0)
      BY <2>4 DEF Folds
    <3> QED
      BY <3>1, <3>2
  <2> DEFINE h == CHOOSE k : Steps(k)
  <2>6. Number(s, base, digits) = h[1..n]
    BY <1>2, <2>1 DEF Number, FoldLeft, MapThenFoldSet
  <2>7. Steps(h)
    BY <2>5
  <2> HIDE DEF h
  <2> DEFINE A == {i \in Nat : i <= n => h[1..i] \in Results}
  <2>8. 0 \in A
    <3>1. h[1..0] = Some(0)
      BY <2>1, <2>7
    <3> QED
      BY <3>1, <2>2
  <2>9. ASSUME NEW i \in A PROVE i + 1 \in A
    <3>1. ASSUME i + 1 <= n PROVE h[1..(i + 1)] \in Results
      <4>1. /\ i \in Nat /\ i + 1 \in 1..n /\ 1..(i + 1) \in SUBSET (1..n) /\ i + 1 \in 1..(i + 1)
            /\ (1..(i + 1)) \ {i + 1} = 1..i /\ 1..(i + 1) # {}
        BY <2>1, <3>1, FirstOnes
      <4>2. Max(1..(i + 1)) = i + 1
        BY <2>1, <3>1, FirstOnes
      <4>3. h[1..i] \in Results /\ Contains(HexDigits, s[i + 1])
        BY <4>1, <2>1, <1>2
      <4>4. h[1..(i + 1)] = Extend(base, h[1..i], s[i + 1])
        BY <4>1, <4>2, <2>7
      <4> QED
        BY <4>3, <4>4, ExtendIs
    <3> QED
      BY <3>1
  <2>10. A = Nat
    <3> HIDE DEF A
    <3>1. A \in SUBSET Nat
      BY DEF A
    <3> QED
      BY <2>8, <2>9, <3>1, AllNumbers
  <2> QED
    BY <2>6, <2>10, <2>1
<1> QED
  BY <1>1, <1>2

-----------------------------------------------------------------------------
(* A word in a text. *)
LEMMA FindIs ==
    ASSUME NEW b \in Seq(Tokens), NEW w \in Seq(Tokens), Len(w) > 0
    PROVE  /\ Find(b, w) \in Nat
           /\ Find(b, w) # 0 => /\ Find(b, w) \in 1..(Len(b) - Len(w) + 1)
                                /\ SubSeq(b, Find(b, w), Find(b, w) + Len(w) - 1) = w
                                /\ \A i \in 1..(Len(b) - Len(w) + 1) :
                                     SubSeq(b, i, i + Len(w) - 1) = w => Find(b, w) <= i
           /\ Find(b, w) = 0 => \A i \in 1..(Len(b) - Len(w) + 1) :
                                     SubSeq(b, i, i + Len(w) - 1) # w
<1> DEFINE there == {i \in 1..(Len(b) - Len(w) + 1) : SubSeq(b, i, i + Len(w) - 1) = w}
<1>1. Find(b, w) = IF there = {} THEN 0 ELSE CHOOSE i \in there : \A j \in there : i <= j
  BY DEF Find
<1>2. there \in SUBSET Nat /\ there \in SUBSET (1..(Len(b) - Len(w) + 1))
  OBVIOUS
<1>3. \A i \in 1..(Len(b) - Len(w) + 1) : i \in there <=> SubSeq(b, i, i + Len(w) - 1) = w
  OBVIOUS
<1> HIDE DEF there
<1>4. ASSUME there # {} PROVE \E i \in there : \A j \in there : i <= j
  BY <1>2, <1>4, LeastOf
<1>5. CASE there = {}
  <2>1. Find(b, w) = 0
    BY <1>1, <1>5
  <2>2. \A i \in 1..(Len(b) - Len(w) + 1) : SubSeq(b, i, i + Len(w) - 1) # w
    BY <1>3, <1>5
  <2>3. Find(b, w) \in Nat
    BY <2>1
  <2> QED
    BY <2>1, <2>2, <2>3, Zenon
<1>6. CASE there # {}
  <2>1. Find(b, w) \in there /\ \A j \in there : Find(b, w) <= j
    BY <1>1, <1>4, <1>6
  <2>2. Find(b, w) \in 1..(Len(b) - Len(w) + 1)
    BY <2>1, <1>2
  <2>3. Find(b, w) \in Nat /\ Find(b, w) # 0
    BY <2>2
  <2>4. SubSeq(b, Find(b, w), Find(b, w) + Len(w) - 1) = w
    BY <2>1, <2>2, <1>3
  <2>5. \A i \in 1..(Len(b) - Len(w) + 1) :
           SubSeq(b, i, i + Len(w) - 1) = w => Find(b, w) <= i
    BY <2>1, <1>3
  <2> QED
    BY <2>2, <2>3, <2>4, <2>5
<1> QED
  BY <1>5, <1>6

(* What is found stays where it is when more comes. *)
LEMMA FindStays ==
    ASSUME NEW b \in Seq(Tokens), NEW w \in Seq(Tokens), Len(w) > 0, NEW u \in Seq(Tokens),
           Find(b, w) # 0
    PROVE  /\ Find(b \o u, w) = Find(b, w)
           /\ UpTo(b \o u, Find(b, w)) = UpTo(b, Find(b, w))
           /\ \A n \in 0..(Len(w)) : From(b \o u, Find(b, w) + n) = From(b, Find(b, w) + n) \o u
<1> DEFINE f == Find(b, w)
           t == b \o u
           last == Len(b) - Len(w) + 1
<1>1. /\ f \in 1..last /\ SubSeq(b, f, f + Len(w) - 1) = w
      /\ \A i \in 1..last : SubSeq(b, i, i + Len(w) - 1) = w => f <= i
  BY FindIs
<1>2. t \in Seq(Tokens) /\ Len(t) = Len(b) + Len(u) /\ Len(b) \in Nat /\ Len(u) \in Nat /\ Len(w) \in Nat
  OBVIOUS
<1>3. \A i \in 1..last : SubSeq(t, i, i + Len(w) - 1) = SubSeq(b, i, i + Len(w) - 1)
  BY <1>2, InFront
<1>4. SubSeq(t, f, f + Len(w) - 1) = w /\ f \in 1..(Len(t) - Len(w) + 1) /\ Find(t, w) # 0
  <2>1. SubSeq(t, f, f + Len(w) - 1) = w /\ f \in 1..(Len(t) - Len(w) + 1)
    BY <1>1, <1>2, <1>3
  <2> QED
    BY <2>1, <1>2, FindIs
<1>4a. UpTo(t, f) = UpTo(b, f)
  BY <1>1, <1>2, InFront DEF UpTo
<1> HIDE DEF f, t
<1>5. /\ Find(t, w) \in 1..(Len(t) - Len(w) + 1)
      /\ SubSeq(t, Find(t, w), Find(t, w) + Len(w) - 1) = w
      /\ \A i \in 1..(Len(t) - Len(w) + 1) : SubSeq(t, i, i + Len(w) - 1) = w => Find(t, w) <= i
  BY <1>4, <1>2, FindIs
<1>6. Find(t, w) <= f
  BY <1>4, <1>5
<1>7. f <= Find(t, w)
  <2>1. Find(t, w) \in 1..last 
    BY <1>5, <1>6, <1>1, <1>2
  <2>2. SubSeq(b, Find(t, w), Find(t, w) + Len(w) - 1) = w
    BY <2>1, <1>3, <1>5, <1>2
  <2> QED
    BY <2>1, <2>2, <1>1
<1>8. Find(t, w) = f
  BY <1>6, <1>7, <1>5, <1>1, <1>2
<1>10. ASSUME NEW n \in 0..Len(w) PROVE From(t, f + n) = From(b, f + n) \o u
  <2>1. f + n \in 1..(Len(b) + 1)
    BY <1>1, <1>2
  <2> QED
    BY <2>1, FromMore DEF t
<1> QED
  BY <1>8, <1>4a, <1>10 DEF f, t

LEMMA FromIs ==
    ASSUME NEW b \in Seq(Tokens), NEW i \in 1..(Len(b) + 1)
    PROVE  From(b, i) \in Seq(Tokens) /\ Len(From(b, i)) = Len(b) - i + 1
BY DEF From

LEMMA CRLFIs ==
    /\ CRLF \in Seq(Tokens) /\ Len(CRLF) = 2
    /\ CRLF \o CRLF \in Seq(Tokens) /\ Len(CRLF \o CRLF) = 4
<1> DEFINE r == "\r"
           n == "\n"
           c == <<r, n>>
<1>1. r \in Tokens /\ n \in Tokens
  BY DEF Tokens
<1>2. CRLF = c
  BY DEF CRLF
<1> HIDE DEF r, n
<1>3. c \in Seq(Tokens) /\ Len(c) = 2
  BY <1>1
<1> HIDE DEF c
<1>4. c \o c \in Seq(Tokens) /\ Len(c \o c) = 4
  <2>1. c \o c \in Seq(Tokens) /\ Len(c \o c) = Len(c) + Len(c)
    BY <1>3, ConcatProperties
  <2> QED
    BY <2>1, <1>3
<1> QED
  BY <1>2, <1>3, <1>4

-----------------------------------------------------------------------------
(* The pieces of a text and the headers in them. *)
LEMMA SkipIs ==
    ASSUME NEW s \in Seq(Tokens), NEW chars
    PROVE  Skip(s, chars) \in Seq(Tokens)
<1> DEFINE kept == {i \in DOMAIN s : s[i] \notin chars}
           first == IF kept = {} THEN Len(s) + 1
                    ELSE CHOOSE i \in kept : \A j \in kept : i <= j
<1>1. Skip(s, chars) = SubSeq(s, first, Len(s))
  BY DEF Skip
<1>2. kept \in SUBSET (1..Len(s)) /\ kept \in SUBSET Nat /\ Len(s) \in Nat
  OBVIOUS
<1>3. first \in 1..(Len(s) + 1)
  <2> HIDE DEF kept
  <2>1. CASE kept = {}
    BY <1>2, <2>1
  <2>2. CASE kept # {}
    <3>1. \E i \in kept : \A j \in kept : i <= j
      BY <1>2, <2>2, LeastOf
    <3>2. first \in kept
      BY <2>2, <3>1
    <3> HIDE DEF first
    <3> QED
      BY <1>2, <3>2
  <2> QED
    BY <2>1, <2>2
<1> HIDE DEF first
<1> QED
  BY <1>1, <1>2, <1>3

LEMMA TrimIs ==
    ASSUME NEW s \in Seq(Tokens)
    PROVE  Trim(s) \in Seq(Tokens)
<1>1. \A t \in Seq(Tokens) : Reverse(t) \in Seq(Tokens)
  BY DEF Reverse
<1>2. Skip(s, {" "}) \in Seq(Tokens)
  BY SkipIs
<1>3. Reverse(Skip(s, {" "})) \in Seq(Tokens)
  BY <1>1, <1>2
<1>4. Skip(Reverse(Skip(s, {" "})), {" "}) \in Seq(Tokens)
  BY <1>3, SkipIs
<1> QED
  BY <1>1, <1>4, Zenon DEF Trim

Pieced == {p \in Seq(Seq(Tokens)) : p # <<>>}
NextPiece(separator, pieces, c) ==
    IF c = separator THEN Append(pieces, <<>>)
    ELSE [pieces EXCEPT ![Len(pieces)] = Append(@, c)]

LEMMA NextPieceIs ==
    ASSUME NEW separator, NEW p \in Pieced, NEW c \in Tokens
    PROVE  NextPiece(separator, p, c) \in Pieced
<1>1. p \in Seq(Seq(Tokens)) /\ p # <<>>
  BY DEF Pieced
<1> DEFINE none == <<>>
<1>2. none \in Seq(Tokens)
  OBVIOUS
<1> HIDE DEF none
<1>3. CASE c = separator
  <2>1. NextPiece(separator, p, c) = Append(p, none)
    BY <1>3 DEF NextPiece, none
  <2>2. Append(p, none) \in Seq(Seq(Tokens)) /\ Len(Append(p, none)) = Len(p) + 1
    BY <1>1, <1>2
  <2>3. Append(p, none) # <<>>
    BY <1>1, <2>2
  <2> QED
    BY <2>1, <2>2, <2>3 DEF Pieced
<1>4. CASE c # separator
  <2>1. Len(p) \in DOMAIN p /\ p[Len(p)] \in Seq(Tokens)
    BY <1>1
  <2>2. Append(p[Len(p)], c) \in Seq(Tokens)
    BY <2>1
  <2>3. NextPiece(separator, p, c) = [p EXCEPT ![Len(p)] = Append(p[Len(p)], c)]
    BY <1>1, <1>4 DEF NextPiece
  <2>4. NextPiece(separator, p, c) \in Seq(Seq(Tokens)) /\ Len(NextPiece(separator, p, c)) = Len(p)
    BY <2>1, <2>2, <2>3, <1>1, ExceptSeq
  <2>5. NextPiece(separator, p, c) # <<>>
    BY <1>1, <2>4
  <2> QED
    BY <2>4, <2>5 DEF Pieced
<1> QED
  BY <1>3, <1>4

LEMMA PiecesAre ==
    ASSUME NEW s \in Seq(Tokens), NEW separator
    PROVE  Pieces(s, separator) \in Seq(Seq(Tokens))
<1> DEFINE n == Len(s)
           f == [p \in Pieced \X Tokens |-> NextPiece(separator, p[1], p[2])]
           first == <<<<>>>>
           Steps(h) == h = [S \in SUBSET (1..n) |->
                              IF S = {} THEN first
                              ELSE NextPiece(separator, h[S \ {Max(S)}], s[Max(S)])]
<1>1. n \in Nat /\ DOMAIN s = 1..n /\ \A i \in 1..n : s[i] \in Tokens
  OBVIOUS
<1>2. f \in [Pieced \X Tokens -> Pieced] /\ first \in Pieced
  <2>1. \A p \in Pieced, c \in Tokens : NextPiece(separator, p, c) \in Pieced
    BY NextPieceIs
  <2> DEFINE none == <<>>
  <2>2. none \in Seq(Tokens)
    OBVIOUS
  <2> HIDE DEF none
  <2>3. <<none>> \in Seq(Seq(Tokens)) /\ Len(<<none>>) = 1
    BY <2>2
  <2>4. <<none>> \in Pieced
    BY <2>3 DEF Pieced
  <2>5. first \in Pieced
    BY <2>4 DEF none
  <2> QED
    BY <2>1, <2>5
<1>3. \A p \in Pieced, c \in Tokens : f[<<p, c>>] = NextPiece(separator, p, c)
  OBVIOUS
<1> HIDE DEF f, first
<1>4. PICK g \in [SUBSET (1..n) -> Pieced] : Folds(g, f, first, s, n)
  BY <1>1, <1>2, FoldExists
<1>5. Steps(g)
  <2>1. ASSUME NEW S \in SUBSET (1..n), S # {}
        PROVE  g[S] = NextPiece(separator, g[S \ {Max(S)}], s[Max(S)])
    <3>1. S \ {Max(S)} \in SUBSET (1..n) /\ Max(S) \in 1..n
      BY <2>1, <1>1, MaxIn
    <3>2. g[S \ {Max(S)}] \in Pieced /\ s[Max(S)] \in Tokens
      BY <3>1, <1>1
    <3>3. g[S] = f[<<g[S \ {Max(S)}], s[Max(S)]>>]
      BY <1>4, <2>1 DEF Folds
    <3> QED
      BY <3>2, <3>3, <1>3
  <2>2. g[{}] = first
    BY <1>4 DEF Folds
  <2> QED
    BY <2>1, <2>2
<1> DEFINE h == CHOOSE k : Steps(k)
           all == h[1..n]
<1>6. Pieces(s, separator) = IF Last(all) = <<>> THEN Front(all) ELSE all
  BY <1>1 DEF Pieces, FoldLeft, MapThenFoldSet, first, NextPiece
<1>7. Steps(h)
  BY <1>5
<1> HIDE DEF h
<1> DEFINE A == {i \in Nat : i <= n => h[1..i] \in Pieced}
<1>8. 0 \in A
  <2>1. h[1..0] = first
    BY <1>1, <1>7
  <2> QED
    BY <2>1, <1>2
<1>9. ASSUME NEW i \in A PROVE i + 1 \in A
  <2>1. ASSUME i + 1 <= n PROVE h[1..(i + 1)] \in Pieced
    <3>1. /\ i \in Nat /\ i + 1 \in 1..n /\ 1..(i + 1) \in SUBSET (1..n) /\ i + 1 \in 1..(i + 1)
          /\ (1..(i + 1)) \ {i + 1} = 1..i /\ 1..(i + 1) # {}
      BY <1>1, <2>1, FirstOnes
    <3>2. Max(1..(i + 1)) = i + 1
      BY <1>1, <2>1, FirstOnes
    <3>3. h[1..i] \in Pieced /\ s[i + 1] \in Tokens
      BY <3>1, <1>1
    <3>4. h[1..(i + 1)] = NextPiece(separator, h[1..i], s[i + 1])
      BY <3>1, <3>2, <1>7
    <3> QED
      BY <3>3, <3>4, NextPieceIs
  <2> QED
    BY <2>1
<1>10. A = Nat
  <2> HIDE DEF A
  <2>1. A \in SUBSET Nat
    BY DEF A
  <2> QED
    BY <1>8, <1>9, <2>1, AllNumbers
<1>11. all \in Seq(Seq(Tokens)) /\ all # <<>>
  BY <1>1, <1>10 DEF Pieced
<1> HIDE DEF all
<1>12. Front(all) \in Seq(Seq(Tokens))
  BY <1>11 DEF Front
<1> QED
  BY <1>6, <1>11, <1>12

Headers == UNION {[K -> Seq(Tokens)] : K \in SUBSET Seq(Tokens)}
Filled == [ok : BOOLEAN, map : Headers]

LEMMA AddHeaderIs ==
    ASSUME NEW m \in Filled, NEW whole \in Seq(Tokens)
    PROVE  AddHeader(m, whole) \in Filled
<1> DEFINE line == IF whole # <<>> /\ Last(whole) = "\r" THEN Front(whole) ELSE whole
           colon == Find(line, <<":">>)
           key == Trim(UpTo(line, colon))
           value == Trim(From(line, colon + 1))
<1>1. line \in Seq(Tokens)
  BY DEF Front
<1>2. AddHeader(m, whole) =
        IF line = <<>> \/ ~m.ok THEN m
        ELSE IF colon = 0 \/ key = <<>> \/ key \in DOMAIN m.map THEN Refused(m)
        ELSE With(m, key, value)
  BY DEF AddHeader
<1> HIDE DEF line
<1>3. Refused(m) \in Filled
  BY DEF Refused, Filled
<1>4. ASSUME colon # 0 PROVE key \in Seq(Tokens) /\ value \in Seq(Tokens)
  <2> DEFINE c == <<":">>
  <2>1. c \in Seq(Tokens) /\ Len(c) = 1
    <3> DEFINE t == ":"
    <3>1. t \in Tokens
      BY DEF Tokens
    <3> HIDE DEF t
    <3>2. <<t>> \in Seq(Tokens) /\ Len(<<t>>) = 1
      BY <3>1
    <3> QED
      BY <3>2 DEF t
  <2> HIDE DEF c
  <2>2. Find(line, c) # 0 => Find(line, c) \in 1..(Len(line) - Len(c) + 1)
    <3>1. Len(c) > 0
      BY <2>1
    <3> QED
      BY <1>1, <2>1, <3>1, FindIs
  <2>3. colon \in 1..Len(line) /\ Len(line) \in Nat
    <3>1. Len(line) - Len(c) + 1 = Len(line) /\ Len(line) \in Nat
      BY <1>1, <2>1
    <3> QED
      BY <1>4, <2>2, <3>1 DEF c
  <2> HIDE DEF colon
  <2>4. UpTo(line, colon) \in Seq(Tokens) /\ From(line, colon + 1) \in Seq(Tokens)
    BY <1>1, <2>3 DEF UpTo, From
  <2> QED
    BY <2>4, TrimIs
<1> HIDE DEF key, value, colon
<1>5. ASSUME key \in Seq(Tokens), value \in Seq(Tokens)
      PROVE  With(m, key, value) \in Filled
  <2>1. PICK K \in SUBSET Seq(Tokens) : m.map \in [K -> Seq(Tokens)]
    BY DEF Filled, Headers
  <2> DEFINE p == Put(m.map, key, value)
  <2>2. DOMAIN m.map = K
    BY <2>1
  <2>3. p \in [K \cup {key} -> Seq(Tokens)] /\ K \cup {key} \in SUBSET Seq(Tokens)
    BY <1>5, <2>1, <2>2 DEF Put
  <2> HIDE DEF p
  <2>4. p \in Headers
    BY <2>3, Zenon DEF Headers
  <2>5. With(m, key, value) = [m EXCEPT !.map = p]
    BY DEF With, p
  <2> QED
    BY <2>4, <2>5 DEF Filled
<1> QED
  BY <1>2, <1>3, <1>4, <1>5

LEMMA HeadersAre ==
    ASSUME NEW s \in Seq(Seq(Tokens))
    PROVE  FoldLeft(AddHeader, Empty, s) \in Filled
<1> DEFINE T == Seq(Tokens)
           n == Len(s)
           f == [p \in Filled \X T |-> AddHeader(p[1], p[2])]
           Steps(h) == h = [S \in SUBSET (1..n) |->
                              IF S = {} THEN Empty
                              ELSE AddHeader(h[S \ {Max(S)}], s[Max(S)])]
<1>1. n \in Nat /\ DOMAIN s = 1..n /\ \A i \in 1..n : s[i] \in T
  OBVIOUS
<1>2. f \in [Filled \X T -> Filled] /\ Empty \in Filled
  <2>1. \A m \in Filled, t \in T : AddHeader(m, t) \in Filled
    BY AddHeaderIs
  <2> DEFINE none == <<>>
  <2>2. none \in [{} -> Seq(Tokens)]
    <3>1. none \in Seq(Seq(Tokens)) /\ Len(none) = 0
      BY EmptySeq
    <3> HIDE DEF none
    <3>2. none \in [1..0 -> Seq(Tokens)]
      BY <3>1, LenProperties
    <3>3. 1..0 = {}
      OBVIOUS
    <3> QED
      BY <3>2, <3>3
  <2> HIDE DEF none
  <2>3. none \in Headers
    <3>1. {} \in SUBSET Seq(Tokens)
      OBVIOUS
    <3> QED
      BY <2>2, <3>1, Zenon DEF Headers
  <2>4. Empty = [ok |-> TRUE, map |-> none]
    BY DEF Empty, none
  <2>5. Empty \in Filled
    BY <2>3, <2>4 DEF Filled
  <2> QED
    BY <2>1, <2>5
<1>3. \A m \in Filled, t \in T : f[<<m, t>>] = AddHeader(m, t)
  OBVIOUS
<1> HIDE DEF f
<1>4. PICK g \in [SUBSET (1..n) -> Filled] : Folds(g, f, Empty, s, n)
  BY <1>1, <1>2, FoldExists
<1>5. Steps(g)
  <2>1. ASSUME NEW S \in SUBSET (1..n), S # {}
        PROVE  g[S] = AddHeader(g[S \ {Max(S)}], s[Max(S)])
    <3>1. S \ {Max(S)} \in SUBSET (1..n) /\ Max(S) \in 1..n
      BY <2>1, <1>1, MaxIn
    <3>2. g[S \ {Max(S)}] \in Filled /\ s[Max(S)] \in T
      BY <3>1, <1>1
    <3>3. g[S] = f[<<g[S \ {Max(S)}], s[Max(S)]>>]
      BY <1>4, <2>1 DEF Folds
    <3> QED
      BY <3>2, <3>3, <1>3
  <2>2. g[{}] = Empty
    BY <1>4 DEF Folds
  <2> QED
    BY <2>1, <2>2
<1> DEFINE h == CHOOSE k : Steps(k)
<1>6. FoldLeft(AddHeader, Empty, s) = h[1..n]
  BY <1>1, Zenon DEF FoldLeft, MapThenFoldSet
<1>7. Steps(h)
  BY <1>5
<1> HIDE DEF h
<1> DEFINE A == {i \in Nat : i <= n => h[1..i] \in Filled}
<1>8. 0 \in A
  <2>1. h[1..0] = Empty
    BY <1>1, <1>7
  <2> QED
    BY <2>1, <1>2
<1>9. ASSUME NEW i \in A PROVE i + 1 \in A
  <2>1. ASSUME i + 1 <= n PROVE h[1..(i + 1)] \in Filled
    <3>1. /\ i \in Nat /\ i + 1 \in 1..n /\ 1..(i + 1) \in SUBSET (1..n) /\ i + 1 \in 1..(i + 1)
          /\ (1..(i + 1)) \ {i + 1} = 1..i /\ 1..(i + 1) # {}
      BY <1>1, <2>1, FirstOnes
    <3>2. Max(1..(i + 1)) = i + 1
      BY <1>1, <2>1, FirstOnes
    <3>3. h[1..i] \in Filled /\ s[i + 1] \in T
      BY <3>1, <1>1
    <3>4. h[1..(i + 1)] = AddHeader(h[1..i], s[i + 1])
      BY <3>1, <3>2, <1>7
    <3> QED
      BY <3>3, <3>4, AddHeaderIs
  <2> QED
    BY <2>1
<1>10. A = Nat
  <2> HIDE DEF A
  <2>1. A \in SUBSET Nat
    BY DEF A
  <2> QED
    BY <1>8, <1>9, <2>1, AllNumbers
<1> QED
  BY <1>1, <1>6, <1>10

-----------------------------------------------------------------------------
(* What the parsers keep, as far as it matters how they keep it. *)
Fields == {"buffer", "state", "error", "limit", "headerBytes", "mode", "left", "chunk", "req"}
Parts == {"method", "path", "version", "query", "headers", "body"}
States == {"line", "head", "body", "complete"}
Modes == {"uninitialized", "identity", "size", "data", "crlf", "complete"}

(* A body is expected where a header says so. *)
Expects(state, req) ==
    state = "body" => Length \in DOMAIN req.headers \/ Encoding \in DOMAIN req.headers

Shape(x) ==
    /\ x = [f \in Fields |-> x[f]]
    /\ x.req = [p \in Parts |-> x.req[p]]
    /\ x.buffer \in Seq(Tokens)
    /\ x.req.body \in Seq(Tokens) /\ x.req.headers \in Headers
    /\ x.state \in States /\ x.mode \in Modes
    /\ x.error \in Int /\ x.limit \in Nat
    /\ x.left \in Nat /\ x.chunk \in Nat
    /\ Expects(x.state, x.req)

(* x with more in the buffer and another limit. *)
More(x, u, l) == [x EXCEPT !.buffer = @ \o u, !.limit = l]

(* What of a value neither of them touches. *)
SameRest(x, y) ==
    /\ x.state = y.state /\ x.error = y.error /\ x.headerBytes = y.headerBytes
    /\ x.mode = y.mode /\ x.left = y.left /\ x.chunk = y.chunk /\ x.req = y.req

SameParts(x, y) ==
    /\ x.error = y.error /\ x.limit = y.limit /\ x.mode = y.mode /\ x.left = y.left
    /\ x.chunk = y.chunk /\ x.req = y.req

LEMMA BufferIs ==
    ASSUME NEW x, Shape(x)
    PROVE  x.buffer \in Seq(Tokens) /\ Len(x.buffer) \in Nat
BY DEF Shape

LEMMA MoreIs ==
    ASSUME NEW x, Shape(x), NEW u \in Seq(Tokens), NEW l \in Nat
    PROVE  /\ Shape(More(x, u, l)) /\ SameRest(More(x, u, l), x)
           /\ More(x, u, l).buffer = x.buffer \o u /\ More(x, u, l).limit = l
<1> DEFINE y == More(x, u, l)
<1>0. x.buffer \o u \in Seq(Tokens)
  BY DEF Shape
<1>1. y = [f \in Fields |-> y[f]] /\ y.buffer = x.buffer \o u /\ y.limit = l
  BY DEF Shape, More, Fields
<1>2. SameRest(y, x)
  BY DEF Shape, More, Fields, SameRest
<1>3. y.buffer \in Seq(Tokens)
  BY <1>0, <1>1
<1> HIDE DEF y
<1>4. Shape(y)
  BY <1>1, <1>2, <1>3 DEF Shape, SameRest
<1> QED
  BY <1>1, <1>2, <1>4 DEF y

LEMMA IsMore ==
    ASSUME NEW x, Shape(x), NEW u \in Seq(Tokens), NEW l \in Nat,
           NEW y, Shape(y), SameRest(y, x), y.buffer = x.buffer \o u, y.limit = l
    PROVE  y = More(x, u, l)
<1> DEFINE z == More(x, u, l)
<1>1. /\ Shape(z) /\ SameRest(z, x) /\ z.buffer = x.buffer \o u /\ z.limit = l
  BY MoreIs
<1> HIDE DEF z
<1>2. \A f \in Fields : y[f] = z[f]
  BY <1>1 DEF Fields, SameRest
<1>3. y = z
  BY <1>1, <1>2 DEF Shape
<1> QED
  BY <1>3 DEF z

LEMMA SameIs ==
    ASSUME NEW x, NEW y, Shape(x), Shape(y), SameRest(x, y),
           x.buffer = y.buffer, x.limit = y.limit
    PROVE  x = y
<1>1. \A f \in Fields : x[f] = y[f]
  BY DEF Fields, SameRest
<1> QED
  BY <1>1 DEF Shape

LEMMA FailIs ==
    ASSUME NEW x, Shape(x), NEW u \in Seq(Tokens), NEW l \in Nat, NEW code \in Int
    PROVE  /\ Shape(Fail(x, code)) /\ Fail(x, code).error = code
           /\ Fail(x, code).buffer = x.buffer /\ Fail(x, code).limit = x.limit
           /\ Fail(x, code).state = x.state /\ Fail(x, code).req = x.req
           /\ Fail(x, code).headerBytes = x.headerBytes
           /\ Fail(More(x, u, l), code) = More(Fail(x, code), u, l)
<1> DEFINE y == Fail(x, code)
<1>1. /\ Shape(y) /\ y.error = code /\ y.buffer = x.buffer /\ y.limit = x.limit
      /\ y.state = x.state /\ y.req = x.req /\ y.headerBytes = x.headerBytes
  BY DEF Shape, Fail, Fields
<1>2. Fail(More(x, u, l), code) = More(y, u, l)
  BY DEF Shape, Fail, More, Fields
<1> QED
  BY <1>1, <1>2

-----------------------------------------------------------------------------
(* RequestLineParser. *)
(* The first line is the same whatever follows it. *)
LEMMA LineIs ==
    ASSUME NEW x, Shape(x), NEW u \in Seq(Tokens), NEW l \in Nat, NEW line
    PROVE  /\ Shape(ParseLine(x, line))
           /\ ParseLine(x, line).buffer = x.buffer
           /\ ParseLine(x, line).limit = x.limit
           /\ ParseLine(More(x, u, l), line) = More(ParseLine(x, line), u, l)
<1> DEFINE methodEnd == Find(line, <<" ">>)
           rest == From(line, methodEnd + 1)
           uriEnd == Find(rest, <<" ">>)
           uri == UpTo(rest, uriEnd)
           version == From(rest, uriEnd + 1)
           mark == Find(uri, <<"?">>)
           path == IF mark = 0 THEN uri ELSE UpTo(uri, mark)
           query == IF mark = 0 THEN <<>> ELSE From(uri, mark + 1)
           pairs == FoldLeft(AddQuery, Empty, Pieces(query, "&"))
           method == UpTo(line, methodEnd)
           short == methodEnd = 0 \/ uriEnd = 0
           other == version \notin {<<"HTTP/1.1">>, <<"HTTP/1.0">>}
           A(z) == [z EXCEPT !.req.method = method, !.req.version = version]
           Asked(z) == [z EXCEPT !.req.query = pairs.map]
           At(z) == [z EXCEPT !.req.path = path]
           B(z) == Asked(A(z))
           C(z) == At(B(z))
<1>1. \A z : ParseLine(z, line) =
           IF short THEN Fail(z, 400) ELSE IF other THEN Fail(A(z), 505)
           ELSE IF ~pairs.ok THEN Fail(B(z), Thrown) ELSE C(z)
  BY DEF ParseLine, WithTarget
<1> HIDE DEF method, version, pairs, path, short, other
<1>2. ASSUME NEW z, Shape(z)
      PROVE  /\ Shape(A(z)) /\ A(z).buffer = z.buffer /\ A(z).limit = z.limit
             /\ A(More(z, u, l)) = More(A(z), u, l)
  BY <1>2 DEF Shape, More, Fields, Parts, Expects
<1> HIDE DEF A
<1>2a. ASSUME NEW z, Shape(z)
       PROVE  /\ Shape(Asked(z)) /\ Asked(z).buffer = z.buffer /\ Asked(z).limit = z.limit
              /\ Asked(More(z, u, l)) = More(Asked(z), u, l)
  BY <1>2a DEF Shape, More, Fields, Parts, Expects
<1>2b. ASSUME NEW z, Shape(z)
       PROVE  /\ Shape(At(z)) /\ At(z).buffer = z.buffer /\ At(z).limit = z.limit
              /\ At(More(z, u, l)) = More(At(z), u, l)
  BY <1>2b DEF Shape, More, Fields, Parts, Expects
<1> HIDE DEF Asked, At
<1>3. ASSUME NEW z, Shape(z)
      PROVE  /\ Shape(B(z)) /\ B(z).buffer = z.buffer /\ B(z).limit = z.limit
             /\ B(More(z, u, l)) = More(B(z), u, l)
  BY <1>2, <1>2a, <1>3
<1> HIDE DEF B
<1>4. ASSUME NEW z, Shape(z)
      PROVE  /\ Shape(C(z)) /\ C(z).buffer = z.buffer /\ C(z).limit = z.limit
             /\ C(More(z, u, l)) = More(C(z), u, l)
  BY <1>2b, <1>3, <1>4
<1> HIDE DEF C
<1>5. 400 \in Int /\ 505 \in Int /\ Thrown \in Int
  BY DEF Thrown
<1>6. Shape(More(x, u, l))
  BY MoreIs
<1>7. CASE short
  <2>1. ParseLine(x, line) = Fail(x, 400) /\ ParseLine(More(x, u, l), line) = Fail(More(x, u, l), 400)
    BY <1>1, <1>7
  <2> QED
    BY <2>1, <1>5, FailIs
<1>8. CASE ~short /\ other
  <2>1. /\ ParseLine(x, line) = Fail(A(x), 505)
        /\ ParseLine(More(x, u, l), line) = Fail(A(More(x, u, l)), 505)
    BY <1>1, <1>8
  <2> DEFINE v == A(x)
             code == 505
  <2>2. /\ A(More(x, u, l)) = More(v, u, l) /\ Shape(v) /\ code \in Int
        /\ v.buffer = x.buffer /\ v.limit = x.limit
    BY <1>2, <1>5
  <2> HIDE DEF v, code
  <2>3. /\ Shape(Fail(v, code)) /\ Fail(v, code).buffer = v.buffer
        /\ Fail(v, code).limit = v.limit /\ Fail(More(v, u, l), code) = More(Fail(v, code), u, l)
    BY <2>2, FailIs
  <2>4. ParseLine(x, line) = Fail(v, code)
    BY <2>1 DEF v, code
  <2>5. ParseLine(More(x, u, l), line) = Fail(More(v, u, l), code)
    BY <2>1, <2>2 DEF code
  <2> QED
    BY <2>2, <2>3, <2>4, <2>5
<1>9. CASE ~short /\ ~other /\ ~pairs.ok
  <2>1. /\ ParseLine(x, line) = Fail(B(x), Thrown)
        /\ ParseLine(More(x, u, l), line) = Fail(B(More(x, u, l)), Thrown)
    BY <1>1, <1>9
  <2> DEFINE v == B(x)
             code == Thrown
  <2>2. /\ B(More(x, u, l)) = More(v, u, l) /\ Shape(v) /\ code \in Int
        /\ v.buffer = x.buffer /\ v.limit = x.limit
    BY <1>3, <1>5
  <2> HIDE DEF v, code
  <2>3. /\ Shape(Fail(v, code)) /\ Fail(v, code).buffer = v.buffer
        /\ Fail(v, code).limit = v.limit /\ Fail(More(v, u, l), code) = More(Fail(v, code), u, l)
    BY <2>2, FailIs
  <2>4. ParseLine(x, line) = Fail(v, code)
    BY <2>1 DEF v, code
  <2>5. ParseLine(More(x, u, l), line) = Fail(More(v, u, l), code)
    BY <2>1, <2>2 DEF code
  <2> QED
    BY <2>2, <2>3, <2>4, <2>5
<1>10. CASE ~short /\ ~other /\ pairs.ok
  <2>1. /\ ParseLine(x, line) = C(x) /\ ParseLine(More(x, u, l), line) = C(More(x, u, l))
    BY <1>1, <1>10
  <2> QED
    BY <2>1, <1>4
<1> QED
  BY <1>7, <1>8, <1>9, <1>10

LEMMA ParseRequestLineIs ==
    ASSUME NEW x, Shape(x), Len(x.buffer) <= x.limit,
           NEW u \in Seq(Tokens), NEW l \in Nat, Len(x.buffer) + Len(u) <= l,
           NEW y, y = ParseRequestLine(x)
    PROVE  /\ Shape(y) /\ y.limit = x.limit /\ Len(y.buffer) <= Len(x.buffer)
           /\ x.state = "line" /\ y.error = 0 /\ y.state = "line" => y = x
           /\ u = <<>> \/ y # x => ParseRequestLine(More(x, u, l)) = More(y, u, l)
<1> DEFINE b == x.buffer
           end == Find(b, CRLF)
           z == ParseLine(x, UpTo(b, end))
           After(w) == [w EXCEPT !.buffer = From(@, end + 2), !.state = "head"]
           m == More(x, u, l)
           toEnd == Find(m.buffer, CRLF)
<1>0. b \in Seq(Tokens) /\ Len(b) \in Nat /\ Len(u) \in Nat /\ x.limit \in Nat
  BY DEF Shape
<1>1. Shape(m) /\ m.buffer = b \o u /\ m.limit = l /\ Len(m.buffer) <= l
  <2>1. Shape(m) /\ m.buffer = b \o u /\ m.limit = l
    BY MoreIs
  <2>2. Len(b \o u) = Len(b) + Len(u)
    BY <1>0
  <2> QED
    BY <2>1, <2>2
<1>1a. /\ CRLF \in Seq(Tokens) /\ Len(CRLF) = 2 /\ Len(CRLF) > 0
       /\ 2 \in 0..Len(CRLF)
  BY CRLFIs
<1>2. /\ Shape(z) /\ z.buffer = b /\ z.limit = x.limit
      /\ ParseLine(m, UpTo(b, end)) = More(z, u, l)
  BY LineIs
<1>3. y = IF end = 0 THEN x ELSE IF end = 1 THEN Fail(x, 400)
          ELSE IF z.error # 0 THEN z ELSE After(z)
  BY <1>0 DEF ParseRequestLine
<1>4. ASSUME end # 0
      PROVE  /\ toEnd = end /\ UpTo(m.buffer, toEnd) = UpTo(b, end)
             /\ From(b \o u, end + 2) = From(b, end + 2) \o u
             /\ end + 2 \in 1..(Len(b) + 1) /\ From(b, end + 2) \in Seq(Tokens)
             /\ Len(From(b, end + 2)) <= Len(b)
  <2>1. /\ toEnd = end /\ UpTo(m.buffer, toEnd) = UpTo(b, end)
        /\ From(b \o u, end + 2) = From(b, end + 2) \o u
    <3>1. /\ Find(b \o u, CRLF) = end /\ UpTo(b \o u, end) = UpTo(b, end)
          /\ \A n \in 0..Len(CRLF) : From(b \o u, end + n) = From(b, end + n) \o u
      BY <1>4, <1>0, <1>1a, FindStays
    <3>2. toEnd = Find(b \o u, CRLF)
      BY <1>1
    <3> HIDE DEF end, b, m, toEnd
    <3> QED
      BY <3>1, <3>2, <1>1, <1>1a
  <2>2. end + 2 \in 1..(Len(b) + 1)
    <3>1. end \in 1..(Len(b) - Len(CRLF) + 1)
      BY <1>4, <1>0, <1>1a, FindIs
    <3> HIDE DEF end
    <3> QED
      BY <3>1, <1>0, <1>1a
  <2>3. From(b, end + 2) \in Seq(Tokens) /\ Len(From(b, end + 2)) = Len(b) - (end + 2) + 1
    <3> HIDE DEF end, b
    <3> QED
      BY <2>2, FromIs, <1>0
  <2> HIDE DEF end, b, m, toEnd
  <2>4. Len(From(b, end + 2)) <= Len(b)
    BY <2>2, <2>3, <1>0
  <2> QED
    BY <2>1, <2>2, <2>3, <2>4
<1>5. ParseRequestLine(m) =
          IF toEnd = 0 THEN m ELSE IF toEnd = 1 THEN Fail(m, 400)
          ELSE IF ParseLine(m, UpTo(m.buffer, toEnd)).error # 0
               THEN ParseLine(m, UpTo(m.buffer, toEnd))
          ELSE [ParseLine(m, UpTo(m.buffer, toEnd)) EXCEPT
                  !.buffer = From(@, toEnd + 2), !.state = "head"]
  BY <1>1 DEF ParseRequestLine
<1> HIDE DEF z, m
<1>6. CASE end = 0
  <2>1. y = x
    BY <1>3, <1>6
  <2>2. ASSUME u = <<>> PROVE ParseRequestLine(m) = m
    <3>1. toEnd = 0
      BY <2>2, <1>0, <1>1, <1>6, ConcatEmptySeq
    <3> QED
      BY <3>1, <1>5
  <2> QED
    BY <2>1, <2>2 DEF m
<1>7. CASE end = 1
  <2>1. y = Fail(x, 400) /\ ParseRequestLine(m) = Fail(m, 400)
    BY <1>3, <1>4, <1>5, <1>7
  <2>2. /\ Shape(Fail(x, 400)) /\ Fail(x, 400).error = 400 /\ Fail(x, 400).buffer = b
        /\ Fail(x, 400).limit = x.limit
        /\ Fail(m, 400) = More(Fail(x, 400), u, l)
    BY FailIs DEF m
  <2> QED
    BY <2>1, <2>2 DEF m
<1>8. CASE end \notin {0, 1} /\ z.error # 0
  <2>1. y = z
    BY <1>3, <1>8
  <2>2. More(z, u, l).error = z.error
    BY <1>2, MoreIs DEF SameRest
  <2>3. ParseRequestLine(m) = More(z, u, l)
    BY <1>2, <1>4, <1>5, <1>8, <2>2
  <2> QED
    BY <2>1, <2>3, <1>0, <1>2, <1>8 DEF m
<1>9. CASE end \notin {0, 1} /\ z.error = 0
  <2>1. y = After(z)
    BY <1>3, <1>9
  <2>2. ParseRequestLine(m) = After(More(z, u, l))
    <3>1. More(z, u, l).error = z.error
      BY <1>2, MoreIs DEF SameRest
    <3> QED
      BY <3>1, <1>2, <1>4, <1>5, <1>9
  <2>3. z.buffer = b /\ From(b \o u, end + 2) = From(b, end + 2) \o u /\ From(b, end + 2) \in Seq(Tokens)
    BY <1>2, <1>4, <1>9
  <2>4. Shape(y) /\ y.buffer = From(b, end + 2) /\ y.limit = x.limit /\ y.state = "head"
    <3> DEFINE rest == From(b, end + 2)
    <3>1. y = [z EXCEPT !.buffer = rest, !.state = "head"]
      BY <2>1, <2>3
    <3>2. Shape(z) /\ z.limit = x.limit /\ rest \in Seq(Tokens)
      BY <1>2, <2>3
    <3> HIDE DEF rest, b, end
    <3>3. y = [f \in Fields |-> y[f]]
      BY <3>1, <3>2 DEF Shape, Fields
    <3>4. SameParts(y, z) /\ y.buffer = rest /\ y.state = "head"
      BY <3>1, <3>2 DEF Shape, Fields, SameParts
    <3>5. Expects(y.state, y.req) /\ y.state \in States
      BY <3>4 DEF Expects, States
    <3> QED
      BY <3>2, <3>3, <3>4, <3>5 DEF Shape, SameParts, rest
  <2>5. After(More(z, u, l)) = More(After(z), u, l)
    <3> HIDE DEF end, b
    <3> QED
      BY <1>2, <2>3 DEF Shape, Fields, More
  <2> QED
    BY <2>1, <2>2, <2>4, <2>5, <1>4, <1>9 DEF m
<1> QED
  BY <1>6, <1>7, <1>8, <1>9

-----------------------------------------------------------------------------
(* RequestHeadParser. *)
LEMMA ParseHeadersIs ==
    ASSUME NEW x, Shape(x), Len(x.buffer) <= x.limit,
           NEW u \in Seq(Tokens), NEW l \in Nat,
           Len(x.buffer) + Len(u) <= l \/ Find(x.buffer, CRLF \o CRLF) # 0,
           x.state # "body", NEW y, y = ParseHeaders(x)
    PROVE  /\ Shape(y) /\ y.limit = x.limit /\ Len(y.buffer) <= Len(x.buffer)
           /\ x.state = "head" /\ y.error = 0 /\ y.state = "head" => y = x
           /\ u = <<>> \/ y # x => ParseHeaders(More(x, u, l)) = More(y, u, l)
<1> DEFINE b == x.buffer
           w == CRLF \o CRLF
           end == Find(b, w)
           FieldsOf(text) == FoldLeft(AddHeader, Empty, Pieces(text, "\n"))
           Leads(f) == IF {Length, Encoding} \cap DOMAIN f.map # {} THEN "body" ELSE "complete"
           fields == FieldsOf(UpTo(b, end))
           next == Leads(fields)
           Read(v) == [v EXCEPT !.req.headers = fields.map]
           After(v) == [v EXCEPT !.buffer = From(@, end + 4), !.headerBytes = end + 3,
                                 !.state = next]
           m == More(x, u, l)
           toEnd == Find(m.buffer, w)
<1>0. b \in Seq(Tokens) /\ Len(b) \in Nat /\ Len(u) \in Nat /\ x.limit \in Nat
  BY DEF Shape
<1>1. Shape(m) /\ m.buffer = b \o u /\ m.limit = l /\ (end = 0 => Len(m.buffer) <= l)
  <2>1. Shape(m) /\ m.buffer = b \o u /\ m.limit = l
    BY MoreIs
  <2>2. Len(b \o u) = Len(b) + Len(u)
    BY <1>0
  <2>3. end = 0 => Len(b) + Len(u) <= l
    OBVIOUS
  <2> HIDE DEF end
  <2> QED
    BY <2>1, <2>2, <2>3
<1>1a. /\ w \in Seq(Tokens) /\ Len(w) = 4 /\ Len(w) > 0 /\ 4 \in 0..Len(w)
  BY CRLFIs
<1>3. y = IF end = 0 THEN x ELSE IF ~fields.ok THEN Fail(Read(x), 400) ELSE After(Read(x))
  BY <1>0 DEF ParseHeaders
<1>4. ASSUME end # 0
      PROVE  /\ toEnd = end /\ UpTo(m.buffer, toEnd) = UpTo(b, end)
             /\ From(b \o u, end + 4) = From(b, end + 4) \o u
             /\ end + 4 \in 1..(Len(b) + 1) /\ From(b, end + 4) \in Seq(Tokens)
             /\ Len(From(b, end + 4)) <= Len(b)
  <2> HIDE DEF w
  <2>1. /\ toEnd = end /\ UpTo(m.buffer, toEnd) = UpTo(b, end)
        /\ From(b \o u, end + 4) = From(b, end + 4) \o u
    <3>1. /\ Find(b \o u, w) = end /\ UpTo(b \o u, end) = UpTo(b, end)
          /\ \A n \in 0..Len(w) : From(b \o u, end + n) = From(b, end + n) \o u
      BY <1>4, <1>0, <1>1a, FindStays
    <3>2. toEnd = Find(b \o u, w)
      BY <1>1
    <3> HIDE DEF end, b, m, toEnd
    <3> QED
      BY <3>1, <3>2, <1>1, <1>1a
  <2>2. end + 4 \in 1..(Len(b) + 1)
    <3>1. end \in 1..(Len(b) - Len(w) + 1)
      BY <1>4, <1>0, <1>1a, FindIs
    <3> HIDE DEF end
    <3> QED
      BY <3>1, <1>0, <1>1a
  <2>3. From(b, end + 4) \in Seq(Tokens) /\ Len(From(b, end + 4)) = Len(b) - (end + 4) + 1
    <3> HIDE DEF end, b
    <3> QED
      BY <2>2, FromIs, <1>0
  <2> HIDE DEF end, b, m, toEnd
  <2>4. Len(From(b, end + 4)) <= Len(b)
    BY <2>2, <2>3, <1>0
  <2> QED
    BY <2>1, <2>2, <2>3, <2>4
<1>5. /\ end = 0 /\ toEnd = 0 => ParseHeaders(m) = m
      /\ toEnd = end /\ UpTo(m.buffer, toEnd) = UpTo(b, end) /\ end # 0
         => ParseHeaders(m) = IF ~fields.ok THEN Fail(Read(m), 400) ELSE After(Read(m))
  <2> DEFINE f == FieldsOf(UpTo(m.buffer, toEnd))
             v == [m EXCEPT !.req.headers = f.map]
  <2>1. end = 0 /\ toEnd = 0 => ParseHeaders(m) = m
    BY <1>1 DEF ParseHeaders
  <2>2. toEnd # 0 => ParseHeaders(m) =
          IF ~f.ok THEN Fail(v, 400)
          ELSE [v EXCEPT !.buffer = From(@, toEnd + 4), !.headerBytes = toEnd + 3,
                         !.state = Leads(f)]
    BY <1>1 DEF ParseHeaders
  <2> HIDE DEF FieldsOf, Leads
  <2> QED
    BY <2>1, <2>2
<1>6. /\ next \in States /\ next # "head"
      /\ next = "body" => Length \in DOMAIN fields.map \/ Encoding \in DOMAIN fields.map
  BY DEF States
<1>6a. ASSUME end # 0 PROVE fields.map \in Headers
  <2>1. end \in 1..(Len(b) + 1)
    <3>1. end \in 1..(Len(b) - Len(w) + 1)
      <4> HIDE DEF w
      <4> QED
        BY <1>6a, <1>0, <1>1a, FindIs
    <3> HIDE DEF end, w
    <3> QED
      BY <3>1, <1>0, <1>1a
  <2>2. UpTo(b, end) \in Seq(Tokens)
    <3> HIDE DEF end
    <3> QED
      BY <1>0, <2>1 DEF UpTo
  <2>3. Pieces(UpTo(b, end), "\n") \in Seq(Seq(Tokens))
    BY <2>2, PiecesAre
  <2>4. fields \in Filled
    BY <2>3, HeadersAre
  <2> HIDE DEF fields
  <2> QED
    BY <2>4 DEF Filled
<1> HIDE DEF m, w, fields, next
<1>7. ASSUME NEW v, Shape(v), end # 0
      PROVE  /\ v.state # "body" => Shape(Read(v)) /\ Read(v).req.headers = fields.map
             /\ Read(v).buffer = v.buffer /\ Read(v).limit = v.limit
             /\ Read(More(v, u, l)) = More(Read(v), u, l)
  <2>1. fields.map \in Headers
    BY <1>6a, <1>7
  <2> HIDE DEF end
  <2> QED
    BY <1>7, <2>1 DEF Shape, More, Fields, Parts, Expects
<1>8. CASE end = 0
  <2>1. y = x
    BY <1>3, <1>8
  <2>2. ASSUME u = <<>> PROVE ParseHeaders(m) = m
    <3>1. toEnd = 0
      BY <2>2, <1>0, <1>1, <1>8, ConcatEmptySeq
    <3> QED
      BY <3>1, <1>5, <1>8
  <2> QED
    BY <2>1, <2>2 DEF m
<1> DEFINE z == Read(x)
<1>9. ASSUME end # 0
      PROVE  /\ Shape(z) /\ z.req.headers = fields.map
             /\ z.buffer = b /\ z.limit = x.limit /\ Read(m) = More(z, u, l)
  BY <1>7, <1>9 DEF m
<1> HIDE DEF Read, z
<1>10. CASE end # 0 /\ ~fields.ok
  <2>1. y = Fail(z, 400) /\ ParseHeaders(m) = Fail(Read(m), 400)
    BY <1>3, <1>4, <1>5, <1>10 DEF z
  <2>2. /\ Shape(Fail(z, 400)) /\ Fail(z, 400).error = 400 /\ Fail(z, 400).buffer = z.buffer
        /\ Fail(z, 400).limit = z.limit
        /\ Fail(More(z, u, l), 400) = More(Fail(z, 400), u, l)
    BY <1>9, <1>10, FailIs
  <2> QED
    BY <2>1, <2>2, <1>0, <1>9, <1>10 DEF m
<1>11. CASE end # 0 /\ fields.ok
  <2>1. y = After(z) /\ ParseHeaders(m) = After(More(z, u, l))
    BY <1>3, <1>4, <1>5, <1>9, <1>11 DEF z
  <2>2. /\ z.buffer = b /\ From(b \o u, end + 4) = From(b, end + 4) \o u
        /\ From(b, end + 4) \in Seq(Tokens)
    BY <1>4, <1>9, <1>11
  <2>3. Shape(y) /\ y.buffer = From(b, end + 4) /\ y.limit = x.limit /\ y.state # "head"
    <3>0. Shape(z) /\ z.limit = x.limit /\ z.req.headers = fields.map
      BY <1>9, <1>11
    <3> HIDE DEF end, b
    <3>1. y = [z EXCEPT !.buffer = From(b, end + 4), !.headerBytes = end + 3, !.state = next]
      BY <2>1, <2>2
    <3>2. y = [f \in Fields |-> y[f]] /\ SameParts(y, z) /\ y.state = next
          /\ y.buffer = From(b, end + 4)
      BY <3>0, <3>1 DEF Shape, Fields, SameParts
    <3> QED
      BY <1>6, <3>0, <2>2, <3>2 DEF Shape, SameParts, Expects
  <2>4. After(More(z, u, l)) = More(After(z), u, l)
    <3>1. Shape(z)
      BY <1>9, <1>11
    <3> HIDE DEF end, b
    <3> QED
      BY <3>1, <2>2 DEF Shape, Fields, More
  <2> QED
    BY <2>1, <2>3, <2>4, <1>4, <1>11 DEF m
<1> QED
  BY <1>8, <1>10, <1>11

-----------------------------------------------------------------------------
(* RequestBodyParser. *)

LEMMA ContentLengthIs ==
    ASSUME NEW x, Shape(x), Length \in DOMAIN x.req.headers
    PROVE  ContentLength(x) \in Results
<1>1. PICK K \in SUBSET Seq(Tokens) : x.req.headers \in [K -> Seq(Tokens)]
  BY DEF Shape, Headers
<1>2. x.req.headers[Length] \in Seq(Tokens)
  BY <1>1
<1> DEFINE s == x.req.headers[Length]
<1> HIDE DEF s
<1>3. Number(s, 10, Digits) \in Results
  BY <1>2, NumberIs, DigitsAre DEF s
<1> QED
  BY <1>3 DEF ContentLength, DecStrToSize, s

LEMMA InitBodyIs ==
    ASSUME NEW x, Shape(x), x.state = "body", x.error = 0,
           NEW u \in Seq(Tokens), NEW l \in Nat, NEW y, y = InitBody(x)
    PROVE  /\ Shape(y) /\ y.limit = x.limit /\ y.buffer = x.buffer /\ y.state = x.state
           /\ y.req = x.req /\ y.headerBytes = x.headerBytes
           /\ y.error = 0 => y.mode # "uninitialized"
           /\ InitBody(More(x, u, l)) = More(y, u, l)
<1> DEFINE m == More(x, u, l)
           n == ContentLength(x)
           other == x.req.headers[Encoding] # <<"chunked">>
           encoded == Encoding \in DOMAIN x.req.headers
           counted == Length \in DOMAIN x.req.headers
           next == IF n.value = 0 THEN "complete" ELSE "identity"
           Chunks(v) == [v EXCEPT !.mode = "size"]
           Counts(v) == [v EXCEPT !.left = n.value, !.mode = next]
<1>1. m.req = x.req /\ ContentLength(m) = n
  BY MoreIs DEF SameRest, ContentLength
<1> HIDE DEF m, n
<1>2. ASSUME NEW v, v.req = x.req, ContentLength(v) = n
      PROVE  InitBody(v) = IF encoded
                           THEN IF other THEN Fail(v, 501) ELSE IF counted THEN Fail(v, 400)
                                ELSE Chunks(v)
                           ELSE IF ~n.ok THEN Fail(v, 400) ELSE Counts(v)
  BY <1>2 DEF InitBody
<1>3. /\ InitBody(x) = IF encoded
                       THEN IF other THEN Fail(x, 501) ELSE IF counted THEN Fail(x, 400)
                            ELSE Chunks(x)
                       ELSE IF ~n.ok THEN Fail(x, 400) ELSE Counts(x)
      /\ InitBody(m) = IF encoded
                       THEN IF other THEN Fail(m, 501) ELSE IF counted THEN Fail(m, 400)
                            ELSE Chunks(m)
                       ELSE IF ~n.ok THEN Fail(m, 400) ELSE Counts(m)
  BY <1>1, <1>2 DEF n
<1>4. encoded \/ counted
  BY DEF Shape, Expects
<1>5. ~encoded => n.value \in Nat
  BY <1>4, ContentLengthIs DEF n, Results
<1>6. next \in Modes /\ next # "uninitialized"
  BY DEF Modes
<1> HIDE DEF other, counted, encoded, next
<1>7. ASSUME NEW code \in Int, code # 0, y = Fail(x, code), InitBody(m) = Fail(m, code)
      PROVE  /\ Shape(y) /\ y.limit = x.limit /\ y.buffer = x.buffer /\ y.state = x.state
             /\ y.req = x.req /\ y.headerBytes = x.headerBytes /\ y.error # 0
             /\ InitBody(m) = More(y, u, l)
  BY <1>7, FailIs DEF m
<1>8. CASE encoded /\ other
  BY <1>3, <1>7, <1>8 DEF m
<1>9. CASE encoded /\ ~other /\ counted
  BY <1>3, <1>7, <1>9 DEF m
<1>10. CASE ~encoded /\ ~n.ok
  BY <1>3, <1>7, <1>10 DEF m
<1>11. CASE encoded /\ ~other /\ ~counted
  <2>1. y = Chunks(x) /\ InitBody(m) = Chunks(m)
    BY <1>3, <1>11
  <2>2. /\ Shape(y) /\ y.limit = x.limit /\ y.buffer = x.buffer /\ y.state = x.state
        /\ y.req = x.req /\ y.headerBytes = x.headerBytes /\ y.mode = "size"
    BY <2>1 DEF Shape, Fields, Modes
  <2>3. Chunks(m) = More(Chunks(x), u, l)
    BY DEF Shape, Fields, More, m
  <2> QED
    BY <2>1, <2>2, <2>3 DEF m
<1>12. CASE ~encoded /\ n.ok
  <2>1. y = Counts(x) /\ InitBody(m) = Counts(m)
    BY <1>3, <1>12
  <2>2. /\ Shape(y) /\ y.limit = x.limit /\ y.buffer = x.buffer /\ y.state = x.state
        /\ y.req = x.req /\ y.headerBytes = x.headerBytes /\ y.mode = next
    BY <1>5, <1>6, <1>12, <2>1 DEF Shape, Fields
  <2>3. Counts(m) = More(Counts(x), u, l)
    BY DEF Shape, Fields, More, m
  <2> QED
    BY <1>6, <2>1, <2>2, <2>3 DEF m
<1> QED
  BY <1>8, <1>9, <1>10, <1>11, <1>12

(* What was read is not lost: reading the rest gives the same as reading   *)
(* everything at once.                                                     *)
LEMMA ParseIdentityIs ==
    ASSUME NEW x, Shape(x), NEW u \in Seq(Tokens), NEW l \in Nat,
           NEW y, y = ParseIdentity(x)
    PROVE  /\ Shape(y) /\ y.limit = x.limit /\ Len(y.buffer) <= Len(x.buffer)
           /\ y.state = x.state /\ y.req.headers = x.req.headers
           /\ y.headerBytes = x.headerBytes /\ y.error = x.error
           /\ y.mode \in {x.mode, "complete"}
           /\ u = <<>> => ParseIdentity(More(x, u, l)) = More(y, u, l)
           /\ y.mode = "complete" /\ x.mode # "complete" =>
                ParseIdentity(More(x, u, l)) = More(y, u, l)
           /\ y.mode # "complete" => ParseIdentity(More(y, u, l)) = ParseIdentity(More(x, u, l))
<1> DEFINE Took(v, n) ==
             [v EXCEPT !.buffer = From(@, n + 1),
                       !.req.body = @ \o SubSeq(v.buffer, 1, n),
                       !.left = @ - n,
                       !.mode = IF n = v.left THEN "complete" ELSE @]
           Count(v) == IF Len(v.buffer) < v.left THEN Len(v.buffer) ELSE v.left
           Data(v, n) == v.req.body \o SubSeq(v.buffer, 1, n)
           m == More(x, u, l)
<1>1. \A v : ParseIdentity(v) = Took(v, Count(v))
  BY DEF ParseIdentity
<1>2. ASSUME NEW v, Shape(v), NEW n \in Nat, n <= Len(v.buffer), n <= v.left
      PROVE  /\ Shape(Took(v, n)) /\ Took(v, n).buffer = From(v.buffer, n + 1)
             /\ Took(v, n).req = [v.req EXCEPT !.body = Data(v, n)]
             /\ Took(v, n).req.body = Data(v, n)
             /\ Took(v, n).left = v.left - n
             /\ Took(v, n).mode = (IF n = v.left THEN "complete" ELSE v.mode)
             /\ Took(v, n).state = v.state /\ Took(v, n).error = v.error
             /\ Took(v, n).limit = v.limit /\ Took(v, n).chunk = v.chunk
             /\ Took(v, n).headerBytes = v.headerBytes
             /\ Took(v, n).req.headers = v.req.headers
  <2> DEFINE f == From(v.buffer, n + 1)
             bd == Data(v, n)
             k == v.left - n
             md == IF n = v.left THEN "complete" ELSE v.mode
             w == [v EXCEPT !.buffer = f, !.req.body = bd, !.left = k, !.mode = md]
  <2>1. v.buffer \in Seq(Tokens) /\ v.req.body \in Seq(Tokens) /\ v.left \in Nat
    BY <1>2 DEF Shape
  <2>2. SubSeq(v.buffer, 1, n) \in Seq(Tokens) /\ n + 1 \in 1..(Len(v.buffer) + 1)
    BY <1>2, <2>1
  <2>3. f \in Seq(Tokens) /\ bd \in Seq(Tokens) /\ k \in Nat
    BY <1>2, <2>1, <2>2, FromIs
  <2>4. md \in Modes
    BY <1>2 DEF Shape, Modes
  <2>5. Took(v, n) = w
    BY <1>2 DEF Shape, Fields
  <2> HIDE DEF f, bd, k, md, Took
  <2>6. /\ Shape(w) /\ w.buffer = f /\ w.req = [v.req EXCEPT !.body = bd] /\ w.left = k /\ w.mode = md
        /\ w.req.body = bd /\ w.req.headers = v.req.headers
        /\ w.state = v.state /\ w.error = v.error /\ w.limit = v.limit /\ w.chunk = v.chunk
        /\ w.headerBytes = v.headerBytes
    BY <1>2, <2>3, <2>4 DEF Shape, Fields, Parts, Expects
  <2> HIDE DEF w
  <2> QED
    BY <2>5, <2>6 DEF f, bd, k, md
<1> DEFINE b == x.buffer
           n == Count(x)
<1>3. b \in Seq(Tokens) /\ x.req.body \in Seq(Tokens) /\ x.left \in Nat
  BY DEF Shape
<1>4. n \in Nat /\ n <= Len(b) /\ n <= x.left
  BY <1>3
<1>5. y = Took(x, n)
  BY <1>1
<1>6. Shape(m) /\ m.buffer = b \o u /\ m.limit = l /\ SameRest(m, x)
  BY MoreIs
<1> DEFINE Is(z, v, k) ==
             /\ Shape(z) /\ z.buffer = From(v.buffer, k + 1)
             /\ z.req = [v.req EXCEPT !.body = Data(v, k)]
             /\ z.req.body = Data(v, k) /\ z.req.headers = v.req.headers
             /\ z.left = v.left - k
             /\ z.mode = (IF k = v.left THEN "complete" ELSE v.mode)
             /\ z.state = v.state /\ z.error = v.error /\ z.limit = v.limit
             /\ z.chunk = v.chunk /\ z.headerBytes = v.headerBytes
<1>6a. ASSUME NEW v, Shape(v), NEW k \in Nat, k <= Len(v.buffer), k <= v.left
       PROVE  Is(Took(v, k), v, k)
  <2> HIDE DEF Took, Data, Count
  <2> QED
    BY <1>2, <1>6a
<1> HIDE DEF Took, m, b, n, Is
<1>7. Len(From(b, n + 1)) <= Len(b)
  <2>1. n + 1 \in 1..(Len(b) + 1)
    BY <1>3, <1>4
  <2>2. Len(From(b, n + 1)) = Len(b) - (n + 1) + 1
    BY <1>3, <2>1, FromIs
  <2> HIDE DEF Count
  <2> QED
    BY <1>3, <1>4, <2>2
<1>8. /\ Shape(y) /\ y.buffer = From(b, n + 1) /\ y.req = [x.req EXCEPT !.body = Data(x, n)]
      /\ y.req.body = Data(x, n) /\ y.left = x.left - n
      /\ y.mode = (IF n = x.left THEN "complete" ELSE x.mode)
      /\ y.state = x.state /\ y.error = x.error /\ y.limit = x.limit /\ y.chunk = x.chunk
      /\ y.headerBytes = x.headerBytes /\ y.req.headers = x.req.headers
  <2>1. Is(y, x, n)
    BY <1>6a, <1>4, <1>5 DEF b
  <2> QED
    BY <2>1 DEF Is, b
<1>9. ASSUME u = <<>> PROVE ParseIdentity(m) = More(y, u, l)
  <2>1. m.buffer = b /\ m.left = x.left /\ m.req = x.req /\ Count(m) = n
    <3>1. m.buffer = b /\ m.left = x.left /\ m.req = x.req
      BY <1>3, <1>6, <1>9, ConcatEmptySeq DEF SameRest
    <3> QED
      BY <3>1 DEF n, b
  <2> DEFINE z == Took(m, n)
  <2>2. ParseIdentity(m) = z
    BY <1>1, <2>1
  <2>3. /\ Shape(z) /\ z.buffer = From(b, n + 1) /\ z.req = [m.req EXCEPT !.body = Data(m, n)]
        /\ z.left = m.left - n /\ z.mode = (IF n = m.left THEN "complete" ELSE m.mode)
        /\ z.state = m.state /\ z.error = m.error /\ z.limit = m.limit /\ z.chunk = m.chunk
        /\ z.headerBytes = m.headerBytes
    <3>1. Is(z, m, n)
      BY <1>6a, <1>4, <1>6, <2>1
    <3> QED
      BY <3>1, <2>1 DEF Is
  <2> HIDE DEF z
  <2>4. Data(m, n) = Data(x, n)
    BY <2>1 DEF b
  <2>5. SameRest(z, y)
    <3> HIDE DEF Data
    <3> QED
      BY <1>6, <1>8, <2>1, <2>3, <2>4 DEF SameRest
  <2>6. z.buffer = y.buffer \o u
    <3>1. y.buffer \in Seq(Tokens)
      BY <1>8 DEF Shape
    <3> QED
      BY <3>1, <1>8, <1>9, <2>3, ConcatEmptySeq
  <2> QED
    BY <2>2, <2>3, <2>5, <2>6, <1>6, <1>8, IsMore
<1>9a. ASSUME n = x.left PROVE ParseIdentity(m) = More(y, u, l)
  <2>1. m.left = x.left /\ m.req = x.req /\ Len(m.buffer) = Len(b) + Len(u) /\ Len(u) \in Nat
    BY <1>3, <1>6 DEF SameRest
  <2>2. Count(m) = n
    BY <1>3, <1>4, <1>9a, <2>1
  <2>3. /\ SubSeq(m.buffer, 1, n) = SubSeq(x.buffer, 1, n)
        /\ From(m.buffer, n + 1) = From(b, n + 1) \o u
        /\ From(b, n + 1) \in Seq(Tokens)
    <3>1. n \in Int /\ n + 1 \in 1..(Len(b) + 1)
      BY <1>3, <1>4
    <3>2. SubSeq(b \o u, 1, n) = SubSeq(b, 1, n)
      BY <1>3, <1>4, <3>1, InFront
    <3> DEFINE k == n + 1
    <3>3. k \in 1..(Len(b) + 1)
      BY <3>1
    <3> HIDE DEF k, Count
    <3>4. From(b \o u, k) = From(b, k) \o u /\ From(b, k) \in Seq(Tokens)
      BY <1>3, <3>3, FromMore, FromIs
    <3> QED
      BY <1>6, <3>2, <3>4 DEF b, k
  <2> DEFINE z == Took(m, n)
  <2>4. ParseIdentity(m) = z
    BY <1>1, <2>2
  <2>5. /\ Shape(z) /\ z.buffer = From(m.buffer, n + 1) /\ z.req = [m.req EXCEPT !.body = Data(m, n)]
        /\ z.left = m.left - n /\ z.mode = (IF n = m.left THEN "complete" ELSE m.mode)
        /\ z.state = m.state /\ z.error = m.error /\ z.limit = m.limit /\ z.chunk = m.chunk
        /\ z.headerBytes = m.headerBytes
    <3>1. n <= Len(m.buffer) /\ n <= m.left
      BY <1>3, <1>4, <2>1
    <3>2. Is(z, m, n)
      BY <1>6a, <1>4, <1>6, <3>1
    <3> QED
      BY <3>2 DEF Is
  <2> HIDE DEF z
  <2>6. Data(m, n) = Data(x, n)
    BY <2>1, <2>3
  <2>7. SameRest(z, y)
    <3> HIDE DEF Data
    <3> QED
      BY <1>6, <1>8, <2>1, <2>5, <2>6 DEF SameRest
  <2>8. z.buffer = y.buffer \o u
    BY <1>8, <2>3, <2>5
  <2> QED
    BY <2>4, <2>5, <2>7, <2>8, <1>6, <1>8, IsMore
<1>10. ASSUME y.mode # "complete" PROVE ParseIdentity(More(y, u, l)) = ParseIdentity(m)
  <2> DEFINE v == More(y, u, l)
             k == Count(v)
             full == Len(b)
  <2>1. full \in Nat /\ n = full /\ full < x.left /\ Len(u) \in Nat
    BY <1>3, <1>4, <1>8, <1>10 DEF n, b
  <2>2. y.buffer = <<>> /\ SubSeq(b, 1, n) = b
    BY <1>3, <1>8, <2>1 DEF From
  <2>3. /\ Shape(v) /\ v.buffer = u /\ v.limit = l /\ SameRest(v, y)
    <3>1. y.buffer \o u = u
      BY <2>2, ConcatEmptySeq
    <3>2. Shape(y)
      BY <1>8
    <3> QED
      BY <3>1, <3>2, MoreIs
  <2>4. v.left = x.left - full /\ v.req.body = x.req.body \o b
    <3>1. v.left = x.left - n /\ v.req.body = Data(x, n)
      BY <1>8, <2>3 DEF SameRest
    <3>2. SubSeq(x.buffer, 1, n) = b
      BY <2>1, <2>2 DEF b
    <3> QED
      BY <3>1, <3>2, <2>1
  <2> HIDE DEF v
  <2>5. k \in Nat /\ k <= Len(u) /\ k <= v.left
    BY <1>3, <2>1, <2>3, <2>4
  <2>6. m.left = x.left /\ Len(m.buffer) = full + Len(u) /\ m.req = x.req
    BY <1>3, <1>6 DEF SameRest
  <2>7. Count(m) = full + k
    BY <1>3, <2>1, <2>3, <2>4, <2>6
  <2> HIDE DEF k, full
  <2>8. full + k \in Nat /\ full + k <= Len(m.buffer) /\ full + k <= m.left
    BY <1>3, <2>1, <2>4, <2>5, <2>6
  <2> DEFINE p == Took(v, k)
             q == Took(m, full + k)
  <2>9. ParseIdentity(v) = p /\ ParseIdentity(m) = q
    BY <1>1, <2>7 DEF k
  <2>10. /\ Shape(p) /\ p.buffer = From(u, k + 1) /\ p.req = [v.req EXCEPT !.body = Data(v, k)]
         /\ p.left = v.left - k /\ p.mode = (IF k = v.left THEN "complete" ELSE v.mode)
         /\ p.state = v.state /\ p.error = v.error /\ p.limit = v.limit /\ p.chunk = v.chunk
         /\ p.headerBytes = v.headerBytes
    <3>1. Is(p, v, k)
      BY <1>6a, <2>3, <2>5
    <3> QED
      BY <3>1, <2>3 DEF Is
  <2>11. /\ Shape(q) /\ q.buffer = From(m.buffer, full + k + 1)
         /\ q.req = [m.req EXCEPT !.body = Data(m, full + k)]
         /\ q.left = m.left - (full + k)
         /\ q.mode = (IF full + k = m.left THEN "complete" ELSE m.mode)
         /\ q.state = m.state /\ q.error = m.error /\ q.limit = m.limit /\ q.chunk = m.chunk
         /\ q.headerBytes = m.headerBytes
    <3>1. Is(q, m, full + k)
      BY <1>6a, <1>6, <2>8
    <3> QED
      BY <3>1 DEF Is
  <2> HIDE DEF p, q
  <2>12. From(u, k + 1) = From(b \o u, full + k + 1) /\ SubSeq(b \o u, 1, full + k) = b \o SubSeq(u, 1, k)
    BY <1>3, <2>1, <2>5, Behind DEF full
  <2>13. Data(v, k) = Data(m, full + k)
    <3>1. SubSeq(u, 1, k) \in Seq(Tokens)
      BY <2>1, <2>5
    <3>2. (x.req.body \o b) \o SubSeq(u, 1, k) = x.req.body \o (b \o SubSeq(u, 1, k))
      <4> DEFINE s == SubSeq(u, 1, k)
      <4>1. s \in Seq(Tokens)
        BY <3>1
      <4> HIDE DEF s
      <4> DEFINE d == x.req.body
      <4>2. d \in Seq(Tokens) /\ b \in Seq(Tokens)
        BY <1>3
      <4> HIDE DEF d
      <4>3. (d \o b) \o s = d \o (b \o s)
        BY <4>1, <4>2, ConcatAssociative
      <4>4. (x.req.body \o b) \o s = x.req.body \o (b \o s)
        BY <4>3 DEF d
      <4> QED
        BY <4>4 DEF s
    <3> QED
      BY <3>2, <2>3, <2>4, <2>6, <2>12, <1>6
  <2>14. p.req = q.req
    <3> DEFINE bd == Data(m, full + k)
               c == Data(x, n)
    <3>1. v.req = [x.req EXCEPT !.body = c] /\ p.req = [v.req EXCEPT !.body = bd]
          /\ q.req = [x.req EXCEPT !.body = bd]
      BY <1>8, <2>3, <2>6, <2>10, <2>11, <2>13 DEF SameRest
    <3> HIDE DEF bd, c
    <3> QED
      BY <3>1 DEF Shape, Parts
  <2>15. p.left = q.left /\ p.mode = q.mode
    <3>1. v.mode = x.mode /\ m.mode = x.mode /\ v.left = x.left - full /\ m.left = x.left
      <4> HIDE DEF Data
      <4> QED
        BY <1>6, <1>8, <1>10, <2>3, <2>4 DEF SameRest
    <3>2. /\ p.left = x.left - full - k /\ q.left = x.left - (full + k)
          /\ p.mode = (IF k = x.left - full THEN "complete" ELSE x.mode)
          /\ q.mode = (IF full + k = x.left THEN "complete" ELSE x.mode)
      <4> HIDE DEF Data
      <4> QED
        BY <3>1, <2>10, <2>11
    <3>3. k = x.left - full <=> full + k = x.left
      <4>1. k \in Int /\ full \in Int /\ x.left \in Int
        BY <1>3, <2>1, <2>5
      <4> DEFINE a == x.left
      <4> HIDE DEF a, Data, Count
      <4>2. k = a - full <=> full + k = a
        BY <4>1 DEF a
      <4> QED
        BY <4>2 DEF a
    <3> QED
      BY <3>2, <3>3, <1>3, <2>1, <2>5
  <2>16. SameRest(p, q)
    BY <1>6, <1>8, <2>3, <2>10, <2>11, <2>14, <2>15 DEF SameRest
  <2>17. p.buffer = q.buffer /\ p.limit = q.limit
    BY <1>6, <2>3, <2>10, <2>11, <2>12
  <2>18. p = q
    BY <2>10, <2>11, <2>16, <2>17, SameIs
  <2> QED
    BY <2>9, <2>18 DEF v
<1> QED
  <2>1. y.mode = "complete" /\ x.mode # "complete" => n = x.left
    BY <1>8
  <2> QED
    BY <1>7, <1>8, <1>9, <1>9a, <1>10, <2>1 DEF b, m

-----------------------------------------------------------------------------
(* The steps of a chunked body. *)
Steps(x, y) ==
    /\ Shape(y) /\ y.limit = x.limit /\ y.state = x.state
    /\ y.headerBytes = x.headerBytes /\ y.req.headers = x.req.headers
    /\ y.mode \in {x.mode, "size", "data", "crlf", "complete"}
    /\ Len(y.buffer) <= Len(x.buffer)
    /\ y = x \/ y.error # 0 \/ Len(y.buffer) < Len(x.buffer)

Take(z, a, mode) == [z EXCEPT !.buffer = a, !.mode = mode]

LEMMA TakenIs ==
    ASSUME NEW z, Shape(z), NEW a \in Seq(Tokens), NEW mode \in Modes,
           NEW u \in Seq(Tokens), NEW l \in Nat, NEW w, w = Take(z, a, mode)
    PROVE  /\ Shape(w) /\ w.buffer = a /\ w.mode = mode /\ w.limit = z.limit /\ w.state = z.state
           /\ w.headerBytes = z.headerBytes /\ w.req = z.req /\ w.error = z.error
           /\ Take(More(z, u, l), a \o u, mode) = More(w, u, l)
<1>1. /\ Shape(w) /\ w.buffer = a /\ w.mode = mode /\ w.limit = z.limit /\ w.state = z.state
      /\ w.headerBytes = z.headerBytes /\ w.req = z.req /\ w.error = z.error
  BY DEF Shape, Fields, Expects, Take
<1>2. Take(More(z, u, l), a \o u, mode) = More(w, u, l)
  BY DEF Shape, Fields, More, Take
<1> QED
  BY <1>1, <1>2

LEMMA ChunkIs ==
    ASSUME NEW x, Shape(x), NEW n \in Nat, NEW u \in Seq(Tokens), NEW l \in Nat,
           NEW y, y = [x EXCEPT !.chunk = n]
    PROVE  /\ Shape(y) /\ y.buffer = x.buffer /\ y.limit = x.limit /\ y.state = x.state
           /\ y.headerBytes = x.headerBytes /\ y.req = x.req /\ y.error = x.error /\ y.mode = x.mode
           /\ [More(x, u, l) EXCEPT !.chunk = n] = More(y, u, l)
<1>1. /\ Shape(y) /\ y.buffer = x.buffer /\ y.limit = x.limit /\ y.state = x.state
      /\ y.headerBytes = x.headerBytes /\ y.req = x.req /\ y.error = x.error /\ y.mode = x.mode
  BY DEF Shape, Fields, Expects
<1>2. [More(x, u, l) EXCEPT !.chunk = n] = More(y, u, l)
  BY DEF Shape, Fields, More
<1> QED
  BY <1>1, <1>2

Holding(x, d) == [x EXCEPT !.req.body = d]

LEMMA BodyIs ==
    ASSUME NEW x, Shape(x), NEW d \in Seq(Tokens), NEW u \in Seq(Tokens), NEW l \in Nat,
           NEW y, y = Holding(x, d)
    PROVE  /\ Shape(y) /\ y.buffer = x.buffer /\ y.limit = x.limit /\ y.state = x.state
           /\ y.headerBytes = x.headerBytes /\ y.req.headers = x.req.headers
           /\ y.error = x.error /\ y.mode = x.mode
           /\ Holding(More(x, u, l), d) = More(y, u, l)
<1>1. /\ Shape(y) /\ y.buffer = x.buffer /\ y.limit = x.limit /\ y.state = x.state
      /\ y.headerBytes = x.headerBytes /\ y.req.headers = x.req.headers
      /\ y.error = x.error /\ y.mode = x.mode
  BY DEF Shape, Fields, Parts, Expects, Holding
<1>2. Holding(More(x, u, l), d) = More(y, u, l)
  BY DEF Shape, Fields, Parts, More, Holding
<1> QED
  BY <1>1, <1>2

Like(x, z) ==
    /\ Shape(z) /\ z.limit = x.limit /\ z.state = x.state /\ z.headerBytes = x.headerBytes
    /\ z.req.headers = x.req.headers /\ z.mode = x.mode /\ z.buffer = x.buffer

LEMMA FailSteps ==
    ASSUME NEW x, NEW z, Like(x, z), NEW code \in Int, code # 0
    PROVE  Steps(x, Fail(z, code))
<1> DEFINE y == Fail(z, code)
<1>1. y.mode = z.mode
  BY DEF Fail, Shape, Fields, Like
<1>2. /\ Shape(y) /\ y.error = code /\ y.buffer = z.buffer /\ y.limit = z.limit
      /\ y.state = z.state /\ y.req = z.req /\ y.headerBytes = z.headerBytes
  <2> DEFINE none == <<>>
  <2>1. none \in Seq(Tokens) /\ 0 \in Nat
    OBVIOUS
  <2> HIDE DEF none
  <2>2. Shape(z)
    BY DEF Like
  <2> QED
    BY <2>1, <2>2, FailIs
<1>3. Len(y.buffer) \in Nat
  BY <1>2 DEF Shape
<1> HIDE DEF y
<1> QED
  BY <1>1, <1>2, <1>3 DEF Steps, Like, y

LEMMA ChunkSizeIs ==
    ASSUME NEW x, Shape(x), NEW u \in Seq(Tokens), NEW l \in Nat, NEW y, y = ChunkSize(x)
    PROVE  /\ Steps(x, y)
           /\ u = <<>> \/ y # x => ChunkSize(More(x, u, l)) = More(y, u, l)
<1> DEFINE b == x.buffer
           m == More(x, u, l)
           end == Find(b, CRLF)
           toEnd == Find(m.buffer, CRLF)
           SizeIn(line) ==
             HexStrToSize(IF Find(line, <<";">>) = 0 THEN line ELSE UpTo(line, Find(line, <<";">>)))
           n == SizeIn(UpTo(b, end))
           next == IF n.value = 0 THEN "crlf" ELSE "data"
           has == Len(x.req.body)
           tooBig == has > MaxBody \/ n.value > MaxBody - has
           z == [x EXCEPT !.chunk = n.value]
<1>0. b \in Seq(Tokens) /\ Len(b) \in Nat /\ x.req.body \in Seq(Tokens)
  BY DEF Shape
<1>1. Shape(m) /\ m.buffer = b \o u /\ m.limit = l /\ m.req = x.req
  BY MoreIs DEF SameRest
<1>1a. /\ CRLF \in Seq(Tokens) /\ Len(CRLF) = 2 /\ Len(CRLF) > 0 /\ 2 \in 0..Len(CRLF)
  BY CRLFIs
<1>2. y = IF end = 0 THEN x ELSE IF ~n.ok THEN Fail(x, 400) ELSE IF tooBig THEN Fail(z, 413)
          ELSE [z EXCEPT !.buffer = From(@, end + 2), !.mode = next]
  BY DEF ChunkSize
<1>3. ASSUME end # 0
      PROVE  /\ toEnd = end /\ UpTo(m.buffer, toEnd) = UpTo(b, end) /\ UpTo(b, end) \in Seq(Tokens)
             /\ From(b \o u, end + 2) = From(b, end + 2) \o u
             /\ From(b, end + 2) \in Seq(Tokens) /\ Len(From(b, end + 2)) < Len(b)
  <2>1. /\ Find(b \o u, CRLF) = end /\ UpTo(b \o u, end) = UpTo(b, end)
        /\ \A k \in 0..Len(CRLF) : From(b \o u, end + k) = From(b, end + k) \o u
    BY <1>3, <1>0, <1>1a, FindStays
  <2>2. toEnd = Find(b \o u, CRLF)
    BY <1>1
  <2>3. end \in 1..(Len(b) - Len(CRLF) + 1)
    BY <1>3, <1>0, <1>1a, FindIs
  <2> HIDE DEF end, b, m, toEnd
  <2>4. end \in 1..(Len(b) + 1) /\ end + 2 \in 1..(Len(b) + 1)
    BY <2>3, <1>0, <1>1a
  <2>5. From(b, end + 2) \in Seq(Tokens) /\ Len(From(b, end + 2)) = Len(b) - (end + 2) + 1
    BY <2>4, FromIs, <1>0
  <2>6. UpTo(b, end) \in Seq(Tokens)
    BY <1>0, <2>4 DEF UpTo
  <2> QED
    <3>1. From(b \o u, end + 2) = From(b, end + 2) \o u
      BY <2>1, <1>1a
    <3>2. Len(From(b, end + 2)) < Len(b)
      BY <2>4, <2>5, <1>0
    <3>3. toEnd = end /\ UpTo(m.buffer, toEnd) = UpTo(b, end)
      BY <2>1, <2>2, <1>1
    <3> QED
      BY <2>5, <2>6, <3>1, <3>2, <3>3
<1>4. ASSUME end # 0
      PROVE  n \in Results
  <2> DEFINE line == UpTo(b, end)
             c == <<";">>
             semi == Find(line, c)
             part == IF semi = 0 THEN line ELSE UpTo(line, semi)
  <2>1. line \in Seq(Tokens)
    BY <1>3, <1>4
  <2>2. c \in Seq(Tokens) /\ Len(c) = 1
    <3> DEFINE t == ";"
    <3>1. t \in Tokens
      BY DEF Tokens
    <3> HIDE DEF t
    <3>2. <<t>> \in Seq(Tokens) /\ Len(<<t>>) = 1
      BY <3>1
    <3> QED
      BY <3>2 DEF t
  <2>3. n = HexStrToSize(part)
    OBVIOUS
  <2> HIDE DEF c, line, n
  <2>4. Len(c) > 0
    BY <2>2
  <2>5. semi # 0 => semi \in 1..(Len(line) - Len(c) + 1)
    BY <2>1, <2>2, <2>4, FindIs
  <2> HIDE DEF semi
  <2>6. semi # 0 => UpTo(line, semi) \in Seq(Tokens)
    BY <2>1, <2>2, <2>5 DEF UpTo
  <2>7. part \in Seq(Tokens)
    BY <2>1, <2>6
  <2> HIDE DEF part
  <2>8. Number(part, 16, HexDigits) \in Results
    BY <2>7, NumberIs
  <2> QED
    BY <2>3, <2>8 DEF HexStrToSize
<1>5. ChunkSize(m) =
        IF toEnd = 0 THEN m
        ELSE IF ~SizeIn(UpTo(m.buffer, toEnd)).ok THEN Fail(m, 400)
        ELSE IF \/ Len(m.req.body) > MaxBody
                \/ SizeIn(UpTo(m.buffer, toEnd)).value > MaxBody - Len(m.req.body)
             THEN Fail([m EXCEPT !.chunk = SizeIn(UpTo(m.buffer, toEnd)).value], 413)
        ELSE [[m EXCEPT !.chunk = SizeIn(UpTo(m.buffer, toEnd)).value] EXCEPT
                !.buffer = From(@, toEnd + 2),
                !.mode = IF SizeIn(UpTo(m.buffer, toEnd)).value = 0 THEN "crlf" ELSE "data"]
  BY DEF ChunkSize
<1> HIDE DEF SizeIn
<1> DEFINE w == [m EXCEPT !.chunk = n.value]
<1>6. end # 0 => ChunkSize(m) =
        IF ~n.ok THEN Fail(m, 400) ELSE IF tooBig THEN Fail(w, 413)
        ELSE [w EXCEPT !.buffer = From(@, end + 2), !.mode = next]
  BY <1>1, <1>3, <1>5
<1> HIDE DEF n
<1>7. CASE end = 0
  <2>1. y = x
    BY <1>2, <1>7
  <2>2. ASSUME u = <<>> PROVE ChunkSize(m) = m
    <3>1. toEnd = 0
      BY <2>2, <1>0, <1>1, <1>7, ConcatEmptySeq
    <3> QED
      BY <3>1, <1>5
  <2> HIDE DEF m, b, end
  <2> QED
    BY <2>1, <2>2, <1>0 DEF m, b, Steps
<1>8. CASE end # 0 /\ ~n.ok
  <2>1. y = Fail(x, 400) /\ ChunkSize(m) = Fail(m, 400)
    BY <1>2, <1>6, <1>8
  <2>2. Steps(x, Fail(x, 400))
    <3>1. Like(x, x)
      BY DEF Like
    <3> QED
      BY <3>1, FailSteps
  <2>3. Fail(m, 400) = More(Fail(x, 400), u, l)
    BY FailIs
  <2> QED
    BY <2>1, <2>2, <2>3
<1>9. CASE end # 0 /\ n.ok
  <2>1. n.value \in Nat
    BY <1>4, <1>9 DEF Results
  <2>2. /\ Shape(z) /\ z.buffer = b /\ z.limit = x.limit /\ z.state = x.state /\ z.mode = x.mode
        /\ z.headerBytes = x.headerBytes /\ z.req = x.req /\ z.error = x.error
        /\ w = More(z, u, l)
    BY <2>1, ChunkIs
  <2> HIDE DEF z, w, m, b, end
  <2>3. CASE tooBig
    <3>1. y = Fail(z, 413) /\ ChunkSize(m) = Fail(w, 413)
      BY <1>2, <1>6, <1>9, <2>3
    <3>2. Steps(x, Fail(z, 413))
      <4>1. Like(x, z)
        BY <2>2 DEF b, Like
      <4> QED
        BY <4>1, FailSteps
    <3>3. Fail(w, 413) = More(Fail(z, 413), u, l)
      BY <2>2, FailIs
    <3> QED
      BY <3>1, <3>2, <3>3 DEF m
  <2>4. CASE ~tooBig
    <3> DEFINE a == From(b, end + 2)
    <3>1. y = Take(z, a, next)
      BY <1>2, <1>9, <2>2, <2>4 DEF Take
    <3>2. w.buffer = b \o u
      BY <2>2, MoreIs
    <3>3. ChunkSize(m) = Take(w, From(b \o u, end + 2), next)
      BY <1>6, <1>9, <2>4, <3>2 DEF Take
    <3>4. From(b \o u, end + 2) = a \o u /\ a \in Seq(Tokens) /\ Len(a) < Len(b)
      BY <1>3, <1>9
    <3>5. next \in Modes /\ next \in {"crlf", "data"}
      BY DEF Modes
    <3> HIDE DEF a, next
    <3>6. /\ Shape(y) /\ y.buffer = a /\ y.mode = next /\ y.limit = z.limit /\ y.state = z.state
          /\ y.headerBytes = z.headerBytes /\ y.req = z.req
          /\ Take(More(z, u, l), a \o u, next) = More(y, u, l)
      BY <2>2, <3>1, <3>4, <3>5, TakenIs
    <3>7. Len(a) \in Nat
      BY <3>4
    <3>8. ChunkSize(m) = More(y, u, l)
      BY <2>2, <3>3, <3>4, <3>6
    <3>9. Steps(x, y)
      BY <2>2, <3>4, <3>5, <3>6, <3>7, <1>0 DEF Steps, b
    <3> QED
      BY <3>8, <3>9 DEF m
  <2> QED
    BY <2>3, <2>4
<1> QED
  BY <1>7, <1>8, <1>9

LEMMA ChunkDataIs ==
    ASSUME NEW x, Shape(x), NEW u \in Seq(Tokens), NEW l \in Nat, NEW y, y = ChunkData(x)
    PROVE  /\ Steps(x, y)
           /\ u = <<>> \/ y # x => ChunkData(More(x, u, l)) = More(y, u, l)
<1> DEFINE b == x.buffer
           n == x.chunk
           m == More(x, u, l)
           Data(v) == v.req.body \o SubSeq(v.buffer, 1, v.chunk)
           Got(v) == [v EXCEPT !.req.body = Data(v)]
           z == Got(x)
<1>0. b \in Seq(Tokens) /\ Len(b) \in Nat /\ x.req.body \in Seq(Tokens) /\ n \in Nat /\ Len(u) \in Nat
  BY DEF Shape
<1>1. Shape(m) /\ m.buffer = b \o u /\ m.limit = l /\ m.req = x.req /\ m.chunk = n
  BY MoreIs DEF SameRest
<1>2. \A v : Shape(v) =>
        ChunkData(v) = IF Len(v.buffer) < v.chunk + 2 THEN v
                       ELSE IF SubSeq(v.buffer, v.chunk + 1, v.chunk + 2) # CRLF THEN Fail(Got(v), 400)
                       ELSE Take(Got(v), From(v.buffer, v.chunk + 3), "size")
  <2>1. ASSUME NEW v, Shape(v)
        PROVE  Got(v).buffer = v.buffer /\ Got(v).chunk = v.chunk
    BY <2>1 DEF Shape, Fields
  <2> HIDE DEF Data
  <2> QED
    BY <2>1 DEF ChunkData, Take, Data
<1>3. Len(b \o u) = Len(b) + Len(u)
  BY <1>0
<1> HIDE DEF m, b, n
<1>4. CASE Len(b) < n + 2
  <2>1. y = x
    BY <1>2, <1>4 DEF b, n
  <2>2. ASSUME u = <<>> PROVE ChunkData(m) = m
    <3>1. m.buffer = b
      BY <2>2, <1>0, <1>1, ConcatEmptySeq
    <3> QED
      BY <3>1, <1>1, <1>2, <1>4
  <2>3. Steps(x, x)
    BY <1>0 DEF Steps, b
  <2> QED
    BY <2>1, <2>2, <2>3 DEF m
<1>5. CASE ~(Len(b) < n + 2)
  <2>1. /\ n <= Len(b) /\ n + 2 <= Len(b) /\ n + 3 \in 1..(Len(b) + 1)
        /\ ~(Len(m.buffer) < m.chunk + 2)
    BY <1>0, <1>1, <1>3, <1>5
  <2>2. /\ SubSeq(b \o u, 1, n) = SubSeq(b, 1, n)
        /\ SubSeq(b \o u, n + 1, n + 2) = SubSeq(b, n + 1, n + 2)
    BY <1>0, <2>1, InFront
  <2>3. From(b \o u, n + 3) = From(b, n + 3) \o u
    BY <1>0, <2>1, FromMore
  <2>4. From(b, n + 3) \in Seq(Tokens) /\ Len(From(b, n + 3)) = Len(b) - (n + 3) + 1
    BY <1>0, <2>1, FromIs
  <2> DEFINE d == Data(x)
             a == From(b, n + 3)
             w == Got(m)
  <2>5. d \in Seq(Tokens)
    <3>1. SubSeq(b, 1, n) \in Seq(Tokens)
      BY <1>0, <2>1
    <3> QED
      BY <3>1, <1>0 DEF b, n
  <2>6. Data(m) = d
    BY <1>1, <2>2 DEF b, n
  <2> HIDE DEF Data, d
  <2>7. Like(x, z) /\ w = More(z, u, l) /\ z.buffer = b
    <3>1. z = Holding(x, d) /\ w = Holding(m, d)
      BY <2>6 DEF d, Holding
    <3> HIDE DEF z, w
    <3> QED
      BY <2>5, <3>1, BodyIs DEF Like, b, m
  <2> HIDE DEF Got, z, w
  <2>8. CASE SubSeq(b, n + 1, n + 2) # CRLF
    <3>1. y = Fail(z, 400) /\ ChunkData(m) = Fail(w, 400)
      BY <1>1, <1>2, <1>5, <2>1, <2>2, <2>8 DEF b, n, z, w
    <3>2. Steps(x, Fail(z, 400))
      BY <2>7, FailSteps
    <3>3. Fail(w, 400) = More(Fail(z, 400), u, l)
      BY <2>7, FailIs DEF Like
    <3> QED
      BY <3>1, <3>2, <3>3 DEF m
  <2>9. CASE SubSeq(b, n + 1, n + 2) = CRLF
    <3>1. y = Take(z, a, "size") /\ ChunkData(m) = Take(w, a \o u, "size")
      BY <1>1, <1>2, <1>5, <2>1, <2>2, <2>3, <2>9 DEF b, n, z, w
    <3>2. a \in Seq(Tokens) /\ Len(a) \in Nat /\ Len(a) < Len(b)
      BY <2>4, <1>0
    <3>3. "size" \in Modes
      BY DEF Modes
    <3> HIDE DEF a
    <3>4. /\ Shape(y) /\ y.buffer = a /\ y.mode = "size" /\ y.limit = z.limit /\ y.state = z.state
          /\ y.headerBytes = z.headerBytes /\ y.req = z.req
          /\ Take(More(z, u, l), a \o u, "size") = More(y, u, l)
      BY <2>7, <3>1, <3>2, <3>3, TakenIs DEF Like
    <3>5. Steps(x, y)
      BY <2>7, <3>2, <3>4, <1>0 DEF Steps, Like, b
    <3>6. ChunkData(m) = More(y, u, l)
      BY <2>7, <3>1, <3>4
    <3> QED
      BY <3>5, <3>6 DEF m
  <2> QED
    BY <2>8, <2>9
<1> QED
  BY <1>4, <1>5

LEMMA TrailerIs ==
    ASSUME NEW x, Shape(x), NEW u \in Seq(Tokens), NEW l \in Nat, NEW y, y = Trailer(x)
    PROVE  /\ Steps(x, y)
           /\ u = <<>> \/ y # x => Trailer(More(x, u, l)) = More(y, u, l)
<1> DEFINE b == x.buffer
           m == More(x, u, l)
           e == CRLF \o CRLF
           End(v) == Find(v.buffer, e)
           Ends(v) == IsPrefix(CRLF, v.buffer)
           At(v) == IF Ends(v) THEN 3 ELSE End(v) + 4
           at == At(x)
<1>0. b \in Seq(Tokens) /\ Len(b) \in Nat /\ Len(u) \in Nat
  BY DEF Shape
<1>1. Shape(m) /\ m.buffer = b \o u /\ m.limit = l
  BY MoreIs
<1>1a. /\ CRLF \in Seq(Tokens) /\ Len(CRLF) = 2
       /\ e \in Seq(Tokens) /\ Len(e) = 4 /\ Len(e) > 0
  BY CRLFIs
<1>2. \A v : Trailer(v) = IF Ends(v) \/ End(v) # 0
                          THEN Take(v, From(v.buffer, At(v)), "complete") ELSE v
  BY DEF Trailer, Take
<1> HIDE DEF m, b, e
<1>3. CASE ~Ends(x) /\ End(x) = 0
  <2>1. y = x
    BY <1>2, <1>3
  <2>2. ASSUME u = <<>> PROVE Trailer(m) = m
    <3>1. m.buffer = x.buffer
      BY <2>2, <1>0, <1>1, ConcatEmptySeq DEF b
    <3> QED
      BY <3>1, <1>2, <1>3
  <2>3. Steps(x, x)
    BY <1>0 DEF Steps, b
  <2> QED
    BY <2>1, <2>2, <2>3 DEF m
<1>4. CASE Ends(x) \/ End(x) # 0
  <2>1. End(x) # 0 => End(x) \in 1..(Len(b) - Len(e) + 1)
    BY <1>0, <1>1a, FindIs DEF b
  <2>2. /\ Len(b) >= 2 /\ Len(b \o u) >= 2 /\ at \in 1..(Len(b) + 1) /\ at >= 3
    <3>1. Ends(x) => Len(b) >= 2
      BY <1>1a DEF IsPrefix, b
    <3>2. Len(b \o u) = Len(b) + Len(u)
      BY <1>0
    <3> HIDE DEF Ends, End
    <3> QED
      BY <3>1, <3>2, <2>1, <1>0, <1>1a, <1>4
  <2>3. Ends(m) <=> Ends(x)
    <3>1. SubSeq(b \o u, 1, 2) = SubSeq(b, 1, 2)
      BY <1>0, <2>2, InFront
    <3> QED
      BY <3>1, <1>0, <1>1, <1>1a, <2>2 DEF IsPrefix, b
  <2>4. End(x) # 0 => End(m) = End(x)
    <3>1. Find(b, e) # 0 => Find(b \o u, e) = Find(b, e)
      BY <1>0, <1>1a, FindStays
    <3> QED
      BY <3>1, <1>1 DEF b
  <2> HIDE DEF Ends, End
  <2>5. At(m) = at /\ (Ends(m) \/ End(m) # 0)
    BY <1>4, <2>3, <2>4
  <2> DEFINE a == From(b, at)
  <2> HIDE DEF at
  <2>6. From(b \o u, at) = a \o u
    BY <1>0, <2>2, FromMore
  <2>7. a \in Seq(Tokens) /\ Len(a) = Len(b) - at + 1
    BY <1>0, <2>2, FromIs
  <2>8. Len(a) \in Nat /\ Len(a) < Len(b)
    BY <1>0, <2>2, <2>7
  <2>9. y = Take(x, a, "complete") /\ Trailer(m) = Take(m, a \o u, "complete")
    <3> HIDE DEF At
    <3> QED
      BY <1>1, <1>2, <1>4, <2>5, <2>6 DEF b, at
  <2>10. "complete" \in Modes
    BY DEF Modes
  <2> HIDE DEF a
  <2>11. /\ Shape(y) /\ y.buffer = a /\ y.mode = "complete" /\ y.limit = x.limit /\ y.state = x.state
         /\ y.headerBytes = x.headerBytes /\ y.req = x.req
         /\ Take(More(x, u, l), a \o u, "complete") = More(y, u, l)
    BY <2>7, <2>9, <2>10, TakenIs
  <2>12. Steps(x, y)
    BY <2>8, <2>11, <1>0 DEF Steps, b
  <2>13. Trailer(m) = More(y, u, l)
    BY <2>9, <2>11 DEF m
  <2> QED
    BY <2>12, <2>13 DEF m
<1> QED
  BY <1>3, <1>4

LEMMA ChunkStepIs ==
    ASSUME NEW x, Shape(x), NEW u \in Seq(Tokens), NEW l \in Nat, NEW y, y = ChunkStep(x)
    PROVE  /\ Steps(x, y)
           /\ u = <<>> \/ y # x => ChunkStep(More(x, u, l)) = More(y, u, l)
           /\ x.error # 0 \/ x.buffer = <<>> => y = x
<1> DEFINE m == More(x, u, l)
<1>1. /\ Shape(m) /\ m.buffer = x.buffer \o u /\ m.error = x.error /\ m.mode = x.mode
      /\ x.buffer \in Seq(Tokens) /\ Len(x.buffer) \in Nat
  <2>1. /\ Shape(m) /\ m.buffer = x.buffer \o u /\ m.error = x.error /\ m.mode = x.mode
    BY MoreIs DEF SameRest
  <2>2. x.buffer \in Seq(Tokens) /\ Len(x.buffer) \in Nat
    BY DEF Shape
  <2> QED
    BY <2>1, <2>2
<1>2. Steps(x, x)
  BY <1>1 DEF Steps
<1>3. m.buffer = <<>> => x.buffer = <<>>
  <2>1. Len(m.buffer) = Len(x.buffer) + Len(u) /\ Len(u) \in Nat
    BY <1>1
  <2>2. x.buffer # <<>> => Len(x.buffer) > 0
    BY <1>1, EmptySeq
  <2>3. m.buffer = <<>> => Len(m.buffer) = 0
    BY EmptySeq
  <2> QED
    BY <1>1, <2>1, <2>2, <2>3
<1>3a. x.buffer = <<>> /\ u = <<>> => m.buffer = <<>>
  BY <1>1, ConcatEmptySeq
<1> HIDE DEF m
<1>4. CASE x.error # 0 \/ x.buffer = <<>>
  <2>1. y = x
    BY <1>4 DEF ChunkStep
  <2>2. u = <<>> => ChunkStep(m) = m
    BY <1>1, <1>3a, <1>4 DEF ChunkStep
  <2> QED
    BY <2>1, <2>2, <1>2 DEF m
<1>5. CASE ~(x.error # 0 \/ x.buffer = <<>>)
  <2>1. ~(m.error # 0 \/ m.buffer = <<>>)
    BY <1>1, <1>3, <1>5
  <2>2. CASE x.mode = "size"
    BY <1>1, <1>5, <2>1, <2>2, ChunkSizeIs DEF ChunkStep, m
  <2>3. CASE x.mode = "data"
    BY <1>1, <1>5, <2>1, <2>3, ChunkDataIs DEF ChunkStep, m
  <2>4. CASE x.mode = "crlf"
    BY <1>1, <1>5, <2>1, <2>4, TrailerIs DEF ChunkStep, m
  <2>5. CASE x.mode \notin {"size", "data", "crlf"}
    <3>1. y = x /\ ChunkStep(m) = m
      BY <1>1, <1>5, <2>1, <2>5 DEF ChunkStep
    <3> QED
      BY <3>1, <1>2, <1>5 DEF m
  <2> QED
    BY <2>2, <2>3, <2>4, <2>5
<1> QED
  BY <1>4, <1>5

-----------------------------------------------------------------------------
(* All the steps: p[n] is what is left after n of them. *)
SteppedBy(g, x, n) ==
    g = [S \in SUBSET (1..n) |-> IF S = {} THEN x ELSE ChunkStep(g[S \ {Max(S)}])]

LEMMA StepsGoOn ==
    ASSUME NEW x, NEW n \in Nat, NEW g, SteppedBy(g, x, n)
    PROVE  \E h : SteppedBy(h, x, n + 1)
<1> DEFINE h == [S \in SUBSET (1..(n + 1)) |->
                   IF n + 1 \in S THEN ChunkStep(g[S \ {n + 1}]) ELSE g[S]]
<1>1. ASSUME NEW S \in SUBSET (1..(n + 1))
      PROVE  h[S] = IF S = {} THEN x ELSE ChunkStep(h[S \ {Max(S)}])
  <2>0. S \ {Max(S)} \in SUBSET (1..(n + 1)) /\ n + 1 \notin S \ {Max(S)}
    BY LastOf
  <2>1. h[S \ {Max(S)}] = g[S \ {Max(S)}]
    BY <2>0
  <2>2. CASE n + 1 \in S
    <3>1. h[S] = ChunkStep(g[S \ {n + 1}])
      BY <2>2
    <3>2. S # {} /\ Max(S) = n + 1
      BY <2>2, LastOf
    <3> QED
      BY <3>1, <3>2, <2>1
  <2>3. CASE n + 1 \notin S
    <3>1. S \in SUBSET (1..n) /\ h[S] = g[S]
      BY <2>3, LastOf
    <3>2. g[S] = IF S = {} THEN x ELSE ChunkStep(g[S \ {Max(S)}])
      BY <3>1 DEF SteppedBy
    <3> QED
      BY <3>1, <3>2, <2>1
  <2> QED
    BY <2>2, <2>3
<1>2. h = [S \in SUBSET (1..(n + 1)) |-> h[S]]
  OBVIOUS
<1> HIDE DEF h
<1>3. SteppedBy(h, x, n + 1)
  BY <1>1, <1>2 DEF SteppedBy
<1> QED
  BY <1>3

LEMMA StepsExist ==
    ASSUME NEW x, NEW n \in Nat
    PROVE  \E g : SteppedBy(g, x, n)
<1> DEFINE A == {i \in Nat : \E g : SteppedBy(g, x, i)}
<1>1. 0 \in A
  <2> DEFINE g == [S \in SUBSET (1..0) |-> x]
  <2>1. SteppedBy(g, x, 0)
    BY DEF SteppedBy
  <2> QED
    BY <2>1
<1>2. \A i \in A : i + 1 \in A
  BY StepsGoOn
<1>3. A = Nat
  <2> HIDE DEF A
  <2>1. A \in SUBSET Nat
    BY DEF A
  <2> QED
    BY <1>1, <1>2, <2>1, AllNumbers
<1> QED
  BY <1>3

Run(p, x, n) ==
    /\ p[0] = x
    /\ \A i \in Nat : i + 1 <= n => p[i + 1] = ChunkStep(p[i])

LEMMA ParseChunkedRuns ==
    ASSUME NEW x, Shape(x)
    PROVE  \E p : Run(p, x, Len(x.buffer)) /\ ParseChunked(x) = p[Len(x.buffer)]
<1> DEFINE s == x.buffer
           N == Len(s)
<1>1. N \in Nat /\ DOMAIN s = 1..N
  BY DEF Shape
<1> DEFINE g == CHOOSE h : SteppedBy(h, x, N)
           p == [n \in 0..N |-> g[1..n]]
<1>2. SteppedBy(g, x, N)
  BY <1>1, StepsExist
<1>3. ParseChunked(x) = g[1..N]
  BY <1>1 DEF ParseChunked, FoldLeft, MapThenFoldSet, SteppedBy
<1> HIDE DEF g, N
<1>4. p[0] = x
  <2>1. p[0] = g[{}] /\ {} \in SUBSET (1..N)
    BY <1>1
  <2> QED
    BY <2>1, <1>2 DEF SteppedBy
<1>5. ASSUME NEW i \in Nat, i + 1 <= N PROVE p[i + 1] = ChunkStep(p[i])
  <2>1. /\ 1..(i + 1) \in SUBSET (1..N) /\ (1..(i + 1)) \ {i + 1} = 1..i /\ 1..(i + 1) # {}
        /\ Max(1..(i + 1)) = i + 1
    BY <1>1, <1>5, FirstOnes
  <2>2. g[1..(i + 1)] = ChunkStep(g[(1..(i + 1)) \ {Max(1..(i + 1))}])
    BY <2>1, <1>2 DEF SteppedBy
  <2>3. p[i + 1] = g[1..(i + 1)] /\ p[i] = g[1..i]
    BY <1>1, <1>5
  <2> QED
    BY <2>1, <2>2, <2>3
<1>6. p[N] = g[1..N]
  BY <1>1
<1> HIDE DEF p
<1>7. Run(p, x, N)
  BY <1>4, <1>5 DEF Run
<1> QED
  BY <1>3, <1>6, <1>7 DEF N

(* A run keeps the shape and takes characters until nothing is to be done. *)
LEMMA RunIs ==
    ASSUME NEW x, Shape(x), NEW n \in Nat, NEW p, Run(p, x, n)
    PROVE  \A i \in 0..n : /\ Shape(p[i]) /\ p[i].limit = x.limit /\ p[i].state = x.state
                           /\ p[i].headerBytes = x.headerBytes
                           /\ p[i].req.headers = x.req.headers
                           /\ p[i].mode \in {x.mode, "size", "data", "crlf", "complete"}
                           /\ Len(p[i].buffer) <= Len(x.buffer)
                           /\ \/ ChunkStep(p[i]) = p[i] \/ p[i].error # 0
                              \/ Len(p[i].buffer) <= Len(x.buffer) - i
<1> DEFINE Ok(y) == /\ Shape(y) /\ y.limit = x.limit /\ y.state = x.state
                    /\ y.headerBytes = x.headerBytes /\ y.req.headers = x.req.headers
                    /\ y.mode \in {x.mode, "size", "data", "crlf", "complete"}
                    /\ Len(y.buffer) <= Len(x.buffer)
           Less(i) == \/ ChunkStep(p[i]) = p[i] \/ p[i].error # 0
                      \/ Len(p[i].buffer) <= Len(x.buffer) - i
           A == {i \in Nat : i <= n => Ok(p[i]) /\ Less(i)}
<1>0. Len(x.buffer) \in Nat
  BY DEF Shape
<1>1. 0 \in A
  BY <1>0 DEF Run
<1>2. ASSUME NEW i \in A PROVE i + 1 \in A
  <2>1. SUFFICES ASSUME i + 1 <= n PROVE Ok(p[i + 1]) /\ Less(i + 1)
    OBVIOUS
  <2> DEFINE y == p[i]
             z == p[i + 1]
  <2>2. i \in Nat /\ Ok(y) /\ Less(i)
    <3> HIDE DEF Ok, Less
    <3> QED
      BY <2>1
  <2>3. z = ChunkStep(y)
    BY <2>1, <2>2 DEF Run
  <2>4. Steps(y, z) /\ (y.error # 0 => z = y)
    <3> DEFINE none == <<>>
    <3>1. none \in Seq(Tokens) /\ 0 \in Nat
      OBVIOUS
    <3> HIDE DEF none, z, y
    <3> QED
      BY <2>2, <2>3, <3>1, ChunkStepIs
  <2>5. Len(z.buffer) \in Nat /\ Len(y.buffer) \in Nat
    <3>1. Shape(y) /\ Shape(z)
      BY <2>2, <2>4 DEF Steps
    <3> HIDE DEF z, y
    <3>2. y.buffer \in Seq(Tokens) /\ z.buffer \in Seq(Tokens)
      BY <3>1 DEF Shape
    <3> QED
      BY <3>2
  <2>6. Ok(z)
    <3> HIDE DEF z, y
    <3> QED
      BY <1>0, <2>2, <2>4, <2>5 DEF Steps
  <2>7. Less(i + 1)
    <3>1. CASE z = y
      BY <2>3, <3>1
    <3>2. CASE z # y
      <4>1. y.error = 0 /\ ChunkStep(y) # y /\ Len(y.buffer) <= Len(x.buffer) - i
        BY <2>2, <2>3, <2>4, <3>2
      <4>2. z.error # 0 \/ Len(z.buffer) < Len(y.buffer)
        BY <2>4, <3>2 DEF Steps
      <4> HIDE DEF z, y
      <4>3. z.error # 0 \/ Len(z.buffer) <= Len(x.buffer) - (i + 1)
        BY <1>0, <2>2, <2>5, <4>1, <4>2
      <4> QED
        BY <4>3 DEF z
    <3> QED
      BY <3>1, <3>2
  <2> QED
    BY <2>6, <2>7
<1>3. A = Nat
  <2> HIDE DEF A
  <2>1. A \in SUBSET Nat
    BY DEF A
  <2> QED
    BY <1>1, <1>2, <2>1, AllNumbers
<1>4. ASSUME NEW i \in 0..n PROVE Ok(p[i]) /\ Less(i)
  <2> HIDE DEF Ok, Less
  <2> QED
    BY <1>3
<1> QED
  BY <1>4

LEMMA RunStays ==
    ASSUME NEW x, NEW n \in Nat, NEW p, Run(p, x, n),
           NEW i \in 0..n, ChunkStep(p[i]) = p[i]
    PROVE  p[n] = p[i]
<1> DEFINE A == {j \in Nat : i + j <= n => p[i + j] = p[i]}
<1>1. 0 \in A
  OBVIOUS
<1>2. ASSUME NEW j \in A PROVE j + 1 \in A
  <2>1. SUFFICES ASSUME i + (j + 1) <= n PROVE p[i + (j + 1)] = p[i]
    OBVIOUS
  <2>2. p[i + j] = p[i] /\ i + j \in Nat /\ (i + j) + 1 = i + (j + 1)
    BY <2>1
  <2>3. p[(i + j) + 1] = ChunkStep(p[i + j])
    BY <2>1, <2>2 DEF Run
  <2> QED
    BY <2>2, <2>3
<1>3. A = Nat
  <2> HIDE DEF A
  <2>1. A \in SUBSET Nat
    BY DEF A
  <2> QED
    BY <1>1, <1>2, <2>1, AllNumbers
<1>4. n - i \in A
  <2> HIDE DEF A
  <2> QED
    BY <1>3
<1>5. i + (n - i) = n
  OBVIOUS
<1> QED
  BY <1>4, <1>5

LEMMA ParseChunkedEnds ==
    ASSUME NEW x, Shape(x), NEW y, y = ParseChunked(x)
    PROVE  /\ Shape(y) /\ y.limit = x.limit /\ y.state = x.state
           /\ y.headerBytes = x.headerBytes /\ y.req.headers = x.req.headers
           /\ y.mode \in {x.mode, "size", "data", "crlf", "complete"}
           /\ Len(y.buffer) <= Len(x.buffer)
           /\ ChunkStep(y) = y
<1> DEFINE N == Len(x.buffer)
<1>1. N \in Nat
  BY DEF Shape
<1>2. PICK p : Run(p, x, N) /\ y = p[N]
  BY ParseChunkedRuns
<1> HIDE DEF N
<1>3. /\ Shape(y) /\ y.limit = x.limit /\ y.state = x.state
      /\ y.headerBytes = x.headerBytes /\ y.req.headers = x.req.headers
      /\ y.mode \in {x.mode, "size", "data", "crlf", "complete"}
      /\ Len(y.buffer) <= Len(x.buffer)
      /\ ChunkStep(y) = y \/ y.error # 0 \/ Len(y.buffer) <= Len(x.buffer) - N
  <2>1. N \in 0..N
    BY <1>1
  <2> QED
    BY <1>1, <1>2, <2>1, RunIs
<1>4. ASSUME y.error # 0 \/ y.buffer = <<>> PROVE ChunkStep(y) = y
  <2> DEFINE none == <<>>
  <2>1. none \in Seq(Tokens) /\ 0 \in Nat
    OBVIOUS
  <2> HIDE DEF none
  <2> QED
    BY <1>3, <1>4, <2>1, ChunkStepIs
<1>5. Len(y.buffer) <= Len(x.buffer) - N => y.buffer = <<>>
  <2>1. y.buffer \in Seq(Tokens) /\ Len(x.buffer) - N = 0
    BY <1>1, <1>3 DEF Shape, N
  <2>2. y.buffer # <<>> => Len(y.buffer) \in Nat \ {0}
    BY <2>1, EmptySeq
  <2> QED
    BY <2>1, <2>2
<1> QED
  BY <1>3, <1>4, <1>5

(* A step taken is the same step with more behind it. *)
LEMMA StepGoesOn ==
    ASSUME NEW x, Shape(x), NEW u \in Seq(Tokens), NEW l \in Nat,
           u = <<>> \/ ChunkStep(x) # x
    PROVE  ChunkStep(More(x, u, l)) = More(ChunkStep(x), u, l)
<1> DEFINE y == ChunkStep(x)
<1>1. u = <<>> \/ y # x => ChunkStep(More(x, u, l)) = More(y, u, l)
  BY ChunkStepIs, SMTT(30)
<1> QED
  BY <1>1, Zenon

(* Chunks read in two goes are the chunks read in one. *)
LEMMA ParseChunkedIs ==
    ASSUME NEW x, Shape(x), NEW u \in Seq(Tokens), NEW l \in Nat, NEW y, y = ParseChunked(x)
    PROVE  /\ u = <<>> => ParseChunked(More(x, u, l)) = More(y, u, l)
           /\ ParseChunked(More(y, u, l)) = ParseChunked(More(x, u, l))
<1> DEFINE N == Len(x.buffer)
           m == More(x, u, l)
           v == More(y, u, l)
           Q == Len(m.buffer)
           V == Len(v.buffer)
<1>1. Shape(y)
  BY ParseChunkedEnds
<1>2. /\ Shape(m) /\ m.buffer = x.buffer \o u /\ Shape(v)
  BY <1>1, MoreIs
<1>3. N \in Nat /\ Q \in Nat /\ V \in Nat /\ Q = N + Len(u) /\ Len(u) \in Nat
  <2> HIDE DEF m, v
  <2>1. x.buffer \in Seq(Tokens) /\ m.buffer \in Seq(Tokens) /\ v.buffer \in Seq(Tokens)
    BY <1>2 DEF Shape
  <2>2. Len(x.buffer \o u) = Len(x.buffer) + Len(u)
    BY <2>1
  <2> QED
    BY <1>2, <2>1, <2>2
<1>4. PICK p : Run(p, x, N) /\ y = p[N]
  BY ParseChunkedRuns
<1>5. PICK q : Run(q, m, Q) /\ ParseChunked(m) = q[Q]
  BY <1>2, ParseChunkedRuns
<1>6. PICK r : Run(r, v, V) /\ ParseChunked(v) = r[V]
  BY <1>2, ParseChunkedRuns
<1>7. ChunkStep(q[Q]) = q[Q] /\ ChunkStep(r[V]) = r[V]
  BY <1>2, <1>5, <1>6, ParseChunkedEnds
<1> HIDE DEF m, v, N, Q, V
<1>8. \A i \in 0..N : Shape(p[i])
  BY <1>3, <1>4, RunIs
<1>8a. ASSUME NEW h, Shape(h), u = <<>> \/ ChunkStep(h) # h
       PROVE  ChunkStep(More(h, u, l)) = More(ChunkStep(h), u, l)
  BY <1>8a, StepGoesOn
<1>9. ASSUME u = <<>> PROVE ParseChunked(m) = More(y, u, l)
  <2> DEFINE A == {i \in Nat : i <= N => q[i] = More(p[i], u, l)}
  <2>1. 0 \in A
    BY <1>4, <1>5 DEF Run, m
  <2>2. ASSUME NEW i \in A PROVE i + 1 \in A
    <3>1. SUFFICES ASSUME i + 1 <= N PROVE q[i + 1] = More(p[i + 1], u, l)
      OBVIOUS
    <3>2. i \in Nat /\ q[i] = More(p[i], u, l) /\ i \in 0..N /\ i + 1 <= Q
      BY <1>3, <3>1
    <3>3. p[i + 1] = ChunkStep(p[i]) /\ q[i + 1] = ChunkStep(q[i]) /\ Shape(p[i])
      BY <1>4, <1>5, <1>8, <3>1, <3>2 DEF Run
    <3>4. ChunkStep(More(p[i], u, l)) = More(ChunkStep(p[i]), u, l)
      BY <1>8a, <1>9, <3>3, Zenon
    <3> QED
      BY <3>2, <3>3, <3>4
  <2>3. A = Nat
    <3> HIDE DEF A
    <3>1. A \in SUBSET Nat
      BY DEF A
    <3> QED
      BY <2>1, <2>2, <3>1, AllNumbers
  <2>4. q[N] = More(p[N], u, l)
    BY <1>3, <2>3
  <2>5. Q = N
    <3>1. Len(u) = 0
      BY <1>9, EmptySeq
    <3> QED
      BY <1>3, <3>1
  <2> QED
    BY <1>4, <1>5, <2>4, <2>5
<1>10. \E j \in 0..N : q[j] = v
  <2> DEFINE Has(i) == \E j \in 0..i : q[j] = More(p[i], u, l)
             A == {i \in Nat : i <= N => Has(i)}
  <2>1. 0 \in A
    <3>1. q[0] = More(p[0], u, l)
      BY <1>4, <1>5 DEF Run, m
    <3> QED
      BY <3>1
  <2>2. ASSUME NEW i \in A PROVE i + 1 \in A
    <3>1. ASSUME i + 1 <= N PROVE Has(i + 1)
      <4>1. i \in Nat /\ Has(i) /\ i \in 0..N
        <5> HIDE DEF Has
        <5> QED
          BY <1>3, <3>1
      <4>2. PICK j \in 0..i : q[j] = More(p[i], u, l)
        BY <4>1
      <4>3. /\ j \in Nat /\ j + 1 <= Q /\ j + 1 \in 0..(i + 1) /\ j \in 0..(i + 1)
        BY <1>3, <3>1, <4>1
      <4>4. p[i + 1] = ChunkStep(p[i]) /\ q[j + 1] = ChunkStep(q[j]) /\ Shape(p[i])
        BY <1>4, <1>5, <1>8, <3>1, <4>1, <4>3 DEF Run
      <4>5. CASE ChunkStep(p[i]) = p[i]
        BY <4>2, <4>3, <4>4, <4>5
      <4>6. CASE ChunkStep(p[i]) # p[i]
        <5>1. ChunkStep(More(p[i], u, l)) = More(ChunkStep(p[i]), u, l)
          BY <1>8a, <4>4, <4>6, Zenon
        <5>2. q[j + 1] = More(p[i + 1], u, l)
          BY <4>2, <4>4, <5>1
        <5> QED
          BY <4>3, <5>2
      <4> QED
        BY <4>5, <4>6
    <3> HIDE DEF Has
    <3> QED
      BY <3>1
  <2>3. A = Nat
    <3> HIDE DEF A
    <3>1. A \in SUBSET Nat
      BY DEF A
    <3> QED
      BY <2>1, <2>2, <3>1, AllNumbers
  <2>4. Has(N)
    <3> HIDE DEF Has
    <3> QED
      BY <1>3, <2>3
  <2> QED
    BY <1>4, <2>4 DEF v
<1>11. PICK j \in 0..N : q[j] = v
  BY <1>10
<1> DEFINE B == {i \in Nat : i <= V /\ j + i <= Q => q[j + i] = r[i]}
<1>12. 0 \in B
  BY <1>6, <1>11 DEF Run
<1>13. ASSUME NEW i \in B PROVE i + 1 \in B
  <2>1. SUFFICES ASSUME i + 1 <= V, j + (i + 1) <= Q PROVE q[j + (i + 1)] = r[i + 1]
    OBVIOUS
  <2>2. i \in Nat /\ j + i \in Nat /\ (j + i) + 1 = j + (i + 1) /\ i <= V /\ j + i <= Q
    BY <1>3, <2>1
  <2>3. q[j + i] = r[i]
    BY <2>2
  <2>4. q[(j + i) + 1] = ChunkStep(q[j + i]) /\ r[i + 1] = ChunkStep(r[i])
    BY <1>5, <1>6, <2>1, <2>2 DEF Run
  <2> QED
    BY <2>2, <2>3, <2>4
<1>14. B = Nat
  <2> HIDE DEF B
  <2>1. B \in SUBSET Nat
    BY DEF B
  <2> QED
    BY <1>12, <1>13, <2>1, AllNumbers
<1>15. q[Q] = r[V]
  <2>1. CASE j + V <= Q
    <3> DEFINE k == j + V
    <3>1. q[k] = r[V] /\ k \in 0..Q
      BY <1>3, <1>14, <2>1
    <3> HIDE DEF k
    <3>2. q[Q] = q[k]
      <4>1. ChunkStep(q[k]) = q[k]
        BY <1>7, <3>1
      <4> QED
        BY <1>3, <1>5, <3>1, <4>1, RunStays, SMTT(30)
    <3> QED
      BY <3>1, <3>2
  <2>2. CASE ~(j + V <= Q)
    <3>1. Q - j \in 0..V /\ j + (Q - j) = Q /\ Q - j \in Nat
      BY <1>3, <2>2
    <3>2. q[Q] = r[Q - j]
      BY <1>3, <1>14, <3>1
    <3> QED
      BY <1>3, <1>6, <1>7, <3>1, <3>2, RunStays, SMTT(30)
  <2> QED
    BY <2>1, <2>2
<1> QED
  BY <1>5, <1>6, <1>9, <1>15 DEF m, v

-----------------------------------------------------------------------------
(* The chain, from the body up to the first line.  Each stage has two      *)
(* parts: another limit changes nothing but the limit, and what a stage    *)
(* leaves unfinished goes on, with more characters, as if they had been    *)
(* there from the start.                                                   *)
Keeps(x, y) ==
    /\ Shape(y) /\ y.limit = x.limit /\ Len(y.buffer) <= Len(x.buffer)
    /\ y.headerBytes = x.headerBytes /\ y.req.headers = x.req.headers

LEMMA ParseBodyIs ==
    ASSUME NEW x, Shape(x), x.state = "body", x.error = 0,
           NEW u \in Seq(Tokens), NEW l \in Nat, NEW y, y = ParseBody(x)
    PROVE  /\ Keeps(x, y) /\ y.state = x.state
           /\ u = <<>> => ParseBody(More(x, u, l)) = More(y, u, l)
           /\ y.error = 0 /\ y.mode # "complete" =>
                ParseBody(More(y, u, l)) = ParseBody(More(x, u, l))
<1> DEFINE First(v) == IF v.mode = "uninitialized" THEN InitBody(v) ELSE v
           Second(v) == IF v.error # 0 THEN v
                        ELSE IF v.mode = "identity" THEN ParseIdentity(v)
                        ELSE IF v.mode \in {"size", "data", "crlf"} THEN ParseChunked(v)
                        ELSE v
           m == More(x, u, l)
           i == First(x)
           im == More(i, u, l)
<1>1. ASSUME NEW v PROVE ParseBody(v) = Second(First(v))
  <2> DEFINE w == First(v)
  <2>1. ParseBody(v) = IF w.error # 0 THEN w
                       ELSE CASE w.mode = "identity" -> ParseIdentity(w)
                              [] w.mode \in {"size", "data", "crlf"} -> ParseChunked(w)
                              [] OTHER -> w
    BY DEF ParseBody
  <2> SUFFICES ParseBody(v) = Second(w)
    BY DEF w
  <2> HIDE DEF w
  <2>2. CASE w.error # 0
    BY <2>1, <2>2
  <2>3. CASE w.error = 0 /\ w.mode = "identity"
    BY <2>1, <2>3
  <2>4. CASE w.error = 0 /\ w.mode \in {"size", "data", "crlf"}
    BY <2>1, <2>4
  <2>5. CASE w.error = 0 /\ w.mode \notin {"identity", "size", "data", "crlf"}
    BY <2>1, <2>5
  <2> QED
    BY <2>2, <2>3, <2>4, <2>5
<1>2. x.buffer \in Seq(Tokens) /\ Len(x.buffer) \in Nat
  BY DEF Shape
<1>3. /\ Shape(i) /\ i.limit = x.limit /\ i.buffer = x.buffer /\ i.state = x.state
      /\ i.req = x.req /\ i.headerBytes = x.headerBytes
      /\ i.error = 0 => i.mode # "uninitialized"
      /\ First(m) = im
  <2>1. m.mode = x.mode
    BY MoreIs DEF SameRest
  <2>2. CASE x.mode = "uninitialized"
    BY <2>1, <2>2, InitBodyIs
  <2>3. CASE x.mode # "uninitialized"
    BY <2>1, <2>3
  <2> QED
    BY <2>2, <2>3
<1>4. y = Second(i) /\ ParseBody(m) = Second(im)
  BY <1>1, <1>3
<1> HIDE DEF First, m, i
<1>5. Shape(im) /\ im.error = i.error /\ im.mode = i.mode
  BY <1>3, MoreIs DEF SameRest
<1> HIDE DEF im
<1>6. CASE i.error # 0
  <2>1. y = i /\ ParseBody(m) = im
    BY <1>4, <1>5, <1>6
  <2> QED
    BY <2>1, <1>2, <1>3, <1>6 DEF Keeps, m, im
<1>7. ASSUME i.error = 0, Shape(y), y.mode \notin {"uninitialized", "complete"}, y.error = 0
      PROVE  ParseBody(More(y, u, l)) = Second(More(y, u, l))
  <2>1. More(y, u, l).mode = y.mode
    BY <1>7, MoreIs DEF SameRest
  <2> QED
    BY <1>1, <1>7, <2>1 DEF First
<1>8. CASE i.error = 0 /\ i.mode = "identity"
  <2>1. y = ParseIdentity(i) /\ ParseBody(m) = ParseIdentity(im)
    BY <1>4, <1>5, <1>8
  <2>2. /\ Shape(y) /\ y.limit = i.limit /\ Len(y.buffer) <= Len(i.buffer)
        /\ y.state = i.state /\ y.req.headers = i.req.headers
        /\ y.headerBytes = i.headerBytes /\ y.error = i.error
        /\ y.mode \in {"identity", "complete"}
        /\ u = <<>> => ParseIdentity(im) = More(y, u, l)
        /\ y.mode # "complete" => ParseIdentity(More(y, u, l)) = ParseIdentity(im)
    BY <1>3, <1>8, <2>1, ParseIdentityIs DEF im
  <2>3. Keeps(x, y) /\ y.state = x.state
    BY <1>3, <2>2 DEF Keeps
  <2>4. ASSUME y.error = 0, y.mode # "complete"
        PROVE  ParseBody(More(y, u, l)) = ParseBody(m)
    <3>1. y.mode = "identity"
      BY <2>2, <2>4
    <3>2. More(y, u, l).mode = y.mode /\ More(y, u, l).error = y.error
      BY <2>2, MoreIs DEF SameRest
    <3>3. ParseBody(More(y, u, l)) = ParseIdentity(More(y, u, l))
      BY <1>7, <1>8, <2>2, <2>4, <3>1, <3>2
    <3> QED
      BY <2>1, <2>2, <2>4, <3>3
  <2> QED
    BY <2>1, <2>2, <2>3, <2>4 DEF m
<1>9. CASE i.error = 0 /\ i.mode \in {"size", "data", "crlf"}
  <2>1. y = ParseChunked(i) /\ ParseBody(m) = ParseChunked(im)
    BY <1>4, <1>5, <1>9
  <2>2. /\ Shape(y) /\ y.limit = i.limit /\ Len(y.buffer) <= Len(i.buffer)
        /\ y.state = i.state /\ y.req.headers = i.req.headers
        /\ y.headerBytes = i.headerBytes
        /\ y.mode \in {i.mode, "size", "data", "crlf", "complete"}
    BY <1>3, <2>1, ParseChunkedEnds
  <2>3. /\ u = <<>> => ParseChunked(im) = More(y, u, l)
        /\ ParseChunked(More(y, u, l)) = ParseChunked(im)
    BY <1>3, <2>1, ParseChunkedIs DEF im
  <2>4. Keeps(x, y) /\ y.state = x.state
    BY <1>3, <2>2 DEF Keeps
  <2>5. ASSUME y.error = 0, y.mode # "complete"
        PROVE  ParseBody(More(y, u, l)) = ParseBody(m)
    <3>1. y.mode \in {"size", "data", "crlf"}
      BY <1>9, <2>2, <2>5
    <3>2. More(y, u, l).mode = y.mode /\ More(y, u, l).error = y.error
      BY <2>2, MoreIs DEF SameRest
    <3>3. ParseBody(More(y, u, l)) = ParseChunked(More(y, u, l))
      BY <1>7, <1>9, <2>2, <2>5, <3>1, <3>2
    <3> QED
      BY <2>1, <2>3, <3>3
  <2> QED
    BY <2>1, <2>3, <2>4, <2>5 DEF m
<1>10. CASE i.error = 0 /\ i.mode \notin {"identity", "size", "data", "crlf"}
  <2>1. y = i /\ ParseBody(m) = im
    BY <1>4, <1>5, <1>10
  <2>2. i.mode = "complete"
    BY <1>3, <1>10 DEF Shape, Modes
  <2> QED
    BY <2>1, <2>2, <1>2, <1>3 DEF Keeps, m, im
<1> QED
  BY <1>6, <1>8, <1>9, <1>10

LEMMA CheckBodyIs ==
    ASSUME NEW x, Shape(x), NEW l \in Nat, NEW y, y = CheckBody(x)
    PROVE  /\ Keeps(x, y) /\ y.state = x.state
           /\ CheckBody(More(x, <<>>, l)) = More(y, <<>>, l)
<1> DEFINE none == <<>>
           long == Len(x.req.body) > MaxBody
           other == /\ Length \in DOMAIN x.req.headers
                    /\ ContentLength(x) # Some(Len(x.req.body))
           m == More(x, none, l)
<1>1. none \in Seq(Tokens)
  OBVIOUS
<1>2. x.buffer \in Seq(Tokens) /\ Len(x.buffer) \in Nat
  BY DEF Shape
<1>3. x.buffer \o none = x.buffer
  BY <1>2
<1>4. Shape(m) /\ m.req = x.req /\ m.buffer = x.buffer
  <2> HIDE DEF none
  <2> QED
    BY <1>1, <1>3, MoreIs DEF SameRest
<1>5. ContentLength(m) = ContentLength(x)
  <2> HIDE DEF m
  <2> QED
    BY <1>4 DEF ContentLength
<1>6. y = IF long THEN Fail(x, 413) ELSE IF x.buffer # none THEN Fail(x, 400)
          ELSE IF other THEN Fail(x, 400) ELSE x
  BY DEF CheckBody
<1>7. CheckBody(m) = IF long THEN Fail(m, 413) ELSE IF x.buffer # none THEN Fail(m, 400)
                     ELSE IF other THEN Fail(m, 400) ELSE m
  <2> HIDE DEF m
  <2> QED
    BY <1>4, <1>5 DEF CheckBody
<1> DEFINE bad == x.buffer # none
<1> HIDE DEF long, bad, other
<1>7a. (y = Fail(x, 413) /\ CheckBody(m) = Fail(m, 413))
       \/ (y = Fail(x, 400) /\ CheckBody(m) = Fail(m, 400))
       \/ (y = x /\ CheckBody(m) = m)
  <2> HIDE DEF m, none
  <2> QED
    BY <1>6, <1>7
<1> HIDE DEF none
<1>8. ASSUME NEW code \in Int
      PROVE  /\ Keeps(x, Fail(x, code)) /\ Fail(x, code).state = x.state
             /\ Fail(m, code) = More(Fail(x, code), none, l)
  BY <1>1, <1>2, <1>8, FailIs DEF Keeps
<1>9. Keeps(x, x)
  BY <1>2 DEF Keeps
<1>10. 413 \in Int /\ 400 \in Int
  OBVIOUS
<1>11. /\ Keeps(x, y) /\ y.state = x.state
       /\ CheckBody(m) = More(y, none, l)
  <2>1. CASE y = Fail(x, 413) /\ CheckBody(m) = Fail(m, 413)
    BY <2>1, <1>8, <1>10
  <2>2. CASE y = Fail(x, 400) /\ CheckBody(m) = Fail(m, 400)
    BY <2>2, <1>8, <1>10
  <2>3. CASE y = x /\ CheckBody(m) = m
    BY <2>3, <1>9
  <2> QED
    BY <1>7a, <2>1, <2>2, <2>3
<1> QED
  BY <1>11 DEF none

LEMMA EndBodyIs ==
    ASSUME NEW x, Shape(x), NEW l \in Nat, NEW y, y = EndBody(x)
    PROVE  /\ Keeps(x, y) /\ y.state \in {x.state, "complete"}
           /\ EndBody(More(x, <<>>, l)) = More(y, <<>>, l)
           /\ y.error = 0 /\ y.state # "complete" =>
                y = x /\ x.error = 0 /\ x.mode # "complete"
<1> DEFINE none == <<>>
           Whole(v) == [v EXCEPT !.state = "complete"]
           m == More(x, none, l)
           z == Whole(x)
<1>1. none \in Seq(Tokens)
  OBVIOUS
<1>2. x.buffer \in Seq(Tokens) /\ Len(x.buffer) \in Nat
  BY DEF Shape
<1> HIDE DEF none
<1>3. m.error = x.error /\ m.mode = x.mode
  BY <1>1, MoreIs DEF SameRest
<1>4. CASE x.error # 0 \/ x.mode # "complete"
  <2>1. y = x /\ EndBody(m) = m
    BY <1>3, <1>4 DEF EndBody
  <2>2. Keeps(x, x)
    BY <1>2 DEF Keeps
  <2>3. y.error = 0 => x.error = 0 /\ x.mode # "complete"
    BY <1>4, <2>1
  <2> QED
    BY <2>1, <2>2, <2>3 DEF none
<1>5. CASE x.error = 0 /\ x.mode = "complete"
  <2>1. y = CheckBody(z) /\ EndBody(m) = CheckBody(Whole(m))
    BY <1>3, <1>5 DEF EndBody
  <2>2. /\ Shape(z) /\ z.state = "complete" /\ z.buffer = x.buffer /\ z.limit = x.limit
        /\ z.headerBytes = x.headerBytes /\ z.req = x.req
    BY DEF Shape, Fields, States, Expects
  <2>3. Whole(m) = More(z, none, l)
    BY DEF Shape, Fields, More
  <2> HIDE DEF z, Whole, m
  <2>4. /\ Keeps(z, y) /\ y.state = z.state /\ CheckBody(More(z, none, l)) = More(y, none, l)
    BY <2>1, <2>2, CheckBodyIs DEF none
  <2>5. Keeps(x, y)
    BY <2>2, <2>4 DEF Keeps
  <2>6. EndBody(More(x, none, l)) = More(y, none, l)
    BY <2>1, <2>3, <2>4 DEF m
  <2> QED
    BY <2>2, <2>4, <2>5, <2>6 DEF none
<1> QED
  BY <1>4, <1>5

(* What a stage of the chain makes of x is unfinished: it waits for more. *)
Waits(y) == y.error = 0 /\ y.state # "complete"

LEMMA BodyGoesOn ==
    ASSUME NEW x, Shape(x), x.error = 0, x.state \in {"body", "complete"},
           NEW u \in Seq(Tokens), NEW l \in Nat, NEW y, y = Body(x)
    PROVE  /\ Keeps(x, y) /\ y.state \in {x.state, "complete"}
           /\ u = <<>> => Body(More(x, u, l)) = More(y, u, l)
           /\ Waits(y) => Body(More(y, u, l)) = Body(More(x, u, l))
<1> DEFINE m == More(x, u, l)
           w == ParseBody(x)
<1>1. m.state = x.state
  BY MoreIs DEF SameRest
<1>2. CASE x.state = "complete"
  <2>1. y = x /\ Body(m) = m
    BY <1>1, <1>2 DEF Body
  <2>2. Keeps(x, x)
    BY DEF Keeps, Shape
  <2> QED
    BY <2>1, <2>2, <1>2
<1>3. CASE x.state = "body"
  <2>1. y = EndBody(w) /\ Body(m) = EndBody(ParseBody(m))
    BY <1>1, <1>3 DEF Body
  <2>2. /\ Keeps(x, w) /\ w.state = x.state
        /\ u = <<>> => ParseBody(m) = More(w, u, l)
        /\ w.error = 0 /\ w.mode # "complete" => ParseBody(More(w, u, l)) = ParseBody(m)
    BY <1>3, ParseBodyIs
  <2> HIDE DEF w
  <2>3. /\ Keeps(w, y) /\ y.state \in {w.state, "complete"}
        /\ EndBody(More(w, <<>>, l)) = More(y, <<>>, l)
        /\ y.error = 0 /\ y.state # "complete" =>
                y = w /\ w.error = 0 /\ w.mode # "complete"
    BY <2>1, <2>2, EndBodyIs DEF Keeps
  <2>4. Keeps(x, y)
    <3>1. Shape(w) /\ Shape(y)
      BY <2>2, <2>3 DEF Keeps
    <3>2. Len(x.buffer) \in Nat /\ Len(w.buffer) \in Nat /\ Len(y.buffer) \in Nat
      BY <3>1, BufferIs
    <3> QED
      BY <2>2, <2>3, <3>2 DEF Keeps
  <2>5. ASSUME u = <<>> PROVE Body(m) = More(y, u, l)
    BY <2>1, <2>2, <2>3, <2>5
  <2>6. ASSUME Waits(y) PROVE Body(More(y, u, l)) = Body(m)
    <3>1. y = w /\ w.error = 0 /\ w.mode # "complete"
      BY <2>3, <2>6 DEF Waits
    <3>2. More(w, u, l).state = "body"
      BY <1>3, <2>2, MoreIs DEF SameRest, Keeps
    <3>3. Body(More(y, u, l)) = EndBody(ParseBody(More(w, u, l)))
      BY <3>1, <3>2 DEF Body
    <3> QED
      BY <3>1, <3>3, <2>1, <2>2
  <2> QED
    BY <2>2, <2>3, <2>4, <2>5, <2>6
<1> QED
  BY <1>2, <1>3

LEMMA LimitsGoOn ==
    ASSUME NEW x, Shape(x), x.error = 0, x.state \in {"body", "complete"},
           NEW u \in Seq(Tokens), NEW l \in Nat, NEW y, y = Limits(x)
    PROVE  /\ Keeps(x, y) /\ y.state \in {x.state, "complete"}
           /\ u = <<>> => Limits(More(x, u, l)) = More(y, u, l)
           /\ Waits(y) => Limits(More(y, u, l)) = Limits(More(x, u, l))
<1> DEFINE m == More(x, u, l)
           long(v) == v.headerBytes > MaxHeader
           counted(v) == Length \in DOMAIN v.req.headers
           no(v) == counted(v) /\ ~ContentLength(v).ok
           big(v) == counted(v) /\ ContentLength(v).value > MaxBody
<1>1. ASSUME NEW v
      PROVE  Limits(v) = IF long(v) THEN Fail(v, 431) ELSE IF no(v) THEN Fail(v, 400)
                         ELSE IF big(v) THEN Fail(v, 413) ELSE Body(v)
  BY DEF Limits
<1>2. ASSUME NEW v, NEW w, v.headerBytes = w.headerBytes, v.req.headers = w.req.headers
      PROVE  (long(v) <=> long(w)) /\ (no(v) <=> no(w)) /\ (big(v) <=> big(w))
  BY <1>2 DEF ContentLength
<1>3. /\ Shape(m) /\ m.headerBytes = x.headerBytes /\ m.req.headers = x.req.headers
  BY MoreIs DEF SameRest
<1>4. (long(m) <=> long(x)) /\ (no(m) <=> no(x)) /\ (big(m) <=> big(x))
  BY <1>2, <1>3
<1> HIDE DEF long, no, big
<1>5. ASSUME NEW code \in Int, code # 0, y = Fail(x, code), Limits(m) = Fail(m, code)
      PROVE  /\ Keeps(x, y) /\ y.state = x.state /\ ~Waits(y)
             /\ Limits(m) = More(y, u, l)
  <2>1. /\ Shape(y) /\ y.error = code
        /\ y.buffer = x.buffer /\ y.limit = x.limit
        /\ y.state = x.state /\ y.req = x.req
        /\ y.headerBytes = x.headerBytes
        /\ Fail(m, code) = More(y, u, l)
    BY <1>5, FailIs
  <2> HIDE DEF m
  <2>2. Len(x.buffer) \in Nat
    BY DEF Shape
  <2> QED
    BY <1>5, <2>1, <2>2 DEF Keeps, Waits
<1>6. 431 \in Int /\ 400 \in Int /\ 413 \in Int
  OBVIOUS
<1>7. CASE long(x)
  <2>1. y = Fail(x, 431) /\ Limits(m) = Fail(m, 431)
    BY <1>1, <1>4, <1>7
  <2> QED
    BY <2>1, <1>5, <1>6
<1>8. CASE ~long(x) /\ no(x)
  <2>1. y = Fail(x, 400) /\ Limits(m) = Fail(m, 400)
    BY <1>1, <1>4, <1>8
  <2> QED
    BY <2>1, <1>5, <1>6
<1>9. CASE ~long(x) /\ ~no(x) /\ big(x)
  <2>1. y = Fail(x, 413) /\ Limits(m) = Fail(m, 413)
    BY <1>1, <1>4, <1>9
  <2> QED
    BY <2>1, <1>5, <1>6
<1>10. CASE ~long(x) /\ ~no(x) /\ ~big(x)
  <2>1. y = Body(x) /\ Limits(m) = Body(m)
    BY <1>1, <1>4, <1>10
  <2>2. /\ Keeps(x, y) /\ y.state \in {x.state, "complete"}
        /\ u = <<>> => Body(m) = More(y, u, l)
        /\ Waits(y) => Body(More(y, u, l)) = Body(m)
    BY <2>1, BodyGoesOn
  <2>3. Limits(More(y, u, l)) = Body(More(y, u, l))
    <3> DEFINE v == More(y, u, l)
    <3>1. v.headerBytes = x.headerBytes /\ v.req.headers = x.req.headers
      BY <2>2, MoreIs DEF Keeps, SameRest
    <3> HIDE DEF v
    <3>2. ~long(v) /\ ~no(v) /\ ~big(v)
      BY <1>2, <1>10, <3>1
    <3>3. Limits(v) = Body(v)
      BY <1>1, <3>2
    <3> QED
      BY <3>3 DEF v
  <2> QED
    BY <2>1, <2>2, <2>3
<1> QED
  BY <1>7, <1>8, <1>9, <1>10

LEMMA HeadTo ==
    ASSUME NEW x, Shape(x), x.state = "head"
    PROVE  ParseHeaders(x).state \in {"head", "body", "complete"}
<1> DEFINE end == Find(x.buffer, CRLF \o CRLF)
           fields == FoldLeft(AddHeader, Empty, Pieces(UpTo(x.buffer, end), "\n"))
           next == IF {Length, Encoding} \cap DOMAIN fields.map # {} THEN "body"
                   ELSE "complete"
           y == [x EXCEPT !.req.headers = fields.map]
           z == [y EXCEPT !.buffer = From(@, end + 4), !.headerBytes = end + 3,
                          !.state = next]
<1>1. next \in {"body", "complete"}
  OBVIOUS
<1>2. ParseHeaders(x) \in {x, Fail(x, 431), Fail(y, 400), z}
  BY DEF ParseHeaders
<1>3. y.state = "head" /\ y = [f \in Fields |-> y[f]]
  BY DEF Shape, Fields
<1> HIDE DEF next, y, end
<1>4. Fail(y, 400).state = "head"
  BY <1>3 DEF Fail
<1>5. Fail(x, 431).state = "head"
  BY DEF Fail, Shape
<1>6. z.state \in {"body", "complete"}
  BY <1>1, <1>3 DEF Fields
<1> HIDE DEF z
<1> QED
  BY <1>2, <1>4, <1>5, <1>6

LEMMA LineTo ==
    ASSUME NEW x, Shape(x), x.state = "line"
    PROVE  ParseRequestLine(x).state \in {"line", "head"}
<1> DEFINE end == Find(x.buffer, CRLF)
           y == ParseLine(x, UpTo(x.buffer, end))
           z == [y EXCEPT !.buffer = From(@, end + 2), !.state = "head"]
<1>1. ParseRequestLine(x) \in
        {x, Fail(x, 431), Fail(x, 400), y, z}
  BY DEF ParseRequestLine
<1>2. Shape(y) /\ y.state = "line"
  <2>1. Shape(y)
    <3> DEFINE none == <<>>
               zero == 0
               line == UpTo(x.buffer, end)
    <3>1. none \in Seq(Tokens) /\ zero \in Nat
      OBVIOUS
    <3> HIDE DEF none, zero, line
    <3>2. Shape(ParseLine(x, line))
      BY <3>1, LineIs
    <3> QED
      BY <3>2 DEF line
  <2>2. y.state = "line"
    BY DEF ParseLine, WithTarget, Fail, Shape, Fields
  <2> QED
    BY <2>1, <2>2
<1> HIDE DEF y, end
<1>3. ASSUME NEW v, Shape(v) PROVE Fail(v, 400).state = v.state /\ Fail(v, 431).state = v.state
  BY <1>3 DEF Fail, Shape
<1>5. Fail(x, 431).state = "line" /\ Fail(x, 400).state = "line"
  BY <1>3
<1>4. z.state = "head"
  BY <1>2 DEF Shape, Fields
<1> HIDE DEF z
<1> QED
  BY <1>1, <1>2, <1>5, <1>4

LEMMA HeadGoesOn ==
    ASSUME NEW x, Shape(x), x.error = 0, x.state # "line", Len(x.buffer) <= x.limit,
           NEW u \in Seq(Tokens), NEW l \in Nat,
           \/ Len(x.buffer) + Len(u) <= l
           \/ x.state = "head" => Find(x.buffer, CRLF \o CRLF) # 0,
           NEW y, y = RequestHead(x)
    PROVE  /\ Shape(y) /\ y.limit = x.limit /\ Len(y.buffer) <= Len(x.buffer)
           /\ y.state # "line"
           /\ u = <<>> => RequestHead(More(x, u, l)) = More(y, u, l)
           /\ Waits(y) => RequestHead(More(y, u, l)) = RequestHead(More(x, u, l))
<1> DEFINE m == More(x, u, l)
           p == ParseHeaders(x)
<1>1. /\ Shape(m) /\ m.state = x.state /\ m.error = x.error
      /\ x.buffer \in Seq(Tokens) /\ Len(x.buffer) \in Nat
  BY MoreIs, BufferIs DEF SameRest
<1>2. ASSUME NEW v, Shape(v), v.error = 0, v.state \in {"body", "complete"}
      PROVE  RequestHead(v) = Limits(v)
  BY <1>2 DEF RequestHead
<1>3. ASSUME NEW v, Shape(v), v.error = 0, v.state \in {"body", "complete"},
             v.limit = x.limit, Len(v.buffer) <= Len(x.buffer),
             y = Limits(v), RequestHead(m) = Limits(More(v, u, l))
      PROVE  /\ Shape(y) /\ y.limit = x.limit /\ Len(y.buffer) <= Len(x.buffer)
             /\ y.state # "line"
             /\ u = <<>> => RequestHead(m) = More(y, u, l)
             /\ Waits(y) => RequestHead(More(y, u, l)) = RequestHead(m)
  <2>1. /\ Keeps(v, y) /\ y.state \in {v.state, "complete"}
        /\ u = <<>> => Limits(More(v, u, l)) = More(y, u, l)
        /\ Waits(y) => Limits(More(y, u, l)) = Limits(More(v, u, l))
    BY <1>3, LimitsGoOn
  <2>2. ASSUME Waits(y) PROVE RequestHead(More(y, u, l)) = Limits(More(y, u, l))
    <3> DEFINE w == More(y, u, l)
    <3>1. Shape(w) /\ w.error = y.error /\ w.state = y.state
      BY <2>1, MoreIs DEF SameRest, Keeps
    <3> HIDE DEF w
    <3>2. w.error = 0 /\ w.state \in {"body", "complete"}
      BY <1>3, <2>1, <2>2, <3>1 DEF Waits
    <3>3. RequestHead(w) = Limits(w)
      BY <1>2, <3>1, <3>2
    <3> QED
      BY <3>3 DEF w
  <2>3. Shape(y) /\ y.limit = x.limit /\ Len(y.buffer) <= Len(x.buffer)
    <3>1. Shape(y) /\ y.limit = v.limit /\ Len(y.buffer) <= Len(v.buffer)
      BY <2>1 DEF Keeps
    <3>2. Len(v.buffer) \in Nat /\ Len(y.buffer) \in Nat
      BY <1>3, <3>1, BufferIs
    <3> QED
      BY <3>1, <3>2, <1>1, <1>3
  <2> HIDE DEF m
  <2> QED
    BY <1>3, <2>1, <2>2, <2>3
<1>4. CASE x.state # "head"
  <2>1. x.state \in {"body", "complete"}
    BY <1>4 DEF Shape, States
  <2>2. y = Limits(x) /\ RequestHead(m) = Limits(m)
    BY <1>1, <1>2, <2>1
  <2> QED
    BY <1>1, <1>3, <2>1, <2>2
<1>5. CASE x.state = "head"
  <2>1. /\ Shape(p) /\ p.limit = x.limit /\ Len(p.buffer) <= Len(x.buffer)
        /\ p.error = 0 /\ p.state = "head" => p = x
        /\ u = <<>> \/ p # x => ParseHeaders(m) = More(p, u, l)
    BY <1>5, ParseHeadersIs
  <2>2. p.state \in {"head", "body", "complete"}
    BY <1>5, HeadTo
  <2>3. /\ y = IF p.error # 0 \/ p.state = "head" THEN p ELSE Limits(p)
        /\ RequestHead(m) = IF ParseHeaders(m).error # 0 \/ ParseHeaders(m).state = "head"
                            THEN ParseHeaders(m) ELSE Limits(ParseHeaders(m))
    BY <1>1, <1>5 DEF RequestHead
  <2>4. More(p, u, l).error = p.error /\ More(p, u, l).state = p.state
    BY <2>1, MoreIs DEF SameRest
  <2> HIDE DEF m, p
  <2>5. CASE p.error # 0
    <3>1. y = p /\ p # x
      BY <2>3, <2>5
    <3>2. RequestHead(m) = More(p, u, l)
      BY <2>1, <2>3, <2>4, <2>5, <3>1
    <3> QED
      BY <2>1, <2>2, <2>5, <3>1, <3>2 DEF Waits, m
  <2>6. CASE p.error = 0 /\ p.state = "head"
    <3>1. y = x
      BY <2>1, <2>3, <2>6
    <3>2. ASSUME u = <<>> PROVE RequestHead(m) = More(y, u, l)
      BY <2>1, <2>3, <2>4, <2>6, <3>1, <3>2
    <3> QED
      BY <1>1, <1>5, <3>1, <3>2 DEF m
  <2>7. CASE p.error = 0 /\ p.state # "head"
    <3>1. y = Limits(p) /\ p # x /\ p.state \in {"body", "complete"}
      BY <1>5, <2>2, <2>3, <2>7
    <3>2. RequestHead(m) = Limits(More(p, u, l))
      BY <2>1, <2>3, <2>4, <2>7, <3>1
    <3>3. /\ Shape(y) /\ y.limit = x.limit /\ Len(y.buffer) <= Len(x.buffer)
          /\ y.state # "line"
          /\ u = <<>> => RequestHead(m) = More(y, u, l)
          /\ Waits(y) => RequestHead(More(y, u, l)) = RequestHead(m)
      BY <1>3, <2>1, <2>7, <3>1, <3>2
    <3> QED
      BY <3>3 DEF m
  <2> QED
    BY <2>5, <2>6, <2>7
<1> QED
  BY <1>4, <1>5

LEMMA LineGoesOn ==
    ASSUME NEW x, Shape(x), x.error = 0, Len(x.buffer) <= x.limit,
           NEW u \in Seq(Tokens), NEW l \in Nat, Len(x.buffer) + Len(u) <= l,
           NEW y, y = RequestLine(x)
    PROVE  /\ Shape(y) /\ y.limit = x.limit /\ Len(y.buffer) <= Len(x.buffer)
           /\ u = <<>> => RequestLine(More(x, u, l)) = More(y, u, l)
           /\ Waits(y) => RequestLine(More(y, u, l)) = RequestLine(More(x, u, l))
<1> DEFINE m == More(x, u, l)
           p == ParseRequestLine(x)
<1>1. /\ Shape(m) /\ m.state = x.state /\ m.error = x.error
      /\ Len(x.buffer) \in Nat /\ Len(u) \in Nat /\ x.limit \in Nat
  <2>1. x.limit \in Nat /\ Len(u) \in Nat
    BY DEF Shape
  <2>2. Shape(m) /\ SameRest(m, x)
    BY MoreIs
  <2> QED
    BY <2>1, <2>2, BufferIs DEF SameRest
<1>2. ASSUME NEW v, v.error = 0, v.state # "line"
      PROVE  RequestLine(v) = RequestHead(v)
  BY <1>2 DEF RequestLine
<1>3. ASSUME NEW v, Shape(v), v.error = 0, v.state # "line",
             v.limit = x.limit, Len(v.buffer) <= Len(x.buffer),
             y = RequestHead(v), RequestLine(m) = RequestHead(More(v, u, l))
      PROVE  /\ Shape(y) /\ y.limit = x.limit /\ Len(y.buffer) <= Len(x.buffer)
             /\ u = <<>> => RequestLine(m) = More(y, u, l)
             /\ Waits(y) => RequestLine(More(y, u, l)) = RequestLine(m)
  <2>0. Len(v.buffer) \in Nat
    BY <1>3, BufferIs
  <2>1. Len(v.buffer) <= v.limit /\ Len(v.buffer) + Len(u) <= l
    BY <2>0, <1>1, <1>3
  <2>2. /\ Shape(y) /\ y.limit = v.limit /\ Len(y.buffer) <= Len(v.buffer)
        /\ y.state # "line"
        /\ u = <<>> => RequestHead(More(v, u, l)) = More(y, u, l)
        /\ Waits(y) => RequestHead(More(y, u, l)) = RequestHead(More(v, u, l))
    BY <1>3, <2>1, HeadGoesOn
  <2>3. ASSUME Waits(y) PROVE RequestLine(More(y, u, l)) = RequestHead(More(y, u, l))
    <3> DEFINE w == More(y, u, l)
    <3>1. w.error = y.error /\ w.state = y.state
      BY <2>2, MoreIs DEF SameRest
    <3> HIDE DEF w
    <3>2. w.error = 0 /\ w.state # "line"
      BY <2>2, <2>3, <3>1 DEF Waits
    <3>3. RequestLine(w) = RequestHead(w)
      BY <1>2, <3>2
    <3> QED
      BY <3>3 DEF w
  <2>4. Len(y.buffer) <= Len(x.buffer)
    <3>1. Len(y.buffer) \in Nat
      BY <2>2, BufferIs
    <3> QED
      BY <3>1, <2>0, <2>2, <1>1, <1>3
  <2> HIDE DEF m
  <2> QED
    BY <1>3, <2>2, <2>3, <2>4
<1>4. CASE x.state # "line"
  <2>1. y = RequestHead(x) /\ RequestLine(m) = RequestHead(m)
    BY <1>1, <1>2, <1>4
  <2> QED
    BY <1>1, <1>3, <1>4, <2>1
<1>5. CASE x.state = "line"
  <2>1. /\ Shape(p) /\ p.limit = x.limit /\ Len(p.buffer) <= Len(x.buffer)
        /\ p.error = 0 /\ p.state = "line" => p = x
        /\ u = <<>> \/ p # x => ParseRequestLine(m) = More(p, u, l)
    BY <1>5, ParseRequestLineIs
  <2>2. p.state \in {"line", "head"}
    BY <1>5, LineTo
  <2>3. /\ y = IF p.error # 0 \/ p.state = "line" THEN p ELSE RequestHead(p)
        /\ RequestLine(m) = IF \/ ParseRequestLine(m).error # 0
                               \/ ParseRequestLine(m).state = "line"
                            THEN ParseRequestLine(m) ELSE RequestHead(ParseRequestLine(m))
    BY <1>1, <1>5 DEF RequestLine
  <2>4. More(p, u, l).error = p.error /\ More(p, u, l).state = p.state
    BY <2>1, MoreIs DEF SameRest
  <2> HIDE DEF m, p
  <2>5. CASE p.error # 0
    <3>1. y = p
      BY <2>3, <2>5
    <3>2. ASSUME u = <<>> PROVE RequestLine(m) = More(p, u, l)
      BY <2>1, <2>3, <2>4, <2>5, <3>2
    <3> QED
      BY <2>1, <2>5, <3>1, <3>2 DEF Waits, m
  <2>6. CASE p.error = 0 /\ p.state = "line"
    <3>1. y = x
      BY <2>1, <2>3, <2>6
    <3>2. ASSUME u = <<>> PROVE RequestLine(m) = More(y, u, l)
      <4>1. ParseRequestLine(m) = More(p, u, l) /\ y = p
        BY <2>1, <2>3, <2>6, <3>2
      <4>2. ParseRequestLine(m).state = "line"
        BY <2>4, <2>6, <4>1
      <4> QED
        BY <2>3, <4>1, <4>2
    <3> QED
      BY <1>1, <1>5, <3>1, <3>2 DEF m
  <2>7. CASE p.error = 0 /\ p.state # "line"
    <3>1. y = RequestHead(p) /\ p # x
      BY <1>5, <2>3, <2>7
    <3>2. RequestLine(m) = RequestHead(More(p, u, l))
      BY <2>1, <2>3, <2>4, <2>7, <3>1
    <3>3. /\ Shape(y) /\ y.limit = x.limit /\ Len(y.buffer) <= Len(x.buffer)
          /\ u = <<>> => RequestLine(m) = More(y, u, l)
          /\ Waits(y) => RequestLine(More(y, u, l)) = RequestLine(m)
      BY <1>3, <2>1, <2>7, <3>1, <3>2
    <3> QED
      BY <3>3 DEF m
  <2> QED
    BY <2>5, <2>6, <2>7
<1> QED
  BY <1>4, <1>5

(* Under another limit the chain does the same, unless it refuses what is  *)
(* longer than that.                                                       *)
LEMMA LimitIs ==
    ASSUME NEW x, Shape(x), x.error = 0, Len(x.buffer) <= x.limit,
           NEW l \in Nat, NEW y, y = RequestLine(x),
           NEW z, z = RequestLine(More(x, <<>>, l))
    PROVE  \/ z = More(y, <<>>, l)
           \/ z.error = 431 /\ z.state # "complete" /\ Len(x.buffer) > l
<1> DEFINE none == <<>>
           m == More(x, none, l)
           end == Find(x.buffer, CRLF \o CRLF)
<1>1. none \in Seq(Tokens) /\ Len(none) = 0
  OBVIOUS
<1>2. x.buffer \in Seq(Tokens) /\ Len(x.buffer) \in Nat /\ x.buffer \o none = x.buffer
  BY BufferIs
<1> HIDE DEF none
<1>3. /\ Shape(m) /\ m.buffer = x.buffer /\ m.limit = l
      /\ m.state = x.state /\ m.error = x.error
  <2>1. /\ Shape(m) /\ m.buffer = x.buffer \o none /\ m.limit = l /\ SameRest(m, x)
    BY <1>1, MoreIs
  <2> HIDE DEF m
  <2>2. m.buffer = x.buffer
    BY <1>2, <2>1
  <2> QED
    BY <2>1, <2>2 DEF SameRest
<1>3a. ASSUME NEW code \in Int
       PROVE  Fail(m, code).error = code /\ Fail(m, code).state = x.state
  <2> HIDE DEF m
  <2> QED
    BY <1>1, <1>3, <1>3a, FailIs
<1>4. CASE Len(x.buffer) <= l
  <2>1. Len(x.buffer) + Len(none) <= l
    BY <1>1, <1>2, <1>4
  <2>2. none = <<>> => RequestLine(m) = More(y, none, l)
    BY <2>1, <1>1, LineGoesOn
  <2> QED
    BY <2>2 DEF none, m
<1>5. CASE Len(x.buffer) > l
  <2>1. CASE x.state = "line"
    <3>1. ParseRequestLine(m) = Fail(m, 431)
      BY <1>3, <1>5 DEF ParseRequestLine
    <3> HIDE DEF m
    <3>2. Fail(m, 431).error = 431 /\ Fail(m, 431).state # "complete"
      BY <1>3a, <2>1
    <3>3. RequestLine(m) = Fail(m, 431)
      BY <1>3, <2>1, <3>1, <3>2 DEF RequestLine
    <3> QED
      BY <1>5, <3>2, <3>3 DEF m, none
  <2>2. CASE x.state = "head" /\ end = 0
    <3> HIDE DEF m
    <3>1. ParseHeaders(m) = Fail(m, 431)
      BY <1>3, <1>5, <2>2 DEF ParseHeaders
    <3>2. Fail(m, 431).error = 431 /\ Fail(m, 431).state # "complete"
      BY <1>3a, <2>2
    <3>3. RequestLine(m) = Fail(m, 431)
      BY <1>3, <2>2, <3>1, <3>2 DEF RequestLine, RequestHead
    <3> QED
      BY <1>5, <3>2, <3>3 DEF m, none
  <2>3. CASE x.state # "line" /\ ~(x.state = "head" /\ end = 0)
    <3>1. y = RequestHead(x) /\ RequestLine(m) = RequestHead(m)
      BY <1>3, <2>3 DEF RequestLine
    <3>2. x.state = "head" => end # 0
      BY <2>3
    <3> HIDE DEF end
    <3>3. none = <<>> => RequestHead(m) = More(y, none, l)
      BY <1>1, <2>3, <3>1, <3>2, HeadGoesOn DEF end
    <3> QED
      BY <3>1, <3>3 DEF none, m
  <2> QED
    BY <2>1, <2>2, <2>3
<1> QED
  <2>1. l \in Nat /\ Len(x.buffer) \in Nat
    BY <1>2
  <2> QED
    BY <2>1, <1>4, <1>5

-----------------------------------------------------------------------------
(* However it is cut.  A parser that has read nothing, given a text. *)
Fresh(text) == [New(SizeMax) EXCEPT !.buffer = text]

LEMMA NoHeaders == <<>> \in Headers
<1> DEFINE none == <<>>
<1>1. none \in Seq(Seq(Tokens)) /\ Len(none) = 0
  BY EmptySeq
<1> HIDE DEF none
<1>2. none \in [1..0 -> Seq(Tokens)]
  BY <1>1, LenProperties
<1>3. 1..0 = {} /\ {} \in SUBSET Seq(Tokens)
  OBVIOUS
<1>4. none \in Headers
  BY <1>2, <1>3, Zenon DEF Headers
<1> QED
  BY <1>4 DEF none

LEMMA FreshIs ==
    ASSUME NEW t \in Seq(Tokens), NEW x, x = Fresh(t)
    PROVE  /\ Shape(x) /\ x.error = 0 /\ x.buffer = t /\ x.limit = SizeMax
           /\ x.state = "line"
<1> DEFINE none == <<>>
           r == [method |-> none, path |-> none, version |-> none, query |-> none,
                 headers |-> none, body |-> none]
<1>1. none \in Seq(Tokens) /\ none \in Headers
  BY NoHeaders
<1>2. r = [p \in Parts |-> r[p]] /\ r.body = none /\ r.headers = none
  BY DEF Parts
<1>3. x = [buffer |-> t, state |-> "line", error |-> 0, limit |-> SizeMax, headerBytes |-> 0,
           mode |-> "uninitialized", left |-> 0, chunk |-> 0, req |-> r]
  BY DEF Fresh, New
<1> HIDE DEF none, r
<1>4. /\ x.error = 0 /\ x.buffer = t /\ x.limit = SizeMax /\ x.state = "line"
      /\ x.mode = "uninitialized" /\ x.left = 0 /\ x.chunk = 0 /\ x.req = r
  BY <1>3
<1>5. x = [f \in Fields |-> x[f]]
  BY <1>3 DEF Fields
<1>6. SizeMax \in Nat /\ "line" \in States /\ "uninitialized" \in Modes
  BY NumbersAssumption DEF States, Modes
<1>7. Expects(x.state, x.req)
  BY <1>4 DEF Expects
<1> QED
  BY <1>1, <1>2, <1>4, <1>5, <1>6, <1>7 DEF Shape

LEMMA FreshMore ==
    ASSUME NEW t \in Seq(Tokens), NEW u \in Seq(Tokens)
    PROVE  Fresh(t \o u) = More(Fresh(t), u, SizeMax)
<1> DEFINE a == t \o u
<1>1. a \in Seq(Tokens)
  OBVIOUS
<1>2. \A p, q : SameRest(Fresh(p), Fresh(q))
  BY DEF Fresh, New, SameRest
<1>3. SizeMax \in Nat
  BY NumbersAssumption
<1>4. /\ Shape(Fresh(t)) /\ Fresh(t).buffer = t
      /\ Shape(Fresh(a)) /\ Fresh(a).buffer = a /\ Fresh(a).limit = SizeMax
  <2> HIDE DEF a
  <2> QED
    BY <1>1, FreshIs
<1> QED
  BY <1>2, <1>3, <1>4, IsMore

(* What has been made of the first part of a text, with the rest. *)
LEMMA WholeGoesOn ==
    ASSUME NEW t \in Seq(Tokens), NEW u \in Seq(Tokens), Len(t) + Len(u) <= SizeMax,
           NEW y, y = RequestLine(Fresh(t))
    PROVE  /\ Shape(y) /\ y.limit = SizeMax /\ Len(y.buffer) <= Len(t)
           /\ Waits(y) => RequestLine(More(y, u, SizeMax)) = RequestLine(Fresh(t \o u))
<1> DEFINE x == Fresh(t)
<1>1. Shape(x) /\ x.error = 0 /\ x.buffer = t /\ x.limit = SizeMax
  BY FreshIs
<1>2. RequestLine(Fresh(t \o u)) = RequestLine(More(x, u, SizeMax))
  BY FreshMore
<1>3. SizeMax \in Nat /\ Len(t) \in Nat /\ Len(u) \in Nat
  BY NumbersAssumption
<1>4. y = RequestLine(x)
  OBVIOUS
<1> HIDE DEF x
<1>5. Len(x.buffer) <= x.limit /\ Len(x.buffer) + Len(u) <= SizeMax
  BY <1>1, <1>3
<1>6. /\ Shape(y) /\ y.limit = x.limit /\ Len(y.buffer) <= Len(x.buffer)
      /\ Waits(y) => RequestLine(More(y, u, SizeMax)) = RequestLine(More(x, u, SizeMax))
  BY <1>1, <1>3, <1>4, <1>5, LineGoesOn
<1> QED
  BY <1>1, <1>2, <1>6

LEMMA NothingYet == RequestLine(Fresh(<<>>)) = Fresh(<<>>)
<1> DEFINE none == <<>>
           x == Fresh(none)
<1>1. none \in Seq(Tokens) /\ Len(none) = 0
  OBVIOUS
<1>2. /\ CRLF \in Seq(Tokens) /\ Len(CRLF) = 2 /\ Len(CRLF) > 0
  BY CRLFIs
<1> HIDE DEF none
<1>3. Shape(x) /\ x.error = 0 /\ x.buffer = none /\ x.limit = SizeMax /\ x.state = "line"
  BY <1>1, FreshIs
<1> DEFINE end == Find(none, CRLF)
<1>4. end \in Nat /\ (end # 0 => end \in 1..(Len(none) - Len(CRLF) + 1))
  BY <1>1, <1>2, FindIs
<1> HIDE DEF end
<1>5. end = 0
  BY <1>1, <1>2, <1>4
<1>6. SizeMax \in Nat
  BY NumbersAssumption
<1> HIDE DEF x
<1>7. ParseRequestLine(x) = x
  BY <1>1, <1>3, <1>5, <1>6 DEF ParseRequestLine, end
<1>8. RequestLine(x) = x
  BY <1>3, <1>7 DEF RequestLine
<1> QED
  BY <1>8 DEF x, none

-----------------------------------------------------------------------------
(* What no more is wanted of. *)
(* What is complete or refused stays what it was, or is refused for what   *)
(* comes after it.                                                         *)
Final(y, z, u, l) ==
    \/ z = More(y, u, l)
    \/ y.error = 0 /\ z = Fail(More(y, u, l), 400)

LEMMA ChunksEnd ==
    ASSUME NEW x, Shape(x), NEW u \in Seq(Tokens), NEW l \in Nat, NEW y, y = ParseChunked(x),
           y.error # 0 \/ y.mode = "complete"
    PROVE  ParseChunked(More(x, u, l)) = More(y, u, l)
<1> DEFINE v == More(y, u, l)
           N == Len(v.buffer)
<1>1. Shape(y)
  BY ParseChunkedEnds
<1>2. Shape(v) /\ v.error = y.error /\ v.mode = y.mode
  BY <1>1, MoreIs DEF SameRest
<1>3. ParseChunked(v) = ParseChunked(More(x, u, l))
  BY ParseChunkedIs
<1> HIDE DEF v
<1>4. ChunkStep(v) = v
  BY <1>2 DEF ChunkStep
<1>5. N \in Nat
  BY <1>2, BufferIs
<1>6. PICK p : Run(p, v, N) /\ ParseChunked(v) = p[N]
  BY <1>2, ParseChunkedRuns
<1> HIDE DEF N
<1>7. p[0] = v /\ 0 \in 0..N
  BY <1>5, <1>6 DEF Run
<1>8. ChunkStep(p[0]) = p[0]
  BY <1>4, <1>7
<1>9. p[N] = p[0]
  BY <1>5, <1>6, <1>7, <1>8, RunStays
<1> QED
  BY <1>3, <1>6, <1>7, <1>9 DEF v

LEMMA BodyEnds ==
    ASSUME NEW x, Shape(x), x.state = "body", x.error = 0,
           NEW u \in Seq(Tokens), NEW l \in Nat, NEW y, y = ParseBody(x),
           y.error # 0 \/ y.mode = "complete"
    PROVE  ParseBody(More(x, u, l)) = More(y, u, l)
<1> DEFINE First(v) == IF v.mode = "uninitialized" THEN InitBody(v) ELSE v
           m == More(x, u, l)
           i == First(x)
           im == More(i, u, l)
<1>1. ASSUME NEW v, NEW w, w = First(v)
      PROVE  /\ w.error # 0 => ParseBody(v) = w
             /\ w.error = 0 /\ w.mode = "identity" => ParseBody(v) = ParseIdentity(w)
             /\ w.error = 0 /\ w.mode \in {"size", "data", "crlf"} => ParseBody(v) = ParseChunked(w)
             /\ w.error = 0 /\ w.mode \notin {"identity", "size", "data", "crlf"}
                  => ParseBody(v) = w
  <2>1. ParseBody(v) = IF w.error # 0 THEN w
                       ELSE CASE w.mode = "identity" -> ParseIdentity(w)
                              [] w.mode \in {"size", "data", "crlf"} -> ParseChunked(w)
                              [] OTHER -> w
    BY <1>1 DEF ParseBody
  <2> HIDE DEF First
  <2>2. w.error # 0 => ParseBody(v) = w
    BY <2>1
  <2>3. w.error = 0 /\ w.mode = "identity" => ParseBody(v) = ParseIdentity(w)
    BY <2>1
  <2>4. w.error = 0 /\ w.mode \in {"size", "data", "crlf"} => ParseBody(v) = ParseChunked(w)
    BY <2>1
  <2>5. w.error = 0 /\ w.mode \notin {"identity", "size", "data", "crlf"} => ParseBody(v) = w
    BY <2>1
  <2> QED
    BY <2>2, <2>3, <2>4, <2>5
<1>2. Shape(i) /\ First(m) = im
  <2>1. m.mode = x.mode
    BY MoreIs DEF SameRest
  <2>2. CASE x.mode = "uninitialized"
    BY <2>1, <2>2, InitBodyIs
  <2>3. CASE x.mode # "uninitialized"
    BY <2>1, <2>3
  <2> QED
    BY <2>2, <2>3
<1>3. Shape(im) /\ im.error = i.error /\ im.mode = i.mode
  <2> HIDE DEF i
  <2> QED
    BY <1>2, MoreIs DEF SameRest
<1>4. i = First(x) /\ im = First(m)
  BY <1>2
<1> SUFFICES ParseBody(m) = More(y, u, l)
  OBVIOUS
<1> HIDE DEF First, m, i
<1>5. CASE i.error # 0
  <2>1. y = i /\ ParseBody(m) = im
    BY <1>1, <1>3, <1>4, <1>5
  <2> QED
    BY <2>1
<1> HIDE DEF im
<1>6. CASE i.error = 0 /\ i.mode = "identity"
  <2>1. y = ParseIdentity(i) /\ ParseBody(m) = ParseIdentity(im)
    BY <1>1, <1>3, <1>4, <1>6
  <2>2. /\ y.error = i.error
        /\ y.mode = "complete" /\ i.mode # "complete" => ParseIdentity(im) = More(y, u, l)
    BY <1>2, <2>1, ParseIdentityIs DEF im
  <2> QED
    BY <1>6, <2>1, <2>2
<1>7. CASE i.error = 0 /\ i.mode \in {"size", "data", "crlf"}
  <2>1. y = ParseChunked(i) /\ ParseBody(m) = ParseChunked(im)
    BY <1>1, <1>3, <1>4, <1>7
  <2>2. ParseChunked(im) = More(y, u, l)
    BY <1>2, <2>1, ChunksEnd DEF im
  <2> QED
    BY <2>1, <2>2
<1>8. CASE i.error = 0 /\ i.mode \notin {"identity", "size", "data", "crlf"}
  <2>1. y = i /\ ParseBody(m) = im
    BY <1>1, <1>3, <1>4, <1>8
  <2> QED
    BY <2>1 DEF im
<1> QED
  BY <1>5, <1>6, <1>7, <1>8

(* What comes after a body is refused, if the body was not. *)
LEMMA CheckBodyEnds ==
    ASSUME NEW x, Shape(x), x.error = 0, NEW u \in Seq(Tokens), NEW l \in Nat,
           NEW y, y = CheckBody(x)
    PROVE  Final(y, CheckBody(More(x, u, l)), u, l)
<1> DEFINE long == Len(x.req.body) > MaxBody
           after == x.buffer # <<>>
           next == x.buffer \o u # <<>>
           other == /\ Length \in DOMAIN x.req.headers
                    /\ ContentLength(x) # Some(Len(x.req.body))
           m == More(x, u, l)
<1>1. Shape(m) /\ m.req = x.req /\ m.buffer = x.buffer \o u
  BY MoreIs DEF SameRest
<1>2. x.buffer \in Seq(Tokens)
  BY BufferIs
<1>3. (after => next) /\ (u = <<>> => (next <=> after))
  BY <1>2
<1>4. ContentLength(m) = ContentLength(x)
  <2> HIDE DEF m
  <2> QED
    BY <1>1 DEF ContentLength
<1>5. y = IF long THEN Fail(x, 413) ELSE IF after THEN Fail(x, 400)
          ELSE IF other THEN Fail(x, 400) ELSE x
  BY DEF CheckBody
<1>6. CheckBody(m) = IF long THEN Fail(m, 413) ELSE IF next THEN Fail(m, 400)
                     ELSE IF other THEN Fail(m, 400) ELSE m
  <2> HIDE DEF m
  <2> QED
    BY <1>1, <1>4 DEF CheckBody
<1> HIDE DEF long, after, next, other, m
<1>7. \/ y = Fail(x, 413) /\ CheckBody(m) = Fail(m, 413)
      \/ y = Fail(x, 400) /\ CheckBody(m) = Fail(m, 400)
      \/ y = x /\ CheckBody(m) = m
      \/ y = x /\ CheckBody(m) = Fail(m, 400)
  BY <1>3, <1>5, <1>6
<1>8. ASSUME NEW code \in Int PROVE Fail(m, code) = More(Fail(x, code), u, l)
  BY <1>8, FailIs DEF m
<1>9. 413 \in Int /\ 400 \in Int
  OBVIOUS
<1>10. CASE y = Fail(x, 413) /\ CheckBody(m) = Fail(m, 413)
  BY <1>8, <1>9, <1>10 DEF Final, m
<1>11. CASE y = Fail(x, 400) /\ CheckBody(m) = Fail(m, 400)
  BY <1>8, <1>9, <1>11 DEF Final, m
<1>12. CASE y = x /\ CheckBody(m) = m
  BY <1>12 DEF Final, m
<1>13. CASE y = x /\ CheckBody(m) = Fail(m, 400)
  BY <1>13 DEF Final, m
<1> QED
  BY <1>7, <1>10, <1>11, <1>12, <1>13

LEMMA EndBodyEnds ==
    ASSUME NEW x, Shape(x), x.error # 0 \/ x.mode = "complete",
           NEW u \in Seq(Tokens), NEW l \in Nat, NEW y, y = EndBody(x)
    PROVE  Final(y, EndBody(More(x, u, l)), u, l)
<1> DEFINE All(v) == [v EXCEPT !.state = "complete"]
           m == More(x, u, l)
           z == All(x)
<1>1. m.error = x.error /\ m.mode = x.mode
  BY MoreIs DEF SameRest
<1>2. CASE x.error # 0
  BY <1>1, <1>2 DEF EndBody, Final
<1>3. CASE x.error = 0 /\ x.mode = "complete"
  <2>1. y = CheckBody(z) /\ EndBody(m) = CheckBody(All(m))
    BY <1>1, <1>3 DEF EndBody
  <2>2. Shape(z) /\ z.error = x.error
    BY DEF Shape, Fields, States, Expects
  <2>3. All(m) = More(z, u, l)
    BY DEF Shape, Fields, More
  <2> HIDE DEF z, All, m
  <2>4. Final(y, CheckBody(More(z, u, l)), u, l)
    BY <1>3, <2>1, <2>2, CheckBodyEnds
  <2> QED
    BY <2>1, <2>3, <2>4 DEF m
<1> QED
  BY <1>2, <1>3

LEMMA BodyIsFinal ==
    ASSUME NEW x, Shape(x), x.error = 0, x.state \in {"body", "complete"},
           NEW u \in Seq(Tokens), NEW l \in Nat, NEW y, y = Body(x), ~Waits(y)
    PROVE  Final(y, Body(More(x, u, l)), u, l)
<1> DEFINE m == More(x, u, l)
           w == ParseBody(x)
<1>1. m.state = x.state
  BY MoreIs DEF SameRest
<1>2. CASE x.state = "complete"
  BY <1>1, <1>2 DEF Body, Final
<1>3. CASE x.state = "body"
  <2>1. y = EndBody(w) /\ Body(m) = EndBody(ParseBody(m))
    BY <1>1, <1>3 DEF Body
  <2>2. Shape(w) /\ w.state = x.state
    BY <1>3, ParseBodyIs DEF Keeps
  <2>3. w.error # 0 \/ w.mode = "complete"
    <3>1. ASSUME w.error = 0, w.mode # "complete" PROVE Waits(y)
      <4> HIDE DEF w
      <4>1. y = w
        BY <2>1, <3>1 DEF EndBody
      <4> QED
        BY <1>3, <2>2, <3>1, <4>1 DEF Waits
    <3> QED
      BY <3>1
  <2>4. ParseBody(m) = More(w, u, l)
    BY <1>3, <2>3, BodyEnds
  <2> HIDE DEF w, m
  <2>5. Final(y, EndBody(More(w, u, l)), u, l)
    BY <2>1, <2>2, <2>3, EndBodyEnds
  <2> QED
    BY <2>1, <2>4, <2>5 DEF m
<1> QED
  BY <1>2, <1>3

LEMMA LimitsAreFinal ==
    ASSUME NEW x, Shape(x), x.error = 0, x.state \in {"body", "complete"},
           NEW u \in Seq(Tokens), NEW l \in Nat, NEW y, y = Limits(x), ~Waits(y)
    PROVE  Final(y, Limits(More(x, u, l)), u, l)
<1> DEFINE m == More(x, u, l)
           long(v) == v.headerBytes > MaxHeader
           counted(v) == Length \in DOMAIN v.req.headers
           no(v) == counted(v) /\ ~ContentLength(v).ok
           big(v) == counted(v) /\ ContentLength(v).value > MaxBody
<1>1. ASSUME NEW v
      PROVE  Limits(v) = IF long(v) THEN Fail(v, 431) ELSE IF no(v) THEN Fail(v, 400)
                         ELSE IF big(v) THEN Fail(v, 413) ELSE Body(v)
  BY DEF Limits
<1>2. Shape(m) /\ m.headerBytes = x.headerBytes /\ m.req.headers = x.req.headers
  BY MoreIs DEF SameRest
<1>3. (long(m) <=> long(x)) /\ (no(m) <=> no(x)) /\ (big(m) <=> big(x))
  <2> HIDE DEF m
  <2> QED
    BY <1>2 DEF ContentLength
<1> HIDE DEF long, no, big
<1>4. ASSUME NEW code \in Int, y = Fail(x, code), Limits(m) = Fail(m, code)
      PROVE  Final(y, Limits(m), u, l)
  <2>1. Fail(m, code) = More(Fail(x, code), u, l)
    BY FailIs
  <2> HIDE DEF m
  <2> QED
    BY <1>4, <2>1 DEF Final
<1>5. 431 \in Int /\ 400 \in Int /\ 413 \in Int
  OBVIOUS
<1>6. CASE long(x)
  <2>1. y = Fail(x, 431) /\ Limits(m) = Fail(m, 431)
    BY <1>1, <1>3, <1>6
  <2> QED
    BY <2>1, <1>4, <1>5
<1>7. CASE ~long(x) /\ no(x)
  <2>1. y = Fail(x, 400) /\ Limits(m) = Fail(m, 400)
    BY <1>1, <1>3, <1>7
  <2> QED
    BY <2>1, <1>4, <1>5
<1>8. CASE ~long(x) /\ ~no(x) /\ big(x)
  <2>1. y = Fail(x, 413) /\ Limits(m) = Fail(m, 413)
    BY <1>1, <1>3, <1>8
  <2> QED
    BY <2>1, <1>4, <1>5
<1>9. CASE ~long(x) /\ ~no(x) /\ ~big(x)
  <2>1. y = Body(x) /\ Limits(m) = Body(m)
    BY <1>1, <1>3, <1>9
  <2> QED
    BY <2>1, BodyIsFinal
<1> QED
  BY <1>6, <1>7, <1>8, <1>9

LEMMA HeadIsFinal ==
    ASSUME NEW x, Shape(x), x.error = 0, x.state # "line", Len(x.buffer) <= x.limit,
           NEW u \in Seq(Tokens), NEW l \in Nat, Len(x.buffer) + Len(u) <= l,
           NEW y, y = RequestHead(x), ~Waits(y)
    PROVE  Final(y, RequestHead(More(x, u, l)), u, l)
<1> DEFINE m == More(x, u, l)
           p == ParseHeaders(x)
<1>1. m.state = x.state /\ m.error = x.error
  BY MoreIs DEF SameRest
<1>2. CASE x.state # "head"
  <2>1. x.state \in {"body", "complete"}
    BY <1>2 DEF Shape, States
  <2>2. y = Limits(x) /\ RequestHead(m) = Limits(m)
    BY <1>1, <1>2 DEF RequestHead
  <2> QED
    BY <2>1, <2>2, LimitsAreFinal
<1>3. CASE x.state = "head"
  <2>1. /\ Shape(p)
        /\ p.error = 0 /\ p.state = "head" => p = x
        /\ p # x => ParseHeaders(m) = More(p, u, l)
    BY <1>3, ParseHeadersIs
  <2>2. p.state \in {"head", "body", "complete"}
    BY <1>3, HeadTo
  <2>3. /\ y = IF p.error # 0 \/ p.state = "head" THEN p ELSE Limits(p)
        /\ RequestHead(m) = IF ParseHeaders(m).error # 0 \/ ParseHeaders(m).state = "head"
                            THEN ParseHeaders(m) ELSE Limits(ParseHeaders(m))
    BY <1>1, <1>3 DEF RequestHead
  <2>4. More(p, u, l).error = p.error /\ More(p, u, l).state = p.state
    BY <2>1, MoreIs DEF SameRest
  <2> HIDE DEF p, m
  <2>5. CASE p.error # 0
    <3>1. y = p /\ p # x
      BY <2>3, <2>5
    <3>2. RequestHead(m) = More(p, u, l)
      BY <2>1, <2>3, <2>4, <2>5, <3>1
    <3> QED
      BY <3>1, <3>2 DEF Final, m
  <2>6. CASE p.error = 0 /\ p.state = "head"
    <3>1. y = x
      BY <2>1, <2>3, <2>6
    <3> QED
      BY <1>3, <3>1 DEF Waits
  <2>7. CASE p.error = 0 /\ p.state # "head"
    <3>1. y = Limits(p) /\ p # x /\ p.state \in {"body", "complete"}
      BY <1>3, <2>2, <2>3, <2>7
    <3>2. RequestHead(m) = Limits(More(p, u, l))
      BY <2>1, <2>3, <2>4, <2>7, <3>1
    <3>3. Final(y, Limits(More(p, u, l)), u, l)
      BY <2>1, <2>7, <3>1, LimitsAreFinal
    <3> QED
      BY <3>2, <3>3 DEF m
  <2> QED
    BY <2>5, <2>6, <2>7
<1> QED
  BY <1>2, <1>3

LEMMA LineIsFinal ==
    ASSUME NEW x, Shape(x), x.error = 0, x.state = "line", Len(x.buffer) <= x.limit,
           NEW u \in Seq(Tokens), NEW l \in Nat, Len(x.buffer) + Len(u) <= l,
           NEW y, y = RequestLine(x), ~Waits(y)
    PROVE  Final(y, RequestLine(More(x, u, l)), u, l)
<1> DEFINE m == More(x, u, l)
           p == ParseRequestLine(x)
<1>1. m.state = x.state /\ m.error = x.error
  BY MoreIs DEF SameRest
<1>2. /\ Shape(p) /\ p.limit = x.limit /\ Len(p.buffer) <= Len(x.buffer)
      /\ p.error = 0 /\ p.state = "line" => p = x
      /\ p # x => ParseRequestLine(m) = More(p, u, l)
  BY ParseRequestLineIs
<1>3. p.state \in {"line", "head"}
  BY LineTo
<1>4. /\ y = IF p.error # 0 \/ p.state = "line" THEN p ELSE RequestHead(p)
      /\ RequestLine(m) = IF \/ ParseRequestLine(m).error # 0
                             \/ ParseRequestLine(m).state = "line"
                          THEN ParseRequestLine(m) ELSE RequestHead(ParseRequestLine(m))
  BY <1>1 DEF RequestLine
<1>5. More(p, u, l).error = p.error /\ More(p, u, l).state = p.state
  BY <1>2, MoreIs DEF SameRest
<1> HIDE DEF p, m
<1>6. CASE p.error # 0
  <2>1. y = p /\ p # x
    BY <1>4, <1>6
  <2>2. RequestLine(m) = More(p, u, l)
    BY <1>2, <1>4, <1>5, <1>6, <2>1
  <2> QED
    BY <2>1, <2>2 DEF Final, m
<1>7. CASE p.error = 0 /\ p.state = "line"
  <2>1. y = x
    BY <1>2, <1>4, <1>7
  <2> QED
    BY <2>1 DEF Waits
<1>8. CASE p.error = 0 /\ p.state = "head"
  <2>1. y = RequestHead(p) /\ p # x
    BY <1>4, <1>8
  <2>2. RequestLine(m) = RequestHead(More(p, u, l))
    BY <1>2, <1>4, <1>5, <1>8, <2>1
  <2>3. Len(p.buffer) <= p.limit /\ Len(p.buffer) + Len(u) <= l
    <3>1. Len(p.buffer) \in Nat /\ Len(x.buffer) \in Nat /\ Len(u) \in Nat /\ x.limit \in Nat
      BY <1>2, BufferIs DEF Shape
    <3> QED
      BY <1>2, <3>1
  <2>4. Final(y, RequestHead(More(p, u, l)), u, l)
    BY <1>2, <1>8, <2>1, <2>3, HeadIsFinal
  <2> QED
    BY <2>2, <2>4 DEF m
<1> QED
  BY <1>3, <1>6, <1>7, <1>8

(* What has been made of the first part of a text, if it wants no more. *)
LEMMA WholeIsFinal ==
    ASSUME NEW t \in Seq(Tokens), NEW u \in Seq(Tokens), Len(t) + Len(u) <= SizeMax,
           NEW y, y = RequestLine(Fresh(t)), ~Waits(y)
    PROVE  Final(y, RequestLine(Fresh(t \o u)), u, SizeMax)
<1> DEFINE x == Fresh(t)
<1>1. Shape(x) /\ x.error = 0 /\ x.buffer = t /\ x.limit = SizeMax /\ x.state = "line"
  BY FreshIs
<1>2. RequestLine(Fresh(t \o u)) = RequestLine(More(x, u, SizeMax))
  BY FreshMore
<1>3. SizeMax \in Nat /\ Len(t) \in Nat /\ Len(u) \in Nat
  BY NumbersAssumption
<1>4. y = RequestLine(x)
  OBVIOUS
<1> HIDE DEF x
<1>5. Len(x.buffer) <= x.limit /\ Len(x.buffer) + Len(u) <= SizeMax
  BY <1>1, <1>3
<1>6. Final(y, RequestLine(More(x, u, SizeMax)), u, SizeMax)
  BY <1>1, <1>3, <1>4, <1>5, LineIsFinal
<1> QED
  BY <1>2, <1>6

(* A request line and a header each have codes of their own; only what is  *)
(* longer than allowed is refused as too long.                             *)
LEMMA LineCode ==
    ASSUME NEW x, Shape(x), x.error = 0, NEW line
    PROVE  ParseLine(x, line).error \in {0, 400, 505, Thrown}
<1> DEFINE methodEnd == Find(line, <<" ">>)
           rest == From(line, methodEnd + 1)
           uriEnd == Find(rest, <<" ">>)
           uri == UpTo(rest, uriEnd)
           version == From(rest, uriEnd + 1)
           mark == Find(uri, <<"?">>)
           path == IF mark = 0 THEN uri ELSE UpTo(uri, mark)
           query == IF mark = 0 THEN <<>> ELSE From(uri, mark + 1)
           pairs == FoldLeft(AddQuery, Empty, Pieces(query, "&"))
           method == UpTo(line, methodEnd)
           y == [x EXCEPT !.req.method = method, !.req.version = version]
           z == [y EXCEPT !.req.query = pairs.map]
           w == [z EXCEPT !.req.path = path]
<1>1. ParseLine(x, line) \in {Fail(x, 400), Fail(y, 505), Fail(z, Thrown), w}
  BY DEF ParseLine, WithTarget
<1> HIDE DEF method, version, pairs, path
<1>2. ASSUME NEW v, v = [f \in Fields |-> v[f]], NEW code PROVE Fail(v, code).error = code
  BY <1>2 DEF Fail, Fields
<1>3. x = [f \in Fields |-> x[f]]
  BY DEF Shape
<1>4. y = [f \in Fields |-> y[f]] /\ y.error = 0
  BY <1>3 DEF Fields
<1> HIDE DEF y
<1>5. z = [f \in Fields |-> z[f]] /\ z.error = 0
  BY <1>4 DEF Fields
<1> HIDE DEF z
<1>6. w.error = 0
  BY <1>5 DEF Fields
<1> HIDE DEF w
<1> QED
  BY <1>1, <1>2, <1>3, <1>4, <1>5, <1>6

LEMMA RequestLineCode ==
    ASSUME NEW x, Shape(x), x.error = 0, Len(x.buffer) <= x.limit
    PROVE  ParseRequestLine(x).error # 431
<1> DEFINE end == Find(x.buffer, CRLF)
           y == ParseLine(x, UpTo(x.buffer, end))
           z == [y EXCEPT !.buffer = From(@, end + 2), !.state = "head"]
<1>1. ParseRequestLine(x) \in {x, Fail(x, 400), y, z}
  <2>1. Len(x.buffer) \in Nat /\ x.limit \in Nat
    BY BufferIs DEF Shape
  <2> QED
    BY <2>1 DEF ParseRequestLine
<1>2. Shape(y) /\ y.error # 431
  <2>1. Shape(y)
    <3> DEFINE none == <<>>
               zero == 0
               line == UpTo(x.buffer, end)
    <3>1. none \in Seq(Tokens) /\ zero \in Nat
      OBVIOUS
    <3> HIDE DEF none, zero, line
    <3>2. Shape(ParseLine(x, line))
      BY <3>1, LineIs
    <3> QED
      BY <3>2 DEF line
  <2>2. y.error \in {0, 400, 505, Thrown}
    BY LineCode
  <2> QED
    BY <2>1, <2>2 DEF Thrown
<1> HIDE DEF y, end
<1>3. z.error = y.error
  BY <1>2 DEF Shape, Fields
<1>4. Fail(x, 400).error = 400
  BY DEF Shape, Fail
<1> HIDE DEF z
<1> QED
  BY <1>1, <1>2, <1>3, <1>4

LEMMA HeadCode ==
    ASSUME NEW x, Shape(x), x.error = 0, x.state = "head", Len(x.buffer) <= x.limit,
           NEW y, y = ParseHeaders(x)
    PROVE  /\ y.error # 431
           /\ y.state # "head" => y.headerBytes \in Nat /\ y.headerBytes <= Len(x.buffer)
<1> DEFINE end == Find(x.buffer, CRLF \o CRLF)
           fields == FoldLeft(AddHeader, Empty, Pieces(UpTo(x.buffer, end), "\n"))
           next == IF {Length, Encoding} \cap DOMAIN fields.map # {} THEN "body"
                   ELSE "complete"
           w == [x EXCEPT !.req.headers = fields.map]
           z == [w EXCEPT !.buffer = From(@, end + 4), !.headerBytes = end + 3,
                          !.state = next]
<1>0. Len(x.buffer) \in Nat /\ x.limit \in Nat /\ x.buffer \in Seq(Tokens)
  BY BufferIs DEF Shape
<1>1. \/ end = 0 /\ y = x
      \/ end # 0 /\ y = Fail(w, 400)
      \/ end # 0 /\ y = z
  BY <1>0 DEF ParseHeaders
<1>2. end # 0 => end + 3 \in Nat /\ end + 3 <= Len(x.buffer)
  <2> DEFINE word == CRLF \o CRLF
  <2>1. word \in Seq(Tokens) /\ Len(word) = 4 /\ Len(word) > 0
    BY CRLFIs
  <2> HIDE DEF word
  <2>2. Find(x.buffer, word) # 0 => Find(x.buffer, word) \in 1..(Len(x.buffer) - Len(word) + 1)
    BY <1>0, <2>1, FindIs
  <2> DEFINE e == Find(x.buffer, word)
  <2> HIDE DEF e
  <2>3. e # 0 => e + 3 \in Nat /\ e + 3 <= Len(x.buffer)
    BY <1>0, <2>1, <2>2 DEF e
  <2> QED
    BY <2>3 DEF e, word
<1>3. w.error = 0 /\ w.state = "head" /\ w = [f \in Fields |-> w[f]]
  BY DEF Shape, Fields
<1> HIDE DEF end, next, w
<1>4. Fail(w, 400).error = 400 /\ Fail(w, 400).state = "head"
  BY <1>3 DEF Fail, Fields
<1>5. z.error = 0 /\ z.headerBytes = end + 3
  BY <1>3 DEF Fields
<1> HIDE DEF z
<1> QED
  BY <1>1, <1>2, <1>4, <1>5

LEMMA ChunkStepCode ==
    ASSUME NEW x, Shape(x), x.error # 431
    PROVE  ChunkStep(x).error # 431
<1>1. ASSUME NEW v, v = [f \in Fields |-> v[f]], NEW code PROVE Fail(v, code).error = code
  BY <1>1 DEF Fail, Fields
<1>2. x = [f \in Fields |-> x[f]]
  BY DEF Shape
<1>3. ChunkStep(x) \in {x, ChunkSize(x), ChunkData(x), Trailer(x)}
  BY DEF ChunkStep
<1>4. ChunkSize(x).error # 431
  <2> DEFINE end == Find(x.buffer, CRLF)
             line == UpTo(x.buffer, end)
             semi == Find(line, <<";">>)
             n == HexStrToSize(IF semi = 0 THEN line ELSE UpTo(line, semi))
             y == [x EXCEPT !.chunk = n.value]
             next == IF n.value = 0 THEN "crlf" ELSE "data"
             rest == From(y.buffer, end + 2)
             z == [y EXCEPT !.buffer = rest, !.mode = next]
  <2>1. ChunkSize(x) \in {x, Fail(x, 400), Fail(y, 413), z}
    BY DEF ChunkSize
  <2> HIDE DEF n, next, end
  <2>2. y = [f \in Fields |-> y[f]] /\ y.error = x.error
    BY <1>2 DEF Fields
  <2> HIDE DEF y, rest
  <2>3. z.error = x.error
    BY <2>2 DEF Fields
  <2> HIDE DEF z
  <2> QED
    BY <1>1, <1>2, <2>1, <2>2, <2>3
<1>5. ChunkData(x).error # 431
  <2> DEFINE y == [x EXCEPT !.req.body = @ \o SubSeq(x.buffer, 1, x.chunk)]
             rest == From(y.buffer, x.chunk + 3)
             z == [y EXCEPT !.buffer = rest, !.mode = "size"]
  <2>1. ChunkData(x) \in {x, Fail(y, 400), z}
    BY DEF ChunkData
  <2>2. y = [f \in Fields |-> y[f]] /\ y.error = x.error
    BY <1>2 DEF Fields
  <2> HIDE DEF y, rest
  <2>3. z.error = x.error
    BY <2>2 DEF Fields
  <2> HIDE DEF z
  <2> QED
    BY <1>1, <2>1, <2>2, <2>3
<1>6. Trailer(x).error # 431
  <2> DEFINE none == IsPrefix(CRLF, x.buffer)
             end == Find(x.buffer, CRLF \o CRLF)
             rest == From(x.buffer, IF none THEN 3 ELSE end + 4)
             z == [x EXCEPT !.buffer = rest, !.mode = "complete"]
  <2>1. Trailer(x) \in {x, z}
    BY DEF Trailer
  <2> HIDE DEF rest
  <2>2. z.error = x.error
    BY <1>2 DEF Fields
  <2> HIDE DEF z
  <2> QED
    BY <2>1, <2>2
<1> QED
  BY <1>3, <1>4, <1>5, <1>6

LEMMA ChunksCode ==
    ASSUME NEW x, Shape(x), x.error # 431
    PROVE  ParseChunked(x).error # 431
<1> DEFINE N == Len(x.buffer)
<1>1. N \in Nat
  BY BufferIs
<1>2. PICK p : Run(p, x, N) /\ ParseChunked(x) = p[N]
  BY ParseChunkedRuns
<1> HIDE DEF N
<1>3. \A i \in 0..N : Shape(p[i])
  BY <1>1, <1>2, RunIs
<1> DEFINE A == {i \in Nat : i <= N => p[i].error # 431}
<1>4. 0 \in A
  BY <1>2 DEF Run
<1>5. ASSUME NEW i \in A PROVE i + 1 \in A
  <2>1. SUFFICES ASSUME i + 1 <= N PROVE p[i + 1].error # 431
    OBVIOUS
  <2>2. i \in Nat /\ i \in 0..N /\ p[i].error # 431
    BY <1>1, <2>1
  <2>3. p[i + 1] = ChunkStep(p[i]) /\ Shape(p[i])
    BY <1>2, <1>3, <2>1, <2>2 DEF Run
  <2> QED
    BY <2>2, <2>3, ChunkStepCode
<1>6. A = Nat
  <2> HIDE DEF A
  <2>1. A \in SUBSET Nat
    BY DEF A
  <2> QED
    BY <1>4, <1>5, <2>1, AllNumbers
<1> QED
  BY <1>1, <1>2, <1>6

LEMMA BodyCode ==
    ASSUME NEW x, Shape(x), x.error = 0, x.state \in {"body", "complete"}
    PROVE  Body(x).error # 431
<1>1. ASSUME NEW v, v = [f \in Fields |-> v[f]], NEW code PROVE Fail(v, code).error = code
  BY <1>1 DEF Fail, Fields
<1>2. ASSUME NEW v, Shape(v), v.error # 431 PROVE EndBody(v).error # 431
  <2> DEFINE w == [v EXCEPT !.state = "complete"]
  <2>1. EndBody(v) \in {v, CheckBody(w)}
    BY DEF EndBody
  <2>2. w = [f \in Fields |-> w[f]] /\ w.error = v.error
    <3>1. v = [f \in Fields |-> v[f]]
      BY <1>2 DEF Shape
    <3> QED
      BY <3>1 DEF Fields
  <2> HIDE DEF w
  <2>3. CheckBody(w) \in {w, Fail(w, 413), Fail(w, 400)}
    BY DEF CheckBody
  <2> QED
    BY <1>1, <1>2, <2>1, <2>2, <2>3
<1>3. ASSUME x.state = "body" PROVE Shape(ParseBody(x)) /\ ParseBody(x).error # 431
  <2> DEFINE u == <<>>
             i == IF x.mode = "uninitialized" THEN InitBody(x) ELSE x
  <2>1. Shape(ParseBody(x))
    <3>1. u \in Seq(Tokens) /\ 0 \in Nat
      OBVIOUS
    <3> HIDE DEF u
    <3> QED
      BY <1>3, <3>1, ParseBodyIs DEF Keeps
  <2>2. Shape(InitBody(x)) /\ InitBody(x).error # 431
    <3>1. Shape(InitBody(x))
      <4>1. u \in Seq(Tokens) /\ 0 \in Nat
        OBVIOUS
      <4> HIDE DEF u
      <4> QED
        BY <1>3, <4>1, InitBodyIs
    <3> DEFINE n == ContentLength(x)
               next == IF n.value = 0 THEN "complete" ELSE "identity"
               y == [x EXCEPT !.mode = "size"]
               z == [x EXCEPT !.left = n.value, !.mode = next]
    <3>2. InitBody(x) \in {Fail(x, 501), Fail(x, 400), y, z}
      BY DEF InitBody
    <3> HIDE DEF n, next
    <3>3. y.error = x.error /\ z.error = x.error
      BY DEF Shape, Fields
    <3>4. Fail(x, 501).error = 501 /\ Fail(x, 400).error = 400
      BY <1>1 DEF Shape
    <3> HIDE DEF y, z
    <3> QED
      BY <3>1, <3>2, <3>3, <3>4
  <2>3. Shape(i) /\ i.error # 431
    BY <2>2
  <2> HIDE DEF i
  <2>4. ParseBody(x) \in {i, ParseIdentity(i), ParseChunked(i)}
    BY DEF ParseBody, i
  <2>5. ParseIdentity(i).error = i.error
    <3>1. u \in Seq(Tokens) /\ 0 \in Nat
      OBVIOUS
    <3> HIDE DEF u
    <3> QED
      BY <2>3, <3>1, ParseIdentityIs
  <2>6. ParseChunked(i).error # 431
    BY <2>3, ChunksCode
  <2> QED
    BY <2>1, <2>3, <2>4, <2>5, <2>6
<1>4. Body(x) = x \/ (x.state = "body" /\ Body(x) = EndBody(ParseBody(x)))
  BY DEF Body
<1> QED
  BY <1>2, <1>3, <1>4

LEMMA LimitsCode ==
    ASSUME NEW x, Shape(x), x.error = 0, x.state \in {"body", "complete"},
           Limits(x).error = 431
    PROVE  x.headerBytes > MaxHeader
<1>1. ASSUME NEW code PROVE Fail(x, code).error = code
  BY DEF Shape, Fail, Fields
<1>2. \/ x.headerBytes > MaxHeader
      \/ Limits(x) \in {Fail(x, 400), Fail(x, 413), Body(x)}
  BY DEF Limits
<1> QED
  BY <1>1, <1>2, BodyCode

(* What is refused as too long, is: a first line and a header. *)
LEMMA TooLong ==
    ASSUME NEW t \in Seq(Tokens), Len(t) <= SizeMax,
           RequestLine(Fresh(t)).error = 431
    PROVE  Len(t) > MaxHeader
<1> DEFINE x == Fresh(t)
           p == ParseRequestLine(x)
           q == ParseHeaders(p)
           none == <<>>
<1>1. Shape(x) /\ x.error = 0 /\ x.buffer = t /\ x.limit = SizeMax /\ x.state = "line"
  BY FreshIs
<1>2. /\ none \in Seq(Tokens) /\ Len(none) = 0 /\ 0 \in Nat
      /\ SizeMax \in Nat /\ MaxHeader \in Nat /\ Len(t) \in Nat
  BY NumbersAssumption, MessagesAssumption
<1>3. RequestLine(x).error = 431
  OBVIOUS
<1> HIDE DEF x, none
<1>4. /\ Shape(p) /\ p.limit = x.limit /\ Len(p.buffer) <= Len(x.buffer)
      /\ p.error # 431 /\ p.state \in {"line", "head"}
  <2>1. Len(x.buffer) <= x.limit /\ Len(x.buffer) + Len(none) <= SizeMax
    BY <1>1, <1>2
  <2> QED
    BY <1>1, <1>2, <2>1, ParseRequestLineIs, RequestLineCode, LineTo
<1>5. Len(p.buffer) \in Nat /\ Len(p.buffer) <= Len(t) /\ Len(p.buffer) <= p.limit
  <2>1. Len(p.buffer) \in Nat
    BY <1>4, BufferIs
  <2> HIDE DEF p
  <2> QED
    BY <1>1, <1>2, <1>4, <2>1
<1>6. RequestLine(x) = p \/ (p.error = 0 /\ p.state # "line" /\ RequestLine(x) = RequestHead(p))
  BY <1>1 DEF RequestLine
<1> HIDE DEF p
<1>7. p.error = 0 /\ p.state = "head" /\ RequestHead(p).error = 431
  BY <1>3, <1>4, <1>6
<1>8. /\ Shape(q) /\ q.error # 431 /\ q.state \in {"head", "body", "complete"}
      /\ q.state # "head" => q.headerBytes \in Nat /\ q.headerBytes <= Len(p.buffer)
  <2>1. Len(p.buffer) <= p.limit /\ Len(p.buffer) + Len(none) <= SizeMax
    BY <1>1, <1>2, <1>4, <1>5
  <2> QED
    BY <1>2, <1>4, <1>7, <2>1, ParseHeadersIs, HeadCode, HeadTo
<1>9. RequestHead(p) = q \/ (q.error = 0 /\ q.state # "head" /\ RequestHead(p) = Limits(q))
  BY <1>7 DEF RequestHead
<1> HIDE DEF q
<1>10. q.error = 0 /\ q.state \in {"body", "complete"} /\ Limits(q).error = 431
  BY <1>7, <1>8, <1>9
<1>11. q.headerBytes > MaxHeader /\ q.headerBytes \in Nat /\ q.headerBytes <= Len(p.buffer)
  BY <1>8, <1>10, LimitsCode
<1> QED
  BY <1>2, <1>5, <1>11

-----------------------------------------------------------------------------
(* The invariant: what the connection's parser keeps is what a fresh one   *)
(* makes of all that has come, but for the limit.                          *)
Whole == RequestLine(Fresh(SubSeq(sent.text, 1, received)))

IInv ==
    /\ sent \in Sent
    /\ received \in 0..Len(sent.text)
    /\ \/ conn = More(Whole, <<>>, MaxHeader)
       \/ conn.error = 431 /\ conn.state # "complete" /\ MayBeTooLong

LEMMA TextIs ==
    ASSUME NEW m \in Sent
    PROVE  m.text \in Seq(Tokens) /\ Len(m.text) \in Nat /\ Len(m.text) <= SizeMax
<1>1. m.text \in Seq(STRING) /\ Len(m.text) <= SizeMax
  BY MessagesAssumption
<1>2. STRING \subseteq Tokens
  BY DEF Tokens
<1> DEFINE s == m.text
<1> HIDE DEF s
<1>3. s \in Seq(Tokens)
  BY <1>1, <1>2, SeqMonotonic DEF s
<1> QED
  BY <1>1, <1>3 DEF s

LEMMA InitIs == Init => IInv
<1> SUFFICES ASSUME Init PROVE IInv
  OBVIOUS
<1> DEFINE none == <<>>
           x == Fresh(none)
<1>1. sent \in Sent /\ received = 0 /\ conn = New(MaxHeader)
  BY DEF Init
<1>2. sent.text \in Seq(Tokens) /\ Len(sent.text) \in Nat
  BY <1>1, TextIs
<1>3. SubSeq(sent.text, 1, received) = none
  BY <1>1, SubSeqEmpty
<1>4. Whole = x
  BY <1>3, NothingYet DEF Whole
<1>5. none \in Seq(Tokens) /\ MaxHeader \in Nat /\ none \o none = none
  BY MessagesAssumption
<1>6. conn = More(x, none, MaxHeader)
  <2> DEFINE r == [method |-> none, path |-> none, version |-> none, query |-> none,
                   headers |-> none, body |-> none]
             zero == 0
             line == "line"
             mode == "uninitialized"
             Record(limit) ==
               [buffer |-> none, state |-> line, error |-> zero, limit |-> limit,
                headerBytes |-> zero, mode |-> mode, left |-> zero, chunk |-> zero,
                req |-> r]
  <2>1. x = Record(SizeMax) /\ conn = Record(MaxHeader)
    BY <1>1 DEF Fresh, New
  <2> HIDE DEF x, r, none, zero, line, mode
  <2>2. [Record(SizeMax) EXCEPT !.buffer = none \o none, !.limit = MaxHeader]
          = Record(MaxHeader)
    <3> DEFINE s == Record(SizeMax)
               e == Record(MaxHeader)
               p == [s EXCEPT !.buffer = none, !.limit = MaxHeader]
    <3>1. s = [f \in Fields |-> s[f]] /\ e = [f \in Fields |-> e[f]]
      BY DEF Fields
    <3>2. SameRest(s, e) /\ s.buffer = none /\ e.buffer = none /\ e.limit = MaxHeader
      BY DEF SameRest
    <3> HIDE DEF s, e
    <3>3. p = [f \in Fields |-> p[f]]
      BY <3>1 DEF Fields
    <3>4. SameRest(p, s) /\ p.buffer = none /\ p.limit = MaxHeader
      BY <3>1 DEF Fields, SameRest
    <3> HIDE DEF p
    <3>5. \A f \in Fields : p[f] = e[f]
      BY <3>2, <3>4 DEF Fields, SameRest
    <3>6. p = e
      BY <3>1, <3>3, <3>5
    <3> QED
      BY <3>6, <1>5 DEF p, s, e
  <2>3. Record(SizeMax).buffer = none
    OBVIOUS
  <2> HIDE DEF Record
  <2> QED
    BY <2>1, <2>2, <2>3 DEF More
<1>7. received \in 0..Len(sent.text)
  BY <1>1, <1>2
<1> HIDE DEF x, none
<1>8. conn = More(Whole, none, MaxHeader)
  BY <1>4, <1>6
<1> QED
  BY <1>1, <1>7, <1>8 DEF IInv, none

LEMMA StepIs == IInv /\ [Next]_vars => IInv'
<1> SUFFICES ASSUME IInv, [Next]_vars PROVE IInv'
  OBVIOUS
<1>1. CASE UNCHANGED vars
  BY <1>1 DEF IInv, vars, Whole, MayBeTooLong
<1>2. CASE Receive
  <2> DEFINE none == <<>>
             text == sent.text
             t == SubSeq(text, 1, received)
             y == RequestLine(Fresh(t))
             l == MaxHeader
  <2>1. sent \in Sent /\ received \in 0..Len(text) /\ sent' = sent
    BY <1>2 DEF IInv, Receive
  <2>2. conn.error = 0 /\ conn.state # "complete"
    BY <1>2 DEF Receive
  <2>3. PICK n \in 1..(Len(text) - received) :
          /\ received' = received + n
          /\ conn' = RequestLine([conn EXCEPT
                        !.buffer = @ \o SubSeq(text, received + 1, received + n)])
    BY <1>2 DEF Receive
  <2>4. text \in Seq(Tokens) /\ Len(text) \in Nat /\ Len(text) <= SizeMax
    BY <2>1, TextIs
  <2>5. conn = More(y, none, l)
    BY <2>2 DEF IInv, Whole
  <2> DEFINE u == SubSeq(text, received + 1, received + n)
             x == More(y, u, SizeMax)
  <2>6. /\ received \in Nat /\ n \in Nat /\ n > 0 /\ received + n <= Len(text)
        /\ received' \in 0..Len(text)
    BY <2>1, <2>3, <2>4
  <2>7. /\ t \in Seq(Tokens) /\ Len(t) = received
        /\ u \in Seq(Tokens) /\ Len(u) = n
        /\ t \o u = SubSeq(text, 1, received')
    <3> HIDE DEF text
    <3>1. t \in Seq(Tokens) /\ Len(t) = received
      BY <2>4, <2>6
    <3>2. u \in Seq(Tokens) /\ Len(u) = n
      BY <2>4, <2>6
    <3>3. t \o u = SubSeq(text, 1, received + n)
      <4>1. 1 \in 1..(Len(text) + 1) /\ received \in (1 - 1)..Len(text)
            /\ received + n \in received..Len(text)
        BY <2>4, <2>6
      <4> DEFINE q == received + n
      <4> HIDE DEF q
      <4>2. SubSeq(text, 1, received) \o SubSeq(text, received + 1, q) = SubSeq(text, 1, q)
        BY <2>4, <4>1, ConcatAdjacentSubSeq DEF q
      <4> QED
        BY <4>2 DEF q
    <3> QED
      BY <2>3, <3>1, <3>2, <3>3
  <2>8. SizeMax \in Nat /\ l \in Nat /\ none \in Seq(Tokens)
    BY NumbersAssumption, MessagesAssumption
  <2> HIDE DEF text, t, u, none, l
  <2>9. Len(t) + Len(u) <= SizeMax
    BY <2>4, <2>6, <2>7, <2>8
  <2>10. /\ Shape(y) /\ y.limit = SizeMax /\ Len(y.buffer) <= Len(t)
         /\ Waits(y) => RequestLine(x) = RequestLine(Fresh(t \o u))
    BY <2>7, <2>9, WholeGoesOn
  <2> HIDE DEF y
  <2>11. y.buffer \in Seq(Tokens) /\ Len(y.buffer) \in Nat
    BY <2>10, BufferIs
  <2>12. /\ Shape(conn) /\ SameRest(conn, y) /\ conn.buffer = y.buffer \o none
         /\ conn.limit = l
    BY <2>5, <2>8, <2>10, MoreIs
  <2>13. Waits(y)
    BY <2>2, <2>12 DEF Waits, SameRest
  <2>14. /\ Shape(x) /\ SameRest(x, y) /\ x.buffer = y.buffer \o u /\ x.limit = SizeMax
    BY <2>7, <2>8, <2>10, MoreIs
  <2> HIDE DEF x
  <2>15. /\ Len(x.buffer) <= received' /\ Len(x.buffer) <= x.limit /\ Len(x.buffer) \in Nat
    <3> DEFINE b == y.buffer
    <3>1. b \in Seq(Tokens) /\ u \in Seq(Tokens) /\ x.buffer = b \o u
      BY <2>7, <2>11, <2>14
    <3> HIDE DEF b
    <3>2. Len(x.buffer) = Len(b) + Len(u)
      BY <3>1
    <3>3. Len(b) \in Nat /\ Len(b) <= received /\ Len(u) = n
      BY <2>7, <2>10, <2>11 DEF b
    <3>4. Len(x.buffer) \in Nat /\ Len(x.buffer) <= received + n
      BY <3>2, <3>3, <2>6
    <3>5. received + n <= SizeMax
      BY <2>4, <2>6, <2>8
    <3> QED
      BY <3>4, <3>5, <2>3, <2>6, <2>8, <2>14
  <2>16. y.buffer \o none = y.buffer /\ x.buffer \o none = x.buffer
    BY <2>7, <2>11, <2>14, ConcatEmptySeq DEF none
  <2> DEFINE v == [conn EXCEPT !.buffer = @ \o u]
  <2>17. v = More(x, none, l)
    <3>1. v = [f \in Fields |-> v[f]]
      BY <2>12 DEF Shape, Fields
    <3>2. SameRest(v, conn) /\ v.buffer = conn.buffer \o u /\ v.limit = conn.limit
      BY <2>12 DEF Shape, Fields, SameRest
    <3> HIDE DEF v
    <3>3. v.buffer = x.buffer \o none /\ v.limit = l /\ SameRest(v, x)
      BY <2>12, <2>14, <2>16, <3>2 DEF SameRest
    <3>4. v.buffer \in Seq(Tokens)
      BY <2>14, <2>16, <3>3, BufferIs
    <3>5. Shape(v)
      BY <2>12, <3>1, <3>2, <3>4 DEF Shape, SameRest
    <3> QED
      BY <2>8, <2>14, <3>3, <3>5, IsMore
  <2> DEFINE z == RequestLine(Fresh(t \o u))
  <2>18. z = RequestLine(x)
    BY <2>10, <2>13 DEF x
  <2>19. conn' = RequestLine(More(x, none, l))
    BY <2>3, <2>17 DEF u
  <2>20. x.error = 0
    BY <2>13, <2>14 DEF Waits, SameRest
  <2> HIDE DEF v, z
  <2>21. \/ conn' = More(z, none, l)
         \/ conn'.error = 431 /\ conn'.state # "complete" /\ Len(x.buffer) > l
    BY <2>8, <2>14, <2>15, <2>18, <2>19, <2>20, LimitIs DEF none
  <2>22. Whole' = z
    BY <2>1, <2>7 DEF Whole, z, text
  <2>23. CASE conn' = More(z, none, l)
    BY <2>1, <2>6, <2>22, <2>23 DEF IInv, none, l, text
  <2>24. CASE conn'.error = 431 /\ conn'.state # "complete" /\ Len(x.buffer) > l
    <3>1. received' > l
      BY <2>3, <2>6, <2>8, <2>15, <2>24
    <3>2. MayBeTooLong'
      BY <3>1 DEF MayBeTooLong, l
    <3> QED
      BY <2>1, <2>6, <2>24, <3>2 DEF IInv, text
  <2> QED
    BY <2>21, <2>23, <2>24
<1> QED
  BY <1>1, <1>2 DEF Next

LEMMA InvIsWhole == IInv => AsIfWhole
<1> SUFFICES ASSUME IInv PROVE AsIfWhole
  OBVIOUS
<1> DEFINE none == <<>>
           t == SubSeq(sent.text, 1, received)
           l == MaxHeader
           y == RequestLine(Fresh(t))
           v == [y EXCEPT !.limit = conn.limit]
<1>1. sent \in Sent /\ received \in 0..Len(sent.text)
  BY DEF IInv
<1>2. CASE conn.error = 431 /\ MayBeTooLong
  BY <1>2 DEF AsIfWhole
<1>3. CASE conn = More(y, none, l)
  <2>1. sent.text \in Seq(Tokens) /\ Len(sent.text) \in Nat /\ Len(sent.text) <= SizeMax
    BY <1>1, TextIs
  <2>2. t \in Seq(Tokens) /\ Len(t) = received
    BY <1>1, <2>1
  <2>3. none \in Seq(Tokens) /\ Len(none) = 0 /\ l \in Nat /\ SizeMax \in Nat
    BY NumbersAssumption, MessagesAssumption
  <2>4. Len(t) + Len(none) <= SizeMax
    BY <1>1, <2>1, <2>2, <2>3
  <2> HIDE DEF t, none, l
  <2>5. Shape(y)
    BY <2>2, <2>3, <2>4, WholeGoesOn
  <2> HIDE DEF y
  <2>6. /\ Shape(conn) /\ SameRest(conn, y) /\ conn.buffer = y.buffer \o none
    BY <1>3, <2>3, <2>5, MoreIs
  <2>7. conn.buffer = y.buffer
    BY <2>5, <2>6, BufferIs, ConcatEmptySeq DEF none
  <2>8. v = [f \in Fields |-> v[f]]
    BY <2>5 DEF Shape, Fields
  <2>9. SameRest(v, y) /\ v.buffer = y.buffer /\ v.limit = conn.limit
    BY <2>5 DEF Shape, Fields, SameRest
  <2> HIDE DEF v
  <2>10. Shape(v)
    <3>1. conn.limit \in Nat
      BY <2>6 DEF Shape
    <3> QED
      BY <2>5, <2>8, <2>9, <3>1 DEF Shape, SameRest
  <2>11. SameRest(conn, v)
    BY <2>6, <2>9 DEF SameRest
  <2>12. conn = v
    BY <2>6, <2>7, <2>9, <2>10, <2>11, SameIs
  <2> QED
    BY <2>12 DEF AsIfWhole, v, y, t, Fresh
<1> QED
  BY <1>2, <1>3 DEF IInv, Whole

(* What is right in one piece is right however it is cut. *)
LEMMA InvIsReceived ==
    ASSUME IInv, sent.good => WrittenWell(sent)
    PROVE  SentIsReceived
<1> DEFINE text == sent.text
           t == SubSeq(text, 1, received)
           u == SubSeq(text, received + 1, Len(text))
           y == RequestLine(Fresh(t))
           w == RequestLine(Fresh(text))
           none == <<>>
           l == MaxHeader
<1>1. SUFFICES ASSUME sent.good
      PROVE  /\ conn.error \in {0, 413, 431}
             /\ conn.error = 431 => MayBeTooLong
             /\ conn.error = 413 => Len(sent.body) > MaxBody
             /\ conn.state = "complete" =>
                  received = Len(text) /\ conn.req.body = sent.body /\ conn.buffer = none
             /\ received = Len(text) => conn.state = "complete" \/ conn.error # 0
  BY DEF SentIsReceived
<1>2. /\ w.error \in {0, 413, 431}
      /\ w.error = 0 => w.state = "complete"
      /\ w.error = 413 => Len(sent.body) > MaxBody
      /\ w.state = "complete" => w.req.body = sent.body /\ w.buffer = none
  BY <1>1 DEF WrittenWell, Fresh
<1>3. text \in Seq(Tokens) /\ Len(text) \in Nat /\ Len(text) <= SizeMax
  BY TextIs DEF IInv
<1>4. received \in 0..Len(text)
  BY DEF IInv
<1> HIDE DEF text
<1>5. /\ t \in Seq(Tokens) /\ Len(t) = received /\ u \in Seq(Tokens)
      /\ Len(u) = Len(text) - received /\ text = t \o u
  <2>1. t \in Seq(Tokens) /\ Len(t) = received
    BY <1>3, <1>4
  <2>2. u \in Seq(Tokens) /\ Len(u) = Len(text) - received
    BY <1>3, <1>4
  <2>3. text = t \o u
    <3>1. 1 \in 1..(Len(text) + 1) /\ received \in (1 - 1)..Len(text)
          /\ Len(text) \in received..Len(text)
      BY <1>3, <1>4
    <3>2. t \o u = SubSeq(text, 1, Len(text))
      BY <1>3, <3>1, ConcatAdjacentSubSeq
    <3>3. SubSeq(text, 1, Len(text)) = text
      BY <1>3
    <3> QED
      BY <3>2, <3>3
  <2> QED
    BY <2>1, <2>2, <2>3
<1>6. none \in Seq(Tokens) /\ l \in Nat /\ SizeMax \in Nat
  BY NumbersAssumption, MessagesAssumption
<1>7. Len(t) <= SizeMax /\ Len(t) + Len(u) <= SizeMax
  <2> HIDE DEF t, u
  <2> QED
    BY <1>3, <1>4, <1>5, <1>6
<1>8. Shape(y)
  <2> HIDE DEF t, u
  <2> QED
    BY <1>5, <1>7, WholeGoesOn
<1>9. \/ conn = More(y, none, l)
      \/ conn.error = 431 /\ conn.state # "complete" /\ MayBeTooLong
  BY DEF IInv, Whole, text
<1>10. ASSUME y.error = 431 PROVE MayBeTooLong
  <2> HIDE DEF t
  <2>1. Len(t) > MaxHeader
    BY <1>5, <1>7, <1>10, TooLong
  <2> QED
    BY <1>5, <2>1 DEF MayBeTooLong
<1>11. ~Waits(y) => Final(y, w, u, SizeMax)
  <2> HIDE DEF t, u
  <2> QED
    BY <1>5, <1>7, WholeIsFinal
<1>12. received = Len(text) => w = y
  <2>1. ASSUME received = Len(text) PROVE t = text
    <3>1. SubSeq(text, 1, Len(text)) = text
      BY <1>3
    <3> QED
      BY <2>1, <3>1
  <2> HIDE DEF t
  <2> QED
    BY <2>1
<1> HIDE DEF t, u, y, w, none, l
<1>13. CASE conn.error = 431 /\ conn.state # "complete" /\ MayBeTooLong
  BY <1>13
<1>14. CASE conn = More(y, none, l)
  <2>1. /\ conn.error = y.error /\ conn.state = y.state /\ conn.req = y.req
        /\ conn.buffer = y.buffer
    <3>1. SameRest(conn, y) /\ conn.buffer = y.buffer \o none
      BY <1>6, <1>8, <1>14, MoreIs
    <3>2. y.buffer \o none = y.buffer
      BY <1>8, BufferIs, ConcatEmptySeq DEF none
    <3> QED
      BY <3>1, <3>2 DEF SameRest
  <2>2. CASE Waits(y)
    BY <1>2, <1>12, <2>1, <2>2 DEF Waits
  <2>3. CASE ~Waits(y) /\ w = More(y, u, SizeMax)
    <3>1. /\ w.error = y.error /\ w.state = y.state /\ w.req = y.req
          /\ w.buffer = y.buffer \o u
      BY <1>5, <1>6, <1>8, <2>3, MoreIs DEF SameRest
    <3>2. y.buffer \in Seq(Tokens)
      BY <1>8, BufferIs
    <3>3. w.buffer = none => received = Len(text) /\ y.buffer = none
      <4> DEFINE b == y.buffer
      <4> HIDE DEF b
      <4>1. b \in Seq(Tokens) /\ w.buffer = b \o u
        BY <3>1, <3>2 DEF b
      <4>2. Len(w.buffer) = Len(b) + Len(u) /\ Len(b) \in Nat /\ Len(u) \in Nat
        <5>1. b \in Seq(Tokens) /\ u \in Seq(Tokens)
          BY <1>5, <4>1
        <5>2. Len(b \o u) = Len(b) + Len(u) /\ Len(b) \in Nat /\ Len(u) \in Nat
          BY <5>1
        <5> QED
          BY <4>1, <5>2
      <4>3. w.buffer = none => Len(w.buffer) = 0
        BY DEF none
      <4>4. w.buffer = none => Len(b) = 0 /\ Len(u) = 0
        BY <4>2, <4>3
      <4>5. Len(b) = 0 => b = none
        BY <4>1, EmptySeq DEF none
      <4>6. Len(u) = 0 => received = Len(text)
        BY <1>3, <1>4, <1>5
      <4> QED
        BY <4>4, <4>5, <4>6 DEF b
    <3>4. y.error # 0 \/ y.state = "complete"
      BY <2>3 DEF Waits
    <3> QED
      BY <1>2, <1>10, <2>1, <3>1, <3>3, <3>4
  <2>4. CASE y.error = 0 /\ w = Fail(More(y, u, SizeMax), 400)
    <3>1. 400 \in Int /\ Shape(More(y, u, SizeMax))
      BY <1>5, <1>6, <1>8, MoreIs
    <3>2. w.error = 400
      BY <1>5, <1>6, <2>4, <3>1, FailIs
    <3> QED
      BY <1>2, <3>2
  <2> QED
    BY <1>11, <2>2, <2>3, <2>4 DEF Final
<1> QED
  BY <1>9, <1>13, <1>14

(* However a request is cut into segments, what its parser keeps is what a *)
(* fresh one without a limit makes of all that has come, but for the limit *)
(* (RequestParser and the middlewares that feed it).                       *)
THEOREM MessagesInvariant == Spec => []IInv
BY InitIs, StepIs, PTL DEF Spec

(* However a request is cut into segments, its parsers come to the same    *)
(* request, error and need of more as for the same characters in one piece *)
(* without a limit, or refuse it as too long when more has come than is    *)
(* allowed.                                                                *)
THEOREM ReadAsIfWhole == Spec => []AsIfWhole
<1>1. Spec => []IInv
  BY MessagesInvariant
<1> QED
  BY <1>1, InvIsWhole, PTL

(* A request that is read right when it comes in one piece is read right   *)
(* however it is cut into segments: complete with its last character and   *)
(* not before, with the body that was sent, unless it does not keep the    *)
(* limits (RequestParser and the middlewares that feed it).                *)
THEOREM WellWrittenIsReceived ==
    ASSUME \A m \in Sent : m.good => WrittenWell(m)
    PROVE  Spec => []SentIsReceived
<1>1. IInv => SentIsReceived
  <2> SUFFICES ASSUME IInv PROVE SentIsReceived
    OBVIOUS
  <2>1. sent.good => WrittenWell(sent)
    BY DEF IInv
  <2> QED
    BY <2>1, InvIsReceived
<1>2. Spec => []IInv
  BY MessagesInvariant
<1> QED
  BY <1>1, <1>2, PTL
=============================================================================
