---------------------------- MODULE Files_proofs ----------------------------
(***************************************************************************)
(* What the handlers answer is true, and what a client has stored is       *)
(* served, whatever other programs do to the files between their calls.    *)
(***************************************************************************)
EXTENDS Files, TLAPS, SequenceTheorems, WellFoundedInduction

(* Induction over a set of numbers: what is not in it would have a least   *)
(* element.                                                                *)
LEMMA AllNumbers ==
    ASSUME NEW S \in SUBSET Nat, 0 \in S, \A n \in S : n + 1 \in S
    PROVE  S = Nat
<1>1. SUFFICES ASSUME Nat \ S # {} PROVE FALSE
  OBVIOUS
<1>2. PICK m \in Nat \ S : \A n \in Nat \ S : <<n, m>> \notin OpToRel(<, Nat)
  BY <1>1, NatLessThanWellFounded, WFMin, Zenon
<1>3. \A n \in Nat \ S : ~(n < m)
  BY <1>2, Zenon DEF OpToRel
<1>4. m # 0 /\ m \in Nat /\ m \notin S
  BY <1>2
<1>5. m - 1 \in Nat /\ m - 1 < m /\ (m - 1) + 1 = m
  BY <1>4
<1>6. m - 1 \in S
  BY <1>3, <1>5
<1> QED
  BY <1>4, <1>5, <1>6

LEMMA MaxOf ==
    ASSUME NEW m \in Nat, NEW S \in SUBSET (1..m), m \in S
    PROVE  Max(S) = m
<1>1. \A x \in S : x \in 1..m
  OBVIOUS
<1>2. \A y \in S : m >= y
  BY <1>1
<1>3. ASSUME NEW x \in S, \A y \in S : x >= y PROVE x = m
  BY <1>1, <1>3
<1> QED
  BY <1>2, <1>3 DEF Max

-----------------------------------------------------------------------------
(* Split() and NonEmpty() one element at a time. *)
Added(names, c) ==
    IF c = Slash THEN Append(names, <<>>)
    ELSE [names EXCEPT ![Len(names)] = Append(@, c)]
Kept(names, name) == IF name = <<>> THEN names ELSE Append(names, name)

SplitBy(g, s, n) ==
    g = [S \in SUBSET (1..n) |->
           IF S = {} THEN <<<<>>>> ELSE Added(g[S \ {Max(S)}], s[Max(S)])]
KeptBy(g, s, n) ==
    g = [S \in SUBSET (1..n) |->
           IF S = {} THEN <<>> ELSE Kept(g[S \ {Max(S)}], s[Max(S)])]

LEMMA LastOf ==
    ASSUME NEW n \in Nat, NEW S \in SUBSET (1..(n + 1))
    PROVE  /\ n + 1 \in S => Max(S) = n + 1 /\ S \ {n + 1} \in SUBSET (1..n)
           /\ n + 1 \notin S => S \in SUBSET (1..n) /\ S \ {Max(S)} \in SUBSET (1..n)
           /\ n + 1 \notin S \ {Max(S)}
<1>1. n + 1 \in S => Max(S) = n + 1
  BY MaxOf
<1>2. \A x \in S : x \in 1..n \/ x = n + 1
  OBVIOUS
<1> QED
  BY <1>1, <1>2

LEMMA SplitGoesOn ==
    ASSUME NEW s, NEW n \in Nat, NEW g, SplitBy(g, s, n)
    PROVE  \E h : SplitBy(h, s, n + 1)
<1> DEFINE h == [S \in SUBSET (1..(n + 1)) |->
                   IF n + 1 \in S THEN Added(g[S \ {n + 1}], s[n + 1]) ELSE g[S]]
<1>1. ASSUME NEW S \in SUBSET (1..(n + 1))
      PROVE  h[S] = IF S = {} THEN <<<<>>>> ELSE Added(h[S \ {Max(S)}], s[Max(S)])
  <2>0. S \ {Max(S)} \in SUBSET (1..(n + 1)) /\ n + 1 \notin S \ {Max(S)}
    BY LastOf
  <2>1. h[S \ {Max(S)}] = g[S \ {Max(S)}]
    BY <2>0
  <2>2. CASE n + 1 \in S
    <3>1. h[S] = Added(g[S \ {n + 1}], s[n + 1])
      BY <2>2
    <3>2. S # {} /\ Max(S) = n + 1
      BY <2>2, LastOf
    <3> QED
      BY <3>1, <3>2, <2>1
  <2>3. CASE n + 1 \notin S
    <3>1. S \in SUBSET (1..n) /\ h[S] = g[S]
      BY <2>3, LastOf
    <3>2. g[S] = IF S = {} THEN <<<<>>>> ELSE Added(g[S \ {Max(S)}], s[Max(S)])
      BY <3>1 DEF SplitBy
    <3> QED
      BY <3>1, <3>2, <2>1
  <2> QED
    BY <2>2, <2>3
<1>2. h = [S \in SUBSET (1..(n + 1)) |-> h[S]]
  OBVIOUS
<1> HIDE DEF h
<1>3. SplitBy(h, s, n + 1)
  BY <1>1, <1>2 DEF SplitBy
<1> QED
  BY <1>3

LEMMA SplitExists ==
    ASSUME NEW s, NEW n \in Nat
    PROVE  \E g : SplitBy(g, s, n)
<1> DEFINE A == {i \in Nat : \E g : SplitBy(g, s, i)}
<1>1. 0 \in A
  <2> DEFINE g == [S \in SUBSET (1..0) |-> <<<<>>>>]
  <2>1. SplitBy(g, s, 0)
    BY DEF SplitBy
  <2> QED
    BY <2>1
<1>2. \A i \in A : i + 1 \in A
  BY SplitGoesOn
<1>3. A = Nat
  <2> HIDE DEF A
  <2>1. A \in SUBSET Nat
    BY DEF A
  <2> QED
    BY <1>1, <1>2, <2>1, AllNumbers
<1> QED
  BY <1>3

LEMMA KeptGoesOn ==
    ASSUME NEW s, NEW n \in Nat, NEW g, KeptBy(g, s, n)
    PROVE  \E h : KeptBy(h, s, n + 1)
<1> DEFINE h == [S \in SUBSET (1..(n + 1)) |->
                   IF n + 1 \in S THEN Kept(g[S \ {n + 1}], s[n + 1]) ELSE g[S]]
<1>1. ASSUME NEW S \in SUBSET (1..(n + 1))
      PROVE  h[S] = IF S = {} THEN <<>> ELSE Kept(h[S \ {Max(S)}], s[Max(S)])
  <2>0. S \ {Max(S)} \in SUBSET (1..(n + 1)) /\ n + 1 \notin S \ {Max(S)}
    BY LastOf
  <2>1. h[S \ {Max(S)}] = g[S \ {Max(S)}]
    BY <2>0
  <2>2. CASE n + 1 \in S
    <3>1. h[S] = Kept(g[S \ {n + 1}], s[n + 1])
      BY <2>2
    <3>2. S # {} /\ Max(S) = n + 1
      BY <2>2, LastOf
    <3> QED
      BY <3>1, <3>2, <2>1
  <2>3. CASE n + 1 \notin S
    <3>1. S \in SUBSET (1..n) /\ h[S] = g[S]
      BY <2>3, LastOf
    <3>2. g[S] = IF S = {} THEN <<>> ELSE Kept(g[S \ {Max(S)}], s[Max(S)])
      BY <3>1 DEF KeptBy
    <3> QED
      BY <3>1, <3>2, <2>1
  <2> QED
    BY <2>2, <2>3
<1>2. h = [S \in SUBSET (1..(n + 1)) |-> h[S]]
  OBVIOUS
<1> HIDE DEF h
<1>3. KeptBy(h, s, n + 1)
  BY <1>1, <1>2 DEF KeptBy
<1> QED
  BY <1>3

LEMMA KeptExists ==
    ASSUME NEW s, NEW n \in Nat
    PROVE  \E g : KeptBy(g, s, n)
<1> DEFINE A == {i \in Nat : \E g : KeptBy(g, s, i)}
<1>1. 0 \in A
  <2> DEFINE g == [S \in SUBSET (1..0) |-> <<>>]
  <2>1. KeptBy(g, s, 0)
    BY DEF KeptBy
  <2> QED
    BY <2>1
<1>2. \A i \in A : i + 1 \in A
  BY KeptGoesOn
<1>3. A = Nat
  <2> HIDE DEF A
  <2>1. A \in SUBSET Nat
    BY DEF A
  <2> QED
    BY <1>1, <1>2, <2>1, AllNumbers
<1> QED
  BY <1>3

LEMMA SplitParts ==
    ASSUME NEW T, NEW s \in Seq(T)
    PROVE  \E p : /\ p[0] = <<<<>>>>
                  /\ \A n \in 1..Len(s) : p[n] = Added(p[n - 1], s[n])
                  /\ \A n \in 0..Len(s) : p[n] \in Seq(Seq(T)) /\ p[n] # <<>>
                  /\ Split(s) = p[Len(s)]
<1>1. Len(s) \in Nat /\ DOMAIN s = 1..Len(s) /\ \A n \in 1..Len(s) : s[n] \in T
  OBVIOUS
<1> DEFINE g == CHOOSE h : SplitBy(h, s, Len(s))
           p == [n \in 0..Len(s) |-> g[1..n]]
<1>2. SplitBy(g, s, Len(s))
  BY <1>1, SplitExists
<1>3. Split(s) = g[1..Len(s)]
  BY <1>1 DEF Split, FoldLeft, MapThenFoldSet, SplitBy, Added
<1> HIDE DEF g
<1>4. p[0] = <<<<>>>>
  <2>1. p[0] = g[{}] /\ {} \in SUBSET (1..Len(s))
    BY <1>1
  <2> QED
    BY <2>1, <1>2 DEF SplitBy
<1>5. ASSUME NEW n \in 1..Len(s) PROVE p[n] = Added(p[n - 1], s[n])
  <2>1. /\ n \in Nat /\ 1..n \in SUBSET (1..Len(s)) /\ n \in 1..n
        /\ (1..n) \ {n} = 1..(n - 1) /\ n - 1 \in 0..Len(s) /\ n \in 0..Len(s)
    BY <1>1
  <2>2. Max(1..n) = n
    BY <2>1, MaxOf
  <2>3. g[1..n] = Added(g[(1..n) \ {Max(1..n)}], s[Max(1..n)])
    BY <2>1, <1>2 DEF SplitBy
  <2> QED
    BY <2>1, <2>2, <2>3
<1>6. p[Len(s)] = g[1..Len(s)]
  BY <1>1
<1> HIDE DEF p
<1> DEFINE A == {n \in Nat : n <= Len(s) => p[n] \in Seq(Seq(T)) /\ p[n] # <<>>}
<1>7. 0 \in A
  <2>1. <<>> \in Seq(T)
    OBVIOUS
  <2> DEFINE none == <<>>
  <2> HIDE DEF none
  <2>2. <<none>> \in Seq(Seq(T)) /\ Len(<<none>>) = 1
    BY <2>1 DEF none
  <2>3. <<none>> \in Seq(Seq(T)) /\ <<none>> # <<>>
    BY <2>2
  <2> QED
    BY <2>3, <1>4 DEF none
<1>8. ASSUME NEW n \in A PROVE n + 1 \in A
  <2>1. SUFFICES ASSUME n + 1 <= Len(s)
                 PROVE  p[n + 1] \in Seq(Seq(T)) /\ p[n + 1] # <<>>
    OBVIOUS
  <2> DEFINE names == p[n]
             c == s[n + 1]
  <2>2. n + 1 \in 1..Len(s) /\ (n + 1) - 1 = n /\ n <= Len(s)
    BY <2>1, <1>1
  <2>3. names \in Seq(Seq(T)) /\ names # <<>> /\ c \in T /\ p[n + 1] = Added(names, c)
    BY <2>2, <1>5, <1>1
  <2> HIDE DEF names, c
  <2>4. CASE c = Slash
    <3>1. p[n + 1] = Append(names, <<>>) /\ <<>> \in Seq(T)
      BY <2>3, <2>4 DEF Added
    <3> QED
      BY <3>1, <2>3
  <2>5. CASE c # Slash
    <3>1. Len(names) \in DOMAIN names /\ names[Len(names)] \in Seq(T)
      BY <2>3
    <3>2. p[n + 1] = [names EXCEPT ![Len(names)] = Append(names[Len(names)], c)]
      BY <2>3, <2>5 DEF Added
    <3>3. Append(names[Len(names)], c) \in Seq(T)
      BY <3>1, <2>3
    <3> QED
      BY <3>1, <3>2, <3>3, <2>3
  <2> QED
    BY <2>4, <2>5
<1>9. A = Nat
  <2> HIDE DEF A
  <2>1. A \in SUBSET Nat
    BY DEF A
  <2> QED
    BY <1>7, <1>8, <2>1, AllNumbers
<1>10. \A n \in 0..Len(s) : p[n] \in Seq(Seq(T)) /\ p[n] # <<>>
  BY <1>9, <1>1
<1> QED
  BY <1>3, <1>4, <1>5, <1>6, <1>10

LEMMA KeptParts ==
    ASSUME NEW T, NEW s \in Seq(T)
    PROVE  \E p : /\ p[0] = <<>>
                  /\ \A n \in 1..Len(s) : p[n] = Kept(p[n - 1], s[n])
                  /\ \A n \in 0..Len(s) : p[n] \in Seq(T)
                  /\ NonEmpty(s) = p[Len(s)]
<1>1. Len(s) \in Nat /\ DOMAIN s = 1..Len(s) /\ \A n \in 1..Len(s) : s[n] \in T
  OBVIOUS
<1> DEFINE g == CHOOSE h : KeptBy(h, s, Len(s))
           p == [n \in 0..Len(s) |-> g[1..n]]
<1>2. KeptBy(g, s, Len(s))
  BY <1>1, KeptExists
<1>3. NonEmpty(s) = g[1..Len(s)]
  BY <1>1 DEF NonEmpty, FoldLeft, MapThenFoldSet, KeptBy, Kept
<1> HIDE DEF g
<1>4. p[0] = <<>>
  <2>1. p[0] = g[{}] /\ {} \in SUBSET (1..Len(s))
    BY <1>1
  <2> QED
    BY <2>1, <1>2 DEF KeptBy
<1>5. ASSUME NEW n \in 1..Len(s) PROVE p[n] = Kept(p[n - 1], s[n])
  <2>1. /\ n \in Nat /\ 1..n \in SUBSET (1..Len(s)) /\ n \in 1..n
        /\ (1..n) \ {n} = 1..(n - 1) /\ n - 1 \in 0..Len(s) /\ n \in 0..Len(s)
    BY <1>1
  <2>2. Max(1..n) = n
    BY <2>1, MaxOf
  <2>3. g[1..n] = Kept(g[(1..n) \ {Max(1..n)}], s[Max(1..n)])
    BY <2>1, <1>2 DEF KeptBy
  <2> QED
    BY <2>1, <2>2, <2>3
<1>6. p[Len(s)] = g[1..Len(s)]
  BY <1>1
<1> HIDE DEF p
<1> DEFINE A == {n \in Nat : n <= Len(s) => p[n] \in Seq(T)}
<1>7. 0 \in A
  <2>1. <<>> \in Seq(T)
    OBVIOUS
  <2> QED
    BY <2>1, <1>4
<1>8. ASSUME NEW n \in A PROVE n + 1 \in A
  <2>1. SUFFICES ASSUME n + 1 <= Len(s)
                 PROVE  p[n + 1] \in Seq(T)
    OBVIOUS
  <2>2. n + 1 \in 1..Len(s) /\ (n + 1) - 1 = n /\ n <= Len(s)
    BY <2>1, <1>1
  <2>3. p[n] \in Seq(T) /\ s[n + 1] \in T /\ p[n + 1] = Kept(p[n], s[n + 1])
    BY <2>2, <1>5, <1>1
  <2> QED
    BY <2>3 DEF Kept
<1>9. A = Nat
  <2> HIDE DEF A
  <2>1. A \in SUBSET Nat
    BY DEF A
  <2> QED
    BY <1>7, <1>8, <2>1, AllNumbers
<1>10. \A n \in 0..Len(s) : p[n] \in Seq(T)
  BY <1>9, <1>1
<1> QED
  BY <1>3, <1>4, <1>5, <1>6, <1>10

(* A name that is not empty is kept. *)
LEMMA KeepsLast ==
    ASSUME NEW T, NEW s \in Seq(T), s # <<>>, Last(s) # <<>>
    PROVE  NonEmpty(s) = Append(NonEmpty(Front(s)), Last(s))
<1> DEFINE m == Len(s) - 1
           t == Front(s)
<1>1. /\ Len(s) \in Nat /\ Len(s) > 0 /\ m \in Nat /\ t \in Seq(T) /\ Len(t) = m
      /\ \A n \in 1..m : t[n] = s[n]
  <2>1. Len(s) \in Nat /\ Len(s) > 0
    OBVIOUS
  <2>2. m \in Nat /\ m <= Len(s) /\ t = SubSeq(s, 1, m)
    BY <2>1 DEF Front
  <2> HIDE DEF m, t
  <2>3. t \in Seq(T) /\ Len(t) = m /\ \A n \in 1..m : t[n] = s[n]
    BY <2>2
  <2> QED
    BY <2>1, <2>2, <2>3
<1>2. PICK p : /\ p[0] = <<>>
               /\ \A n \in 1..Len(s) : p[n] = Kept(p[n - 1], s[n])
               /\ NonEmpty(s) = p[Len(s)]
  BY KeptParts
<1> HIDE DEF t
<1>3. PICK q : /\ q[0] = <<>>
               /\ \A n \in 1..Len(t) : q[n] = Kept(q[n - 1], t[n])
               /\ NonEmpty(t) = q[Len(t)]
  BY <1>1, KeptParts
<1> DEFINE A == {n \in Nat : n <= m => p[n] = q[n]}
<1>4. 0 \in A
  BY <1>2, <1>3
<1>5. ASSUME NEW n \in A PROVE n + 1 \in A
  <2>1. SUFFICES ASSUME n + 1 <= m PROVE p[n + 1] = q[n + 1]
    OBVIOUS
  <2>2. n + 1 \in 1..Len(s) /\ n + 1 \in 1..Len(t) /\ (n + 1) - 1 = n /\ n <= m /\ n + 1 \in 1..m
    BY <2>1, <1>1
  <2> QED
    BY <2>2, <1>1, <1>2, <1>3
<1>6. A = Nat
  <2> HIDE DEF A
  <2>1. A \in SUBSET Nat
    BY DEF A
  <2> QED
    BY <1>4, <1>5, <2>1, AllNumbers
<1>7. p[m] = q[m]
  BY <1>6, <1>1
<1>8. p[Len(s)] = Kept(p[m], Last(s))
  BY <1>1, <1>2 DEF Last
<1> QED
  BY <1>1, <1>2, <1>3, <1>7, <1>8 DEF Kept, t

-----------------------------------------------------------------------------
(* Paths and what they name. *)
LEMMA LongestIs ==
    ASSUME NEW path \in Paths
    PROVE  /\ LocationPath(path) \in DOMAIN Locations
           /\ Len(LocationPath(path)) \in Nat
<1>1. /\ \A l \in DOMAIN Locations : Len(l) \in Nat
      /\ Len(path) \in Nat
  BY FilesAssumption DEF FilesAssumption, IsSequence
<1> DEFINE M == Matches(path)
           D == {n \in Nat : \E l \in M : n = Len(path) - Len(l)}
<1>2. M \subseteq DOMAIN Locations /\ \A l \in M : Len(l) <= Len(path)
  BY DEF Matches, IsPrefix
<1>3. CASE M = {}
  <2>1. LocationPath(path) = <<Slash>>
    BY <1>3 DEF LocationPath
  <2>2. <<Slash>> \in DOMAIN Locations
    BY FilesAssumption DEF FilesAssumption
  <2> QED
    BY <2>1, <2>2, <1>1
<1>4. CASE M # {}
  <2>1. D \subseteq Nat /\ D # {}
    <3>1. PICK l \in M : TRUE
      BY <1>4
    <3>2. Len(path) - Len(l) \in Nat
      BY <1>1, <1>2
    <3> QED
      BY <3>2
  <2>2. PICK d \in D : \A n \in D : <<n, d>> \notin OpToRel(<, Nat)
    BY <2>1, NatLessThanWellFounded, WFMin, Zenon
  <2>3. \A n \in D : ~(n < d)
    BY <2>1, <2>2, Zenon DEF OpToRel
  <2>4. PICK l \in M : d = Len(path) - Len(l)
    OBVIOUS
  <2>5. ASSUME NEW m \in M PROVE Len(m) <= Len(l)
    <3>1. Len(path) - Len(m) \in D
      BY <1>1, <1>2
    <3>2. ~(Len(path) - Len(m) < Len(path) - Len(l))
      BY <3>1, <2>3, <2>4
    <3> QED
      BY <3>2, <1>1, <1>2, <2>4
  <2>6. Longest(M) \in M
    BY <2>4, <2>5 DEF Longest
  <2> QED
    BY <2>6, <1>1, <1>2, <1>4 DEF LocationPath
<1> QED
  BY <1>3, <1>4

(* Anything that is a sequence is one of its own elements. *)
LEMMA SequenceIs ==
    ASSUME NEW T, NEW s \in Seq(T)
    PROVE  IsSequence(s)
<1>1. /\ Len(s) \in Nat /\ DOMAIN s = 1..Len(s) /\ s = [i \in 1..Len(s) |-> s[i]]
      /\ \A i \in 1..Len(s) : s[i] \in Range(s)
  BY DEF Range
<1>2. s \in [1..Len(s) -> Range(s)]
  BY <1>1
<1>3. s \in Seq(Range(s))
  BY <1>1, <1>2, SeqDef
<1> QED
  BY <1>3 DEF IsSequence

LEMMA JoinedIs ==
    ASSUME NEW s, NEW t, IsSequence(s), IsSequence(t)
    PROVE  IsSequence(s \o t)
<1> DEFINE T == Range(s) \cup Range(t)
<1>1. s \in Seq(T) /\ t \in Seq(T)
  BY DEF IsSequence
<1>2. s \o t \in Seq(T)
  BY <1>1
<1> QED
  BY <1>2, SequenceIs

LEMMA RemainingIs ==
    ASSUME NEW path \in Paths
    PROVE  Remaining(path) \in Seq(Range(path))
<1> DEFINE n == Len(LocationPath(path))
           rest == SubSeq(path, n + 1, Len(path))
<1>1. path \in Seq(Range(path)) /\ n \in Nat
  BY LongestIs, FilesAssumption DEF FilesAssumption, IsSequence
<1>2. rest \in Seq(Range(path))
  BY <1>1
<1>3. Remaining(path) = IF rest # <<>> /\ Head(rest) = Slash THEN Tail(rest) ELSE rest
  BY DEF Remaining
<1> HIDE DEF rest
<1>4. rest # <<>> => Tail(rest) \in Seq(Range(path))
  BY <1>2
<1> QED
  BY <1>2, <1>3, <1>4

LEMMA NamesAre ==
    ASSUME NEW T, NEW s \in Seq(T)
    PROVE  Names(s) \in Seq(Seq(T)) /\ Split(s) \in Seq(Seq(T)) /\ Split(s) # <<>>
<1>1. Split(s) \in Seq(Seq(T)) /\ Split(s) # <<>>
  <2>1. Len(s) \in 0..Len(s)
    OBVIOUS
  <2> QED
    BY <2>1, SplitParts
<1> DEFINE names == Split(s)
<1> HIDE DEF names
<1>2. names \in Seq(Seq(T))
  BY <1>1 DEF names
<1>3. NonEmpty(names) \in Seq(Seq(T))
  <2>1. Len(names) \in 0..Len(names)
    BY <1>2
  <2> QED
    BY <1>2, <2>1, KeptParts
<1> QED
  BY <1>1, <1>3 DEF Names, names

LEMMA RootIs ==
    ASSUME NEW path \in Paths
    PROVE  /\ IsSequence(GetLocation(path).root)
           /\ IsSequence(GetLocation(path).index)
           /\ IsSequence(GetLocation(path).uploadStore)
           /\ GetLocation(path).redirect \in BOOLEAN
  BY LongestIs, FilesAssumption DEF FilesAssumption, GetLocation

LEMMA ResolvedIs ==
    ASSUME NEW path \in Paths
    PROVE  IsSequence(Resolved(path))
<1>1. IsSequence(Names(Remaining(path)))
  BY RemainingIs, NamesAre, SequenceIs
<1> QED
  BY <1>1, RootIs, JoinedIs DEF Resolved

(* A path that ends with a slash ends with an empty name. *)
LEMMA LastName ==
    ASSUME NEW T, NEW s \in Seq(T), Last(Split(s)) # <<>>
    PROVE  s # <<>> /\ Last(s) # Slash
<1>1. PICK p : /\ p[0] = <<<<>>>>
               /\ \A n \in 1..Len(s) : p[n] = Added(p[n - 1], s[n])
               /\ \A n \in 0..Len(s) : p[n] \in Seq(Seq(T)) /\ p[n] # <<>>
               /\ Split(s) = p[Len(s)]
  BY SplitParts
<1>2. ASSUME s = <<>> PROVE FALSE
  <2>1. Split(s) = <<<<>>>>
    BY <1>1, <1>2
  <2> QED
    BY <2>1 DEF Last
<1>3. ASSUME s # <<>>, Last(s) = Slash PROVE FALSE
  <2>1. Len(s) \in 1..Len(s) /\ Len(s) - 1 \in 0..Len(s)
    BY <1>3
  <2> DEFINE before == p[Len(s) - 1]
  <2>2. Split(s) = Append(before, <<>>) /\ before \in Seq(Seq(T))
    BY <2>1, <1>1, <1>3 DEF Added, Last
  <2> HIDE DEF before
  <2>3. Last(Split(s)) = <<>>
    BY <2>2 DEF Last
  <2> QED
    BY <2>3
<1> QED
  BY <1>2, <1>3

(* Where PutHandler looks for the directory. *)
LEMMA PutDirectoryIs ==
    ASSUME NEW path \in Paths
    PROVE  IsSequence(GetLocation(path).root \o NonEmpty(Front(Split(Remaining(path)))))
<1> DEFINE T == Range(path)
           names == Split(Remaining(path))
           t == Front(names)
<1>1. names \in Seq(Seq(T)) /\ names # <<>>
  BY RemainingIs, NamesAre
<1> HIDE DEF names
<1>2. t \in Seq(Seq(T))
  <2>1. Len(names) \in Nat /\ Len(names) > 0 /\ Len(names) - 1 \in Nat /\ Len(names) - 1 <= Len(names)
    BY <1>1
  <2> QED
    BY <2>1, <1>1 DEF Front
<1> HIDE DEF t
<1>3. NonEmpty(t) \in Seq(Seq(T))
  <2>1. Len(t) \in 0..Len(t)
    BY <1>2
  <2> QED
    BY <1>2, <2>1, KeptParts
<1>4. IsSequence(NonEmpty(t))
  BY <1>3, SequenceIs
<1> QED
  BY <1>4, RootIs, JoinedIs DEF t, names

(* PutHandler puts together the name that resolvePath() gives. *)
LEMMA PutIsResolved ==
    ASSUME NEW path \in Paths, Last(Split(Remaining(path))) # <<>>
    PROVE  /\ Append(GetLocation(path).root \o NonEmpty(Front(Split(Remaining(path)))),
                     Last(Split(Remaining(path)))) = Resolved(path)
           /\ ~NamesDirectory(path)
<1> DEFINE T == Range(path)
           rest == Remaining(path)
           names == Split(rest)
           front == NonEmpty(Front(names))
           root == GetLocation(path).root
           U == Range(root) \cup Seq(T)
<1>1. rest \in Seq(T) /\ names \in Seq(Seq(T)) /\ names # <<>> /\ Last(names) # <<>>
  BY RemainingIs, NamesAre
<1> HIDE DEF names
<1>2. NonEmpty(names) = Append(front, Last(names))
  BY <1>1, KeepsLast
<1>3. Front(names) \in Seq(Seq(T)) /\ Last(names) \in Seq(T)
  <2>1. Len(names) \in Nat /\ Len(names) > 0 /\ Len(names) - 1 \in Nat /\ Len(names) - 1 <= Len(names)
    BY <1>1
  <2> QED
    BY <2>1, <1>1 DEF Front, Last
<1>4. front \in Seq(Seq(T))
  <2> DEFINE f == Front(names)
  <2> HIDE DEF f
  <2>1. f \in Seq(Seq(T))
    BY <1>3 DEF f
  <2>2. Len(f) \in 0..Len(f)
    BY <2>1
  <2>3. NonEmpty(f) \in Seq(Seq(T))
    BY <2>1, <2>2, KeptParts
  <2> QED
    BY <2>3 DEF f
<1>5. root \in Seq(U)
  <2>1. root \in Seq(Range(root))
    BY RootIs DEF IsSequence
  <2> QED
    BY <2>1
<1> DEFINE last == Last(names)
<1> HIDE DEF front, root, last, U
<1>6. front \in Seq(U) /\ last \in U
  BY <1>3, <1>4 DEF U, last
<1>7. Append(root \o front, last) = root \o Append(front, last)
  BY <1>5, <1>6
<1>8. Resolved(path) = root \o NonEmpty(names)
  BY DEF Resolved, Names, root, names
<1>9. ~NamesDirectory(path)
  BY <1>1, LastName DEF NamesDirectory, names
<1> QED
  BY <1>2, <1>7, <1>8, <1>9 DEF front, root, last, names

-----------------------------------------------------------------------------
(* The invariant. *)
Fields == {"at", "method", "path", "type", "body", "file", "size", "dir", "status",
           "what", "text"}
Typed ==
    /\ \A f \in DOMAIN fs : IsSequence(f) /\ IsNode(fs[f])
    /\ IsTree(fs)
    /\ DOMAIN job = Fields
    /\ IsSequence(job.body)
    /\ job.at # "idle" => job.path \in Paths /\ fs \in moments
    /\ DOMAIN stored = Paths

(* Each test that a handler has made was true of the files at a moment of  *)
(* the request; ms are these moments. *)
WasDirectory(ms, path) == \E files \in ms : Kind(files, Resolved(path)) = "dir"
WasFile(ms, f) == \E files \in ms : Kind(files, f) = "file"
WasNoFile(ms, f) == \E files \in ms : Kind(files, f) # "file"
WasMissing(ms, path) == \E files \in ms : ~Exists(files, path)
HadSize(ms, f, size) ==
    \E files \in ms : Kind(files, f) = "file" /\ Len(files[f].body) = size
Began(ms, f, text) ==
    \E files \in ms : Kind(files, f) = "file" /\ IsPrefix(text, files[f].body)
Listed(ms, path, text) ==
    \E files \in ms : /\ Kind(files, Resolved(path)) = "dir"
                      /\ text = <<In(files, Resolved(path))>>
NoPage(ms, code) == \E files \in ms : ~ReadsPage(files, ErrorPage(code))

IndexOf(path) == Resolved(path) \o Names(GetLocation(path).index)
PutFile(path) ==
    Append(GetLocation(path).root \o NonEmpty(Front(Split(Remaining(path)))),
           Last(Split(Remaining(path))))

(* A handler works on the path, not a script and not RedirectMiddleware. *)
Allowed(path) == ~GetLocation(path).redirect /\ ~IsCgiRequest(path)

(* What a handler knows before each of its calls. *)
Failed(ms, j) ==
    /\ j.status \in {403, 404, 405, 500, 501}
    /\ j.status = 404 /\ j.method # "POST" => WasMissing(ms, j.path)
Knows(ms, j) ==
    \/ j.at = "handle" /\ ~j.dir /\ j.what = "nothing"
    \/ /\ j.at = "stat" /\ j.method \in {"GET", "HEAD", "DELETE"}
       /\ j.file = Resolved(j.path) /\ ~j.dir
    \/ /\ j.at \in {"index", "list"} /\ j.method \in {"GET", "HEAD"}
       /\ j.file = Resolved(j.path) /\ j.dir /\ WasDirectory(ms, j.path)
    \/ /\ j.at = "read" /\ j.method \in {"GET", "HEAD"} /\ j.size \in Nat
       /\ \/ j.file = Resolved(j.path) /\ ~j.dir
          \/ j.file = IndexOf(j.path) /\ j.dir /\ WasDirectory(ms, j.path)
       /\ HadSize(ms, j.file, j.size)
    \/ j.at = "target" /\ j.method = "PUT" /\ j.file = PutFile(j.path) /\ ~j.dir
    \/ /\ j.at = "write" /\ j.method = "PUT" /\ j.file = PutFile(j.path) /\ ~j.dir
       /\ \/ j.status = 204 /\ WasFile(ms, j.file)
          \/ j.status = 201 /\ WasNoFile(ms, j.file)
    \/ /\ j.at = "write" /\ j.method = "POST" /\ ~j.dir
       /\ j.file = GetLocation(j.path).uploadStore
    \/ /\ j.at \in {"access", "remove"} /\ j.method = "DELETE" /\ ~j.dir
       /\ j.file = Resolved(j.path) /\ WasFile(ms, j.file)
    \/ j.at = "page" /\ Failed(ms, j)
    \/ j.at = "serve" /\ Failed(ms, j) /\ (~j.dir => j.text = ErrorPage(j.status))

(* An answer is true; files are those the request has changed. *)
Truth(ms, j, files) ==
    /\ files = IF j.status \notin {201, 204} THEN {}
               ELSE IF j.method = "POST" THEN {j.file} ELSE {Resolved(j.path)}
    /\ j.what = "file" =>
          /\ \/ j.file = Resolved(j.path)
             \/ j.file = IndexOf(j.path) /\ WasDirectory(ms, j.path)
          /\ j.method = "GET" =>
                Began(ms, j.file, j.text) /\ HadSize(ms, j.file, Len(j.text))
    /\ j.what = "listing" /\ j.method = "GET" => Listed(ms, j.path, j.text)
    /\ j.status = 301 => WasDirectory(ms, j.path)
    /\ j.status = 404 /\ j.method # "POST" => WasMissing(ms, j.path)
    /\ j.status = 201 => WasNoFile(ms, j.file)
    /\ j.status = 204 => WasFile(ms, Resolved(j.path))
    /\ j.what = "page" /\ j.status >= 400 /\ ~j.dir => NoPage(ms, j.status)

Working(ms, j, files) ==
    /\ j.at \notin {"idle", "done"} =>
          /\ files = {} /\ Knows(ms, j)
          /\ ~GetLocation(j.path).redirect
          /\ j.at \notin {"page", "serve"} => Allowed(j.path)
    /\ j.at = "done" /\ j.what # "script" /\ ~GetLocation(j.path).redirect =>
          Truth(ms, j, files)

(* What a client can expect is what there is. *)
There(files, path, node) ==
    LET f == Resolved(path)
    IN \/ node = Unknown
       \/ node = Absent /\ f \notin DOMAIN files
       \/ /\ node.kind = "file" /\ node.open
          /\ f \in DOMAIN files /\ files[f] = node
          /\ \A d \in Above(f) : d \in DOMAIN files /\ files[d].kind = "dir" /\ files[d].open
          /\ ~NamesDirectory(path)

(* A request for it comes to nothing else. *)
Foreseen(j, node) ==
    j.method = "GET" /\ node # Unknown =>
       \/ j.at \in {"handle", "stat"}
       \/ j.at \in {"page", "serve", "done"} /\ j.status = 405
       \/ node = Absent /\ j.at \in {"page", "serve", "done"} /\ j.status = 404
       \/ /\ node.kind = "file" /\ j.at = "read"
          /\ j.file = Resolved(j.path) /\ j.size = Len(node.body)
       \/ /\ node.kind = "file" /\ j.at = "done"
          /\ j.status = 200 /\ j.text = node.body

Expected(files, told) ==
    \A path \in Paths :
       There(files, path, told[path]) /\ (told[path] # Unknown => Allowed(path))

IInv ==
    /\ Typed
    /\ Working(moments, job, mine)
    /\ Expected(fs, stored)
    /\ job.at # "idle" => Foreseen(job, stored[job.path])

LEMMA TruthIs ==
    AnswersTrue <=>
       (job.at = "done" /\ job.what # "script" /\ ~GetLocation(job.path).redirect =>
           Truth(moments, job, mine))
  BY DEF AnswersTrue, Truth, WasDirectory, WasFile, WasNoFile, WasMissing, HadSize, Began,
         Listed, NoPage, IndexOf


-----------------------------------------------------------------------------
(* Steps that only look. *)
InWork == job.at \notin {"idle", "done"}

(* The job goes on as j. *)
Follows(j) ==
    /\ DOMAIN j = Fields
    /\ j.path = job.path /\ j.method = job.method /\ j.body = job.body
    /\ j.at # "idle"

LEMMA LookKeeps ==
    ASSUME IInv, InWork, NEW j, Look(j), Follows(j),
           Working(moments, j, {}), Foreseen(j, stored[job.path])
    PROVE  IInv'
<1>1. /\ fs' = fs /\ moments' = moments /\ mine' = mine /\ stored' = stored /\ job' = j
      /\ mine = {}
  BY DEF Look, IInv, Working, InWork
<1>2. Typed'
  BY <1>1 DEF IInv, Typed, IsTree, Follows, InWork
<1>3. Working(moments, job, mine)'
  <2>1. Working(moments', job', mine')
    BY <1>1
  <2> QED
    BY <2>1 DEF Working, Knows, Truth, Failed, WasDirectory, WasFile, WasNoFile, WasMissing,
                HadSize, Began, Listed, NoPage
<1>4. Expected(fs, stored)'
  <2>1. Expected(fs', stored')
    BY <1>1 DEF IInv
  <2> QED
    BY <2>1 DEF Expected, There
<1>5. (job.at # "idle" => Foreseen(job, stored[job.path]))'
  BY <1>1 DEF Foreseen, Follows
<1> QED
  BY <1>2, <1>3, <1>4, <1>5 DEF IInv

LEMMA WorkIs ==
    ASSUME IInv, InWork
    PROVE  /\ DOMAIN job = Fields /\ job.path \in Paths /\ fs \in moments /\ mine = {}
           /\ ~GetLocation(job.path).redirect /\ Knows(moments, job)
           /\ job.at \notin {"page", "serve"} => Allowed(job.path)
           /\ There(fs, job.path, stored[job.path])
           /\ Foreseen(job, stored[job.path])
           /\ \A f \in DOMAIN fs : IsSequence(f) /\ IsNode(fs[f])
  BY DEF IInv, Typed, Working, Expected, InWork

LEMMA FailIs ==
    ASSUME DOMAIN job = Fields, NEW code, NEW j, j = Fail(code)
    PROVE  /\ DOMAIN j = Fields /\ j.at = "page" /\ j.status = code
           /\ j.path = job.path /\ j.method = job.method /\ j.body = job.body
  BY DEF Fail, Fields

LEMMA FailKeeps ==
    ASSUME IInv, InWork, NEW code \in {403, 404, 405, 500, 501}, Look(Fail(code)),
           code = 404 /\ job.method # "POST" => WasMissing(moments, job.path),
           job.method = "GET" /\ stored[job.path] # Unknown =>
              code = 404 /\ stored[job.path] = Absent
    PROVE  IInv'
<1> DEFINE j == Fail(code)
<1>1. /\ DOMAIN j = Fields /\ j.at = "page" /\ j.status = code
      /\ j.path = job.path /\ j.method = job.method /\ j.body = job.body
  BY WorkIs, FailIs
<1> HIDE DEF j
<1>2. Follows(j)
  BY <1>1 DEF Follows
<1>3. Failed(moments, j)
  BY <1>1 DEF Failed
<1>4. Working(moments, j, {})
  BY <1>1, <1>3, WorkIs DEF Working, Knows
<1>5. Foreseen(j, stored[job.path])
  BY <1>1 DEF Foreseen
<1>6. Look(j)
  BY DEF j
<1> QED
  BY <1>2, <1>4, <1>5, <1>6, LookKeeps

LEMMA AnswerIs ==
    ASSUME DOMAIN job = Fields, NEW code, NEW what, NEW j, j = Answer(code, what)
    PROVE  /\ DOMAIN j = Fields /\ j.at = "done" /\ j.status = code /\ j.what = what
           /\ j.path = job.path /\ j.method = job.method /\ j.body = job.body
           /\ j.file = job.file /\ j.dir = job.dir
  BY DEF Answer, Fields

LEMMA ResolveKeeps == IInv /\ Resolve => IInv'
<1> SUFFICES ASSUME IInv, Resolve PROVE IInv'
  OBVIOUS
<1>1. InWork /\ job.at = "handle" /\ job.method \in {"GET", "HEAD", "DELETE"}
  BY DEF Resolve, At, InWork
<1>2. CASE Exists(fs, job.path)
  <2> DEFINE j == [On("stat") EXCEPT !.file = Resolved(job.path)]
  <2>1. Look(j)
    BY <1>2 DEF Resolve
  <2>2. /\ DOMAIN j = Fields /\ j.path = job.path /\ j.method = job.method
        /\ j.body = job.body /\ j.at = "stat" /\ j.file = Resolved(job.path)
        /\ j.dir = job.dir
    BY WorkIs, <1>1 DEF On, Fields
  <2> HIDE DEF j
  <2>3. ~job.dir
    BY <1>1, WorkIs DEF Knows
  <2>4. Working(moments, j, {})
    BY <1>1, <2>2, <2>3, WorkIs DEF Working, Knows
  <2>5. Follows(j) /\ Foreseen(j, stored[job.path])
    BY <2>2 DEF Follows, Foreseen
  <2> QED
    BY <1>1, <2>1, <2>4, <2>5, LookKeeps
<1>3. CASE ~Exists(fs, job.path)
  <2>1. Look(Fail(404))
    BY <1>3 DEF Resolve
  <2>2. WasMissing(moments, job.path)
    BY <1>1, <1>3, WorkIs DEF WasMissing
  <2>3. ASSUME job.method = "GET", stored[job.path] # Unknown
        PROVE  stored[job.path] = Absent
    BY <1>1, <1>3, <2>3, WorkIs DEF There, Exists, Kind, IsNode
  <2> QED
    BY <1>1, <2>1, <2>2, <2>3, FailKeeps
<1> QED
  BY <1>2, <1>3

LEMMA StatKeeps == IInv /\ Stat => IInv'
<1> SUFFICES ASSUME IInv, Stat PROVE IInv'
  OBVIOUS
<1> DEFINE f == Resolved(job.path)
<1>1. InWork /\ job.at = "stat" /\ job.method \in {"GET", "HEAD"}
  BY DEF Stat, At, InWork
<1>2. job.file = f /\ ~job.dir /\ fs \in moments
  BY <1>1, WorkIs DEF Knows
<1>3. CASE Kind(fs, f) = "none"
  <2>1. Look(Fail(404))
    BY <1>2, <1>3 DEF Stat
  <2>2. WasMissing(moments, job.path)
    BY <1>2, <1>3 DEF WasMissing, Exists
  <2>3. ASSUME stored[job.path] # Unknown
        PROVE  stored[job.path] = Absent
    BY <1>1, <1>3, <2>3, WorkIs DEF There, Kind
  <2> QED
    BY <1>1, <2>1, <2>2, <2>3, FailKeeps
<1>4. CASE Kind(fs, f) = "dir"
  <2> DEFINE j == [On("index") EXCEPT !.dir = TRUE]
  <2>1. Look(j)
    BY <1>2, <1>4 DEF Stat
  <2>2. /\ DOMAIN j = Fields /\ j.path = job.path /\ j.method = job.method
        /\ j.body = job.body /\ j.at = "index" /\ j.file = job.file /\ j.dir
    BY WorkIs, <1>1 DEF On, Fields
  <2> HIDE DEF j
  <2>3. WasDirectory(moments, job.path)
    BY <1>2, <1>4 DEF WasDirectory
  <2>4. Working(moments, j, {})
    BY <1>1, <1>2, <2>2, <2>3, WorkIs DEF Working, Knows
  <2>5. stored[job.path] = Unknown
    BY <1>1, <1>4, WorkIs DEF There, Kind
  <2>6. Follows(j) /\ Foreseen(j, stored[job.path])
    BY <2>2, <2>5 DEF Follows, Foreseen
  <2> QED
    BY <1>1, <2>1, <2>4, <2>6, LookKeeps
<1>5. CASE Kind(fs, f) = "file"
  <2> DEFINE j == [On("read") EXCEPT !.size = Len(fs[job.file].body)]
  <2>1. Look(j)
    BY <1>2, <1>5 DEF Stat
  <2>2. /\ DOMAIN j = Fields /\ j.path = job.path /\ j.method = job.method
        /\ j.body = job.body /\ j.at = "read" /\ j.file = job.file /\ j.dir = job.dir
        /\ j.size = Len(fs[f].body)
    BY WorkIs, <1>1, <1>2 DEF On, Fields
  <2> HIDE DEF j
  <2>3. f \in DOMAIN fs /\ Len(fs[f].body) \in Nat
    <3>1. f \in DOMAIN fs
      BY <1>5 DEF Kind
    <3> QED
      BY <3>1, <1>1, WorkIs DEF IsNode, IsSequence
  <2>4. HadSize(moments, f, j.size)
    BY <1>2, <1>5, <2>2 DEF HadSize
  <2>5. Working(moments, j, {})
    BY <1>1, <1>2, <2>2, <2>3, <2>4, WorkIs DEF Working, Knows
  <2>6. ASSUME stored[job.path] # Unknown
        PROVE  stored[job.path].kind = "file" /\ j.size = Len(stored[job.path].body)
    BY <1>1, <2>2, <2>3, <2>6, WorkIs DEF There
  <2>7. Follows(j) /\ Foreseen(j, stored[job.path])
    BY <1>2, <2>2, <2>6 DEF Follows, Foreseen
  <2> QED
    BY <1>1, <2>1, <2>5, <2>7, LookKeeps
<1>6. Kind(fs, f) \in {"none", "dir", "file"}
  BY <1>1, WorkIs DEF Kind, IsNode
<1> QED
  BY <1>3, <1>4, <1>5, <1>6

(* Index, List and Read of a directory find nothing a client was promised. *)
LEMMA ListedUnknown ==
    ASSUME IInv, InWork, job.at \in {"index", "list"}, job.method = "GET"
    PROVE  stored[job.path] = Unknown
  BY WorkIs DEF Foreseen

LEMMA IndexKeeps == IInv /\ Index => IInv'
<1> SUFFICES ASSUME IInv, Index PROVE IInv'
  OBVIOUS
<1> DEFINE loc == GetLocation(job.path)
           index == IndexOf(job.path)
<1>1. InWork /\ job.at = "index" /\ job.method \in {"GET", "HEAD"}
  BY DEF Index, At, InWork
<1>2. /\ job.file = Resolved(job.path) /\ job.dir /\ fs \in moments
      /\ WasDirectory(moments, job.path)
  BY <1>1, WorkIs DEF Knows
<1>3. job.method = "GET" => stored[job.path] = Unknown
  BY <1>1, ListedUnknown
<1>4. \/ /\ Kind(fs, index) = "file"
         /\ Look([On("read") EXCEPT !.file = index, !.size = Len(fs[index].body)])
      \/ Look(Answer(301, "nothing"))
      \/ Look(On("list"))
      \/ Look(Fail(403))
  BY <1>2 DEF Index, IndexOf
<1>5. CASE /\ Kind(fs, index) = "file"
           /\ Look([On("read") EXCEPT !.file = index, !.size = Len(fs[index].body)])
  <2> DEFINE size == Len(fs[index].body)
             j == [On("read") EXCEPT !.file = index, !.size = size]
  <2>1. Look(j)
    BY <1>5
  <2> HIDE DEF index, size
  <2>2. /\ DOMAIN j = Fields /\ j.path = job.path /\ j.method = job.method
        /\ j.body = job.body /\ j.at = "read" /\ j.file = index /\ j.dir = job.dir
        /\ j.size = size
    BY WorkIs, <1>1 DEF On, Fields
  <2> HIDE DEF j
  <2>3. size \in Nat
    <3>1. index \in DOMAIN fs
      BY <1>5 DEF Kind
    <3> QED
      BY <3>1, <1>1, WorkIs DEF IsNode, IsSequence, size
  <2>4. HadSize(moments, index, size)
    BY <1>2, <1>5 DEF HadSize, size
  <2>5. Working(moments, j, {})
    BY <1>1, <1>2, <2>2, <2>3, <2>4, WorkIs DEF Working, Knows, index
  <2>6. Follows(j) /\ Foreseen(j, stored[job.path])
    BY <2>2, <1>3 DEF Follows, Foreseen
  <2> QED
    BY <1>1, <2>1, <2>5, <2>6, LookKeeps
<1>6. CASE Look(Answer(301, "nothing"))
  <2> DEFINE j == Answer(301, "nothing")
  <2>2. /\ DOMAIN j = Fields /\ j.at = "done" /\ j.status = 301 /\ j.what = "nothing"
        /\ j.path = job.path /\ j.method = job.method /\ j.body = job.body
    BY <1>1, WorkIs, AnswerIs
  <2> HIDE DEF j
  <2>3. Truth(moments, j, {})
    BY <1>2, <2>2 DEF Truth
  <2>4. Working(moments, j, {})
    BY <2>2, <2>3 DEF Working
  <2>5. Follows(j) /\ Foreseen(j, stored[job.path])
    BY <2>2, <1>3 DEF Follows, Foreseen
  <2>6. Look(j)
    BY <1>6 DEF j
  <2> QED
    BY <1>1, <2>6, <2>4, <2>5, LookKeeps
<1>7. CASE Look(On("list"))
  <2> DEFINE j == On("list")
  <2>2. /\ DOMAIN j = Fields /\ j.at = "list" /\ j.file = job.file /\ j.dir = job.dir
        /\ j.path = job.path /\ j.method = job.method /\ j.body = job.body
    BY <1>1, WorkIs DEF On, Fields
  <2> HIDE DEF j
  <2>4. Working(moments, j, {})
    BY <2>2, <1>1, <1>2, WorkIs DEF Working, Knows
  <2>5. Follows(j) /\ Foreseen(j, stored[job.path])
    BY <2>2, <1>3 DEF Follows, Foreseen
  <2>6. Look(j)
    BY <1>7 DEF j
  <2> QED
    BY <1>1, <2>6, <2>4, <2>5, LookKeeps
<1>8. CASE Look(Fail(403))
  BY <1>1, <1>3, <1>8, FailKeeps
<1> QED
  BY <1>4, <1>5, <1>6, <1>7, <1>8

LEMMA ListKeeps == IInv /\ List => IInv'
<1> SUFFICES ASSUME IInv, List PROVE IInv'
  OBVIOUS
<1>1. InWork /\ job.at = "list" /\ job.method \in {"GET", "HEAD"}
  BY DEF List, At, InWork
<1>2. job.file = Resolved(job.path) /\ fs \in moments
  BY <1>1, WorkIs DEF Knows
<1>3. job.method = "GET" => stored[job.path] = Unknown
  BY <1>1, ListedUnknown
<1> DEFINE text == IF job.method = "HEAD" THEN <<>> ELSE <<In(fs, job.file)>>
           j == [Answer(200, "listing") EXCEPT !.text = text]
<1>4. (Kind(fs, job.file) = "dir" /\ Look(j)) \/ Look(Fail(500))
  BY DEF List
<1>5. CASE Kind(fs, job.file) = "dir" /\ Look(j)
  <2>1. job.method = "GET" => text = <<In(fs, Resolved(job.path))>>
    BY <1>2
  <2> HIDE DEF text
  <2>2. /\ DOMAIN j = Fields /\ j.at = "done" /\ j.status = 200 /\ j.what = "listing"
        /\ j.path = job.path /\ j.method = job.method /\ j.body = job.body /\ j.text = text
    BY <1>1, WorkIs, AnswerIs DEF Fields
  <2> HIDE DEF j
  <2>3. job.method = "GET" => Listed(moments, job.path, text)
    BY <1>2, <1>5, <2>1 DEF Listed
  <2>4. Truth(moments, j, {})
    BY <2>2, <2>3 DEF Truth
  <2>5. Working(moments, j, {}) /\ Follows(j) /\ Foreseen(j, stored[job.path])
    BY <2>2, <2>4, <1>3 DEF Working, Follows, Foreseen
  <2> QED
    BY <1>1, <1>5, <2>5, LookKeeps
<1>6. CASE Look(Fail(500))
  BY <1>1, <1>3, <1>6, FailKeeps
<1> QED
  BY <1>4, <1>5, <1>6

LEMMA StartOf ==
    ASSUME NEW body, IsSequence(body), NEW size \in Nat, ~(Len(body) < size)
    PROVE  LET text == SubSeq(body, 1, size)
           IN /\ IsPrefix(text, body) /\ Len(text) = size
              /\ size = Len(body) => text = body
<1>1. body \in Seq(Range(body)) /\ Len(body) \in Nat /\ size <= Len(body)
  BY DEF IsSequence
<1> DEFINE text == SubSeq(body, 1, size)
<1>2. text \in Seq(Range(body)) /\ Len(text) = size
  BY <1>1
<1>3. SubSeq(text, 1, Len(text)) = text
  BY <1>2
<1>4. size = Len(body) => text = body
  BY <1>1
<1> QED
  BY <1>1, <1>2, <1>3, <1>4 DEF IsPrefix

LEMMA ReadKeeps == IInv /\ Read => IInv'
<1> SUFFICES ASSUME IInv, Read PROVE IInv'
  OBVIOUS
<1> DEFINE body == fs[job.file].body
           node == stored[job.path]
<1>1. InWork /\ job.at = "read" /\ job.method \in {"GET", "HEAD"}
  BY DEF Read, At, InWork
<1>2. /\ fs \in moments /\ job.size \in Nat /\ HadSize(moments, job.file, job.size)
      /\ \/ job.file = Resolved(job.path)
         \/ job.file = IndexOf(job.path) /\ WasDirectory(moments, job.path)
  BY <1>1, WorkIs DEF Knows
<1>3. ASSUME job.method = "GET", node # Unknown
      PROVE  /\ node.kind = "file" /\ job.file = Resolved(job.path)
             /\ job.size = Len(node.body)
             /\ job.file \in DOMAIN fs /\ fs[job.file] = node /\ ~IsDenied(fs, job.file)
             /\ Kind(fs, job.file) = "file"
  <2>1. /\ node.kind = "file" /\ job.file = Resolved(job.path)
        /\ job.size = Len(node.body)
    BY <1>1, <1>3, WorkIs DEF Foreseen
  <2>2. node # Absent
    BY <2>1 DEF Absent
  <2>3. /\ job.file \in DOMAIN fs /\ fs[job.file] = node /\ node.open
        /\ \A d \in Above(job.file) : d \in DOMAIN fs /\ fs[d].kind = "dir" /\ fs[d].open
    BY <1>1, <1>3, <2>1, <2>2, WorkIs DEF There
  <2>4. Kind(fs, job.file) = "file" /\ ~IsDenied(fs, job.file)
    BY <2>1, <2>3 DEF Kind, IsDenied
  <2> QED
    BY <2>1, <2>3, <2>4
<1> DEFINE text == IF job.method = "HEAD" THEN <<>> ELSE SubSeq(body, 1, job.size)
           j == [Answer(200, "file") EXCEPT !.text = text]
<1>4. \/ Look(Fail(403)) /\ IsDenied(fs, job.file)
      \/ Look(Fail(500)) /\ (Kind(fs, job.file) # "file" \/ Len(body) < job.size)
      \/ Kind(fs, job.file) = "file" /\ ~(Len(body) < job.size) /\ Look(j)
  <2>1. CASE IsDenied(fs, job.file)
    BY <2>1 DEF Read
  <2>2. CASE /\ ~IsDenied(fs, job.file)
             /\ Kind(fs, job.file) # "file" \/ Len(body) < job.size
    BY <2>2 DEF Read, TryRead
  <2>3. CASE /\ ~IsDenied(fs, job.file)
             /\ Kind(fs, job.file) = "file" /\ ~(Len(body) < job.size)
    <3>1. TryRead(body, job.size) = [ok |-> TRUE, text |-> SubSeq(body, 1, job.size)]
      BY <2>3 DEF TryRead
    <3> QED
      BY <2>3, <3>1 DEF Read
  <2> QED
    BY <2>1, <2>2, <2>3
<1>5. CASE Kind(fs, job.file) = "file" /\ ~(Len(body) < job.size) /\ Look(j)
  <2>0. IsSequence(body) /\ job.file \in DOMAIN fs
    <3>1. job.file \in DOMAIN fs
      BY <1>5 DEF Kind
    <3> QED
      BY <3>1, <1>1, WorkIs DEF IsNode
  <2>1. job.method = "GET" => /\ IsPrefix(text, body) /\ Len(text) = job.size
                              /\ job.size = Len(body) => text = body
    BY <1>2, <1>5, <2>0, StartOf
  <2> HIDE DEF text
  <2>2. /\ DOMAIN j = Fields /\ j.at = "done" /\ j.status = 200 /\ j.what = "file"
        /\ j.path = job.path /\ j.method = job.method /\ j.body = job.body /\ j.text = text
        /\ j.file = job.file
    BY <1>1, WorkIs, AnswerIs DEF Fields
  <2> HIDE DEF j
  <2>3. job.method = "GET" => Began(moments, job.file, text)
    BY <1>2, <1>5, <2>1 DEF Began
  <2>4. Truth(moments, j, {})
    BY <1>2, <2>1, <2>2, <2>3 DEF Truth
  <2>5. Working(moments, j, {}) /\ Follows(j)
    BY <2>2, <2>4 DEF Working, Follows
  <2>6. Foreseen(j, stored[job.path])
    BY <1>3, <2>1, <2>2 DEF Foreseen
  <2> QED
    BY <1>1, <1>5, <2>5, <2>6, LookKeeps
<1>6. CASE Look(Fail(403)) /\ IsDenied(fs, job.file)
  BY <1>1, <1>3, <1>6, FailKeeps
<1>7. CASE Look(Fail(500)) /\ (Kind(fs, job.file) # "file" \/ Len(body) < job.size)
  <2>1. job.method = "GET" => node = Unknown
    <3>1. ASSUME job.method = "GET", node # Unknown PROVE FALSE
      <4>1. Kind(fs, job.file) = "file" /\ body = node.body /\ job.size = Len(node.body)
        BY <1>3, <3>1
      <4> QED
        BY <4>1, <1>7, <1>2
    <3> QED
      BY <3>1
  <2> QED
    BY <1>1, <1>7, <2>1, FailKeeps
<1> QED
  BY <1>4, <1>5, <1>6, <1>7

LEMMA FindDirectoryKeeps == IInv /\ FindDirectory => IInv'
<1> SUFFICES ASSUME IInv, FindDirectory PROVE IInv'
  OBVIOUS
<1>1. InWork /\ job.at = "handle" /\ job.method = "PUT"
  BY DEF FindDirectory, At, InWork
<1> DEFINE f == PutFile(job.path)
           j == [On("target") EXCEPT !.file = f]
<1>2. Look(Fail(500)) \/ Look(j)
  BY DEF FindDirectory, PutDirectory, PutNames, PutFile
<1>3. CASE Look(j)
  <2> HIDE DEF f
  <2>1. /\ DOMAIN j = Fields /\ j.at = "target" /\ j.file = f /\ j.dir = job.dir
        /\ j.path = job.path /\ j.method = job.method /\ j.body = job.body
    BY <1>1, WorkIs DEF On, Fields
  <2> HIDE DEF j
  <2>2. ~job.dir
    BY <1>1, WorkIs DEF Knows
  <2>3. Working(moments, j, {}) /\ Follows(j) /\ Foreseen(j, stored[job.path])
    BY <1>1, <2>1, <2>2, WorkIs DEF Working, Knows, Follows, Foreseen, f
  <2> QED
    BY <1>1, <1>3, <2>3, LookKeeps
<1>4. CASE Look(Fail(500))
  BY <1>1, <1>4, FailKeeps
<1> QED
  BY <1>2, <1>3, <1>4

LEMMA FindTargetKeeps == IInv /\ FindTarget => IInv'
<1> SUFFICES ASSUME IInv, FindTarget PROVE IInv'
  OBVIOUS
<1>1. InWork /\ job.at = "target" /\ job.method = "PUT"
  BY DEF FindTarget, At, InWork
<1>2. job.file = PutFile(job.path) /\ ~job.dir /\ fs \in moments
  BY <1>1, WorkIs DEF Knows
<1> DEFINE status == IF Kind(fs, job.file) = "file" THEN 204 ELSE 201
           j == [On("write") EXCEPT !.status = status]
<1>3. Look(j)
  BY DEF FindTarget
<1>4. \/ status = 204 /\ WasFile(moments, job.file)
      \/ status = 201 /\ WasNoFile(moments, job.file)
  BY <1>2 DEF WasFile, WasNoFile
<1> HIDE DEF status
<1>5. /\ DOMAIN j = Fields /\ j.at = "write" /\ j.file = job.file /\ j.dir = job.dir
      /\ j.path = job.path /\ j.method = job.method /\ j.body = job.body
      /\ j.status = status
  BY <1>1, WorkIs DEF On, Fields
<1> HIDE DEF j
<1>6. Working(moments, j, {}) /\ Follows(j) /\ Foreseen(j, stored[job.path])
  BY <1>1, <1>2, <1>4, <1>5, WorkIs DEF Working, Knows, Follows, Foreseen
<1> QED
  BY <1>1, <1>3, <1>6, LookKeeps

LEMMA FindStoreKeeps == IInv /\ FindStore => IInv'
<1> SUFFICES ASSUME IInv, FindStore PROVE IInv'
  OBVIOUS
<1>1. InWork /\ job.at = "handle" /\ job.method = "POST"
  BY DEF FindStore, At, InWork
<1> DEFINE store == GetLocation(job.path).uploadStore
           j == [On("write") EXCEPT !.file = store]
<1>2. Look(Fail(404)) \/ Look(Fail(500)) \/ Look(Fail(403)) \/ Look(j)
  BY DEF FindStore
<1>3. CASE Look(j)
  <2> HIDE DEF store
  <2>1. /\ DOMAIN j = Fields /\ j.at = "write" /\ j.file = store /\ j.dir = job.dir
        /\ j.path = job.path /\ j.method = job.method /\ j.body = job.body
    BY <1>1, WorkIs DEF On, Fields
  <2> HIDE DEF j
  <2>2. ~job.dir
    BY <1>1, WorkIs DEF Knows
  <2>3. Working(moments, j, {}) /\ Follows(j) /\ Foreseen(j, stored[job.path])
    BY <1>1, <2>1, <2>2, WorkIs DEF Working, Knows, Follows, Foreseen, store
  <2> QED
    BY <1>1, <1>3, <2>3, LookKeeps
<1>4. ASSUME NEW code \in {403, 404, 500}, Look(Fail(code)) PROVE IInv'
  BY <1>1, <1>4, FailKeeps
<1> QED
  BY <1>2, <1>3, <1>4

LEMMA StatVictimKeeps == IInv /\ StatVictim => IInv'
<1> SUFFICES ASSUME IInv, StatVictim PROVE IInv'
  OBVIOUS
<1>1. InWork /\ job.at = "stat" /\ job.method = "DELETE"
  BY DEF StatVictim, At, InWork
<1>2. job.file = Resolved(job.path) /\ ~job.dir /\ fs \in moments
  BY <1>1, WorkIs DEF Knows
<1> DEFINE j == On("access")
<1>3. \/ Kind(fs, job.file) = "none" /\ Look(Fail(404))
      \/ Look(Fail(403))
      \/ Kind(fs, job.file) = "file" /\ Look(j)
  <2>1. Kind(fs, job.file) \in {"none", "dir", "file"}
    BY <1>1, WorkIs DEF Kind, IsNode
  <2> QED
    BY <2>1 DEF StatVictim
<1>4. CASE Kind(fs, job.file) = "none" /\ Look(Fail(404))
  <2>1. WasMissing(moments, job.path)
    BY <1>2, <1>4 DEF WasMissing, Exists
  <2> QED
    BY <1>1, <1>4, <2>1, FailKeeps
<1>5. CASE Look(Fail(403))
  BY <1>1, <1>5, FailKeeps
<1>6. CASE Kind(fs, job.file) = "file" /\ Look(j)
  <2>1. /\ DOMAIN j = Fields /\ j.at = "access" /\ j.file = job.file /\ j.dir = job.dir
        /\ j.path = job.path /\ j.method = job.method /\ j.body = job.body
    BY <1>1, WorkIs DEF On, Fields
  <2> HIDE DEF j
  <2>2. WasFile(moments, job.file)
    BY <1>2, <1>6 DEF WasFile
  <2>3. Working(moments, j, {}) /\ Follows(j) /\ Foreseen(j, stored[job.path])
    BY <1>1, <1>2, <2>1, <2>2, WorkIs DEF Working, Knows, Follows, Foreseen
  <2> QED
    BY <1>1, <1>6, <2>3, LookKeeps
<1> QED
  BY <1>3, <1>4, <1>5, <1>6

LEMMA CheckAccessKeeps == IInv /\ CheckAccess => IInv'
<1> SUFFICES ASSUME IInv, CheckAccess PROVE IInv'
  OBVIOUS
<1>1. InWork /\ job.at = "access" /\ job.method = "DELETE"
  BY DEF CheckAccess, At, InWork
<1>2. job.file = Resolved(job.path) /\ ~job.dir /\ WasFile(moments, job.file)
  BY <1>1, WorkIs DEF Knows
<1> DEFINE j == On("remove")
<1>3. Look(j) \/ Look(Fail(403))
  BY DEF CheckAccess
<1>4. CASE Look(j)
  <2>1. /\ DOMAIN j = Fields /\ j.at = "remove" /\ j.file = job.file /\ j.dir = job.dir
        /\ j.path = job.path /\ j.method = job.method /\ j.body = job.body
    BY <1>1, WorkIs DEF On, Fields
  <2> HIDE DEF j
  <2>2. Working(moments, j, {}) /\ Follows(j) /\ Foreseen(j, stored[job.path])
    BY <1>1, <1>2, <2>1, WorkIs DEF Working, Knows, Follows, Foreseen
  <2> QED
    BY <1>1, <1>4, <2>2, LookKeeps
<1>5. CASE Look(Fail(403))
  BY <1>1, <1>5, FailKeeps
<1> QED
  BY <1>3, <1>4, <1>5

LEMMA ChoosePageKeeps == IInv /\ ChoosePage => IInv'
<1> SUFFICES ASSUME IInv, ChoosePage PROVE IInv'
  OBVIOUS
<1>1. InWork /\ job.at = "page"
  BY DEF ChoosePage, InWork
<1>2. Failed(moments, job)
  BY <1>1, WorkIs DEF Knows
<1>3. PICK text : Look([On("serve") EXCEPT !.text = text]) /\ (~job.dir => text = ErrorPage(job.status))
  <2> DEFINE own == LocationPath(job.path) \o <<Slash>> \o GetLocation(job.path).directoryError
             text == IF job.dir /\ GetLocation(job.path).directoryError # <<>> /\ ReadsPage(fs, own)
                     THEN own ELSE ErrorPage(job.status)
  <2>1. Look([On("serve") EXCEPT !.text = text])
    BY DEF ChoosePage
  <2>2. ~job.dir => text = ErrorPage(job.status)
    OBVIOUS
  <2> QED
    BY <2>1, <2>2
<1> DEFINE j == [On("serve") EXCEPT !.text = text]
<1>4. /\ DOMAIN j = Fields /\ j.at = "serve" /\ j.status = job.status /\ j.dir = job.dir
      /\ j.path = job.path /\ j.method = job.method /\ j.body = job.body /\ j.text = text
  BY <1>1, WorkIs DEF On, Fields
<1>5. Look(j)
  BY <1>3
<1> HIDE DEF j
<1>6. Failed(moments, j) /\ (~j.dir => j.text = ErrorPage(j.status))
  BY <1>2, <1>3, <1>4 DEF Failed
<1>7. Working(moments, j, {}) /\ Follows(j)
  BY <1>1, <1>4, <1>6, WorkIs DEF Working, Knows, Follows
<1>8. Foreseen(j, stored[job.path])
  BY <1>1, <1>4, WorkIs DEF Foreseen
<1> QED
  BY <1>1, <1>5, <1>7, <1>8, LookKeeps

LEMMA NothingReads ==
    ASSUME NEW files
    PROVE  ~ReadsPage(files, <<>>)
<1> DEFINE none == <<>>
<1>1. Len(none) = 0
  OBVIOUS
<1>2. none \notin DOMAIN Locations
  BY FilesAssumption DEF FilesAssumption
<1> HIDE DEF none
<1>3. ASSUME NEW l \in DOMAIN Locations, IsPrefix(l, none) PROVE FALSE
  <2>1. Len(l) <= 0
    BY <1>1, <1>3 DEF IsPrefix
  <2>2. l \in Seq(Range(l))
    BY FilesAssumption DEF FilesAssumption, IsSequence
  <2>3. l = <<>>
    BY <2>1, <2>2
  <2> QED
    BY <2>3, <1>2 DEF none
<1>4. Matches(none) = {}
  BY <1>3 DEF Matches
<1> QED
  BY <1>4 DEF ReadsPage, none

LEMMA ServePageKeeps == IInv /\ ServePage => IInv'
<1> SUFFICES ASSUME IInv, ServePage PROVE IInv'
  OBVIOUS
<1>1. InWork /\ job.at = "serve"
  BY DEF ServePage, InWork
<1>2. /\ Failed(moments, job) /\ (~job.dir => job.text = ErrorPage(job.status))
      /\ fs \in moments
  BY <1>1, WorkIs DEF Knows
<1>3. PICK what \in {"custom", "page"} : \E text :
         /\ Look([Answer(job.status, what) EXCEPT !.text = text])
         /\ what = "page" => ~ReadsPage(fs, job.text)
  <2>1. CASE job.text # <<>> /\ ReadsPage(fs, job.text)
    BY <2>1 DEF ServePage
  <2>2. CASE ~(job.text # <<>> /\ ReadsPage(fs, job.text))
    <3>1. ~ReadsPage(fs, job.text)
      BY <2>2, NothingReads
    <3>2. Look([Answer(job.status, "page") EXCEPT !.text = <<>>])
      BY <2>2 DEF ServePage
    <3> QED
      BY <3>1, <3>2
  <2> QED
    BY <2>1, <2>2
<1>4. PICK text : /\ Look([Answer(job.status, what) EXCEPT !.text = text])
                  /\ what = "page" => ~ReadsPage(fs, job.text)
  BY <1>3
<1> DEFINE j == [Answer(job.status, what) EXCEPT !.text = text]
<1>5. /\ DOMAIN j = Fields /\ j.at = "done" /\ j.status = job.status /\ j.what = what
      /\ j.path = job.path /\ j.method = job.method /\ j.body = job.body /\ j.dir = job.dir
  <2> DEFINE a == Answer(job.status, what)
  <2>1. /\ DOMAIN a = Fields /\ a.at = "done" /\ a.status = job.status /\ a.what = what
        /\ a.path = job.path /\ a.method = job.method /\ a.body = job.body /\ a.dir = job.dir
    BY <1>1, WorkIs, AnswerIs
  <2> HIDE DEF a
  <2>2. j = [a EXCEPT !.text = text]
    BY DEF a
  <2> QED
    BY <2>1, <2>2 DEF Fields
<1>6. Look(j)
  BY <1>4
<1> HIDE DEF j
<1>7. /\ j.status \in {403, 404, 405, 500, 501} /\ j.what \notin {"file", "listing"}
      /\ j.status = 404 /\ j.method # "POST" => WasMissing(moments, j.path)
  BY <1>2, <1>4, <1>5 DEF Failed
<1>8. j.what = "page" /\ ~j.dir => NoPage(moments, j.status)
  BY <1>2, <1>4, <1>5 DEF NoPage
<1>9. Truth(moments, j, {})
  BY <1>7, <1>8 DEF Truth
<1>10. Working(moments, j, {}) /\ Follows(j)
  BY <1>1, <1>5, <1>9, WorkIs DEF Working, Follows
<1>11. Foreseen(j, stored[job.path])
  BY <1>1, <1>5, WorkIs DEF Foreseen
<1> QED
  BY <1>1, <1>6, <1>10, <1>11, LookKeeps

-----------------------------------------------------------------------------
(* Steps that change the files. *)
Changed(g, files, f, node) ==
    /\ node = Absent => DOMAIN g = DOMAIN files \ {f}
    /\ node # Absent => DOMAIN g = DOMAIN files \cup {f} /\ g[f] = node
    /\ \A x \in DOMAIN g : x # f => x \in DOMAIN files /\ g[x] = files[x]

LEMMA WithIs ==
    ASSUME NEW files, NEW f, NEW node
    PROVE  Changed(With(files, f, node), files, f, node)
<1>1. CASE node = Absent
  BY <1>1 DEF Changed, With, Erase, Restrict
<1>2. CASE node # Absent
  BY <1>2 DEF Changed, With, Put
<1> QED
  BY <1>1, <1>2

LEMMA AboveIs ==
    ASSUME NEW s, IsSequence(s), NEW d \in Above(s)
    PROVE  /\ IsPrefix(d, s) /\ Len(d) \in 1..(Len(s) - 1) /\ d # s
           /\ d = SubSeq(s, 1, Len(d))
<1>1. s \in Seq(Range(s)) /\ Len(s) \in Nat
  BY DEF IsSequence
<1>2. PICK n \in 1..(Len(s) - 1) : d = SubSeq(s, 1, n)
  BY DEF Above
<1>3. n \in Nat /\ n <= Len(s) /\ n < Len(s) /\ 1 <= n
  BY <1>1
<1>4. d \in Seq(Range(s)) /\ Len(d) = n
  BY <1>1, <1>2, <1>3
<1>5. SubSeq(d, 1, Len(d)) = d
  BY <1>4
<1> QED
  BY <1>1, <1>2, <1>3, <1>4, <1>5 DEF IsPrefix

LEMMA PrefixOfItself ==
    ASSUME NEW s, IsSequence(s)
    PROVE  IsPrefix(s, s)
  BY DEF IsPrefix, IsSequence

(* No file is below f. *)
Lone(files, f) == \A g \in DOMAIN files : f \notin Above(g)

LEMMA ThereKeeps ==
    ASSUME NEW path \in Paths, NEW told, There(fs, path, told),
           NEW f, NEW node, f # Resolved(path), NEW files, files = With(fs, f, node),
           Lone(fs, f) \/ f \notin Above(Resolved(path))
    PROVE  There(files, path, told)
<1> DEFINE r == Resolved(path)
<1>0. Changed(files, fs, f, node)
  BY WithIs
<1>1. ASSUME NEW x, x # f
      PROVE  /\ x \in DOMAIN files <=> x \in DOMAIN fs
             /\ x \in DOMAIN files => files[x] = fs[x]
  BY <1>0, <1>1 DEF Changed
<1>5. /\ r \in DOMAIN files <=> r \in DOMAIN fs
      /\ r \in DOMAIN files => files[r] = fs[r]
  BY <1>1
<1>2. CASE told = Unknown
  BY <1>2 DEF There
<1>3. CASE told = Absent /\ r \notin DOMAIN fs
  BY <1>5, <1>3 DEF There
<1>4. CASE /\ told.kind = "file" /\ told.open /\ r \in DOMAIN fs /\ fs[r] = told
           /\ \A d \in Above(r) : d \in DOMAIN fs /\ fs[d].kind = "dir" /\ fs[d].open
           /\ ~NamesDirectory(path)
  <2>1. f \notin Above(r)
    BY <1>4 DEF Lone
  <2>2. files[r] = told
    BY <1>5, <1>4
  <2>3. ASSUME NEW d \in Above(r) PROVE d \in DOMAIN files /\ files[d] = fs[d]
    <3>1. d # f /\ d \in DOMAIN fs
      BY <2>1, <1>4
    <3> QED
      BY <3>1, <1>1
  <2> QED
    BY <1>5, <1>4, <2>2, <2>3 DEF There
<1> QED
  BY <1>2, <1>3, <1>4 DEF There

LEMMA Grows ==
    ASSUME NEW ms, NEW ns, ms \subseteq ns, NEW j, NEW files
    PROVE  /\ Knows(ms, j) => Knows(ns, j)
           /\ Truth(ms, j, files) => Truth(ns, j, files)
<1>1. /\ \A path : WasDirectory(ms, path) => WasDirectory(ns, path)
      /\ \A f : WasFile(ms, f) => WasFile(ns, f)
      /\ \A f : WasNoFile(ms, f) => WasNoFile(ns, f)
      /\ \A path : WasMissing(ms, path) => WasMissing(ns, path)
      /\ \A f, size : HadSize(ms, f, size) => HadSize(ns, f, size)
      /\ \A f, text : Began(ms, f, text) => Began(ns, f, text)
      /\ \A path, text : Listed(ms, path, text) => Listed(ns, path, text)
      /\ \A code : NoPage(ms, code) => NoPage(ns, code)
  BY DEF WasDirectory, WasFile, WasNoFile, WasMissing, HadSize, Began, Listed, NoPage
<1>2. Knows(ms, j) => Knows(ns, j)
  BY <1>1 DEF Knows, Failed
<1>3. Truth(ms, j, files) => Truth(ns, j, files)
  BY <1>1 DEF Truth
<1> QED
  BY <1>2, <1>3

LEMMA NodesKeep ==
    ASSUME \A f \in DOMAIN fs : IsSequence(f) /\ IsNode(fs[f]),
           NEW f, NEW node, IsSequence(f), IsNode(node) \/ node = Absent,
           NEW files, files = With(fs, f, node)
    PROVE  \A g \in DOMAIN files : IsSequence(g) /\ IsNode(files[g])
<1>0. Changed(files, fs, f, node)
  BY WithIs
<1>1. CASE node = Absent
  BY <1>0, <1>1 DEF Changed
<1>2. CASE node # Absent
  BY <1>0, <1>2 DEF Changed
<1> QED
  BY <1>1, <1>2

LEMMA OutsideKeeps == IInv /\ Outside => IInv'
<1> SUFFICES ASSUME IInv, Outside PROVE IInv'
  OBVIOUS
<1>1. PICK change \in Others :
         /\ fs' = With(fs, change.name, change.node) /\ IsTree(fs')
         /\ stored' = [path \in Paths |-> IF IsPrefix(change.name, Resolved(path)) THEN Unknown
                                          ELSE stored[path]]
  BY DEF Outside
<1>2. /\ job' = job /\ mine' = mine
      /\ moments' = IF job.at = "idle" THEN {} ELSE moments \cup {fs'}
  BY DEF Outside
<1> DEFINE f == change.name
           node == change.node
<1>3. IsSequence(f) /\ (IsNode(node) \/ node = Absent)
  BY FilesAssumption DEF FilesAssumption
<1>4. Typed'
  <2>1. \A g \in DOMAIN fs' : IsSequence(g) /\ IsNode(fs'[g])
    BY <1>1, <1>3, NodesKeep DEF IInv, Typed
  <2>2. /\ DOMAIN job' = Fields /\ IsSequence(job'.body) /\ DOMAIN stored' = Paths
        /\ job'.at # "idle" => job'.path \in Paths /\ fs' \in moments'
    BY <1>1, <1>2 DEF IInv, Typed
  <2>3. IsTree(fs)'
    BY <1>1 DEF IsTree
  <2> QED
    BY <2>1, <2>2, <2>3 DEF Typed
<1>5. Working(moments, job, mine)'
  <2>1. CASE job.at = "idle"
    BY <2>1, <1>2 DEF Working
  <2>2. CASE job.at # "idle"
    <3>1. moments \subseteq moments'
      BY <2>2, <1>2
    <3>2. /\ Knows(moments, job) => Knows(moments', job)
          /\ Truth(moments, job, mine) => Truth(moments', job, mine)
      BY <3>1, Grows
    <3>3. Working(moments', job, mine)
      BY <3>2, <2>2 DEF IInv, Working
    <3> QED
      BY <3>3, <1>2
  <2> QED
    BY <2>1, <2>2
<1>6. Expected(fs', stored')
  <2> SUFFICES ASSUME NEW path \in Paths
               PROVE  /\ There(fs', path, stored'[path])
                      /\ stored'[path] # Unknown => Allowed(path)
    BY DEF Expected
  <2>1. CASE IsPrefix(f, Resolved(path))
    <3>1. stored'[path] = Unknown
      BY <2>1, <1>1
    <3> QED
      BY <3>1 DEF There
  <2>2. CASE ~IsPrefix(f, Resolved(path))
    <3>1. stored'[path] = stored[path]
      BY <2>2, <1>1
    <3>2. IsSequence(Resolved(path))
      BY ResolvedIs
    <3>3. f # Resolved(path) /\ f \notin Above(Resolved(path))
      BY <2>2, <3>2, AboveIs, PrefixOfItself
    <3>4. There(fs, path, stored[path]) /\ (stored[path] # Unknown => Allowed(path))
      BY DEF IInv, Expected
    <3>5. There(fs', path, stored[path])
      BY <3>3, <3>4, <1>1, ThereKeeps
    <3> QED
      BY <3>1, <3>4, <3>5
  <2> QED
    BY <2>1, <2>2
<1>7. job'.at # "idle" => Foreseen(job', stored'[job'.path])
  <2> SUFFICES ASSUME job.at # "idle" PROVE Foreseen(job, stored'[job.path])
    BY <1>2
  <2>1. job.path \in Paths /\ Foreseen(job, stored[job.path])
    BY DEF IInv, Typed
  <2>2. stored'[job.path] \in {Unknown, stored[job.path]}
    BY <2>1, <1>1
  <2> QED
    BY <2>1, <2>2 DEF Foreseen
<1>8. Expected(fs, stored)'
  BY <1>6 DEF Expected, There
<1>9. (job.at # "idle" => Foreseen(job, stored[job.path]))'
  BY <1>7 DEF Foreseen
<1> QED
  BY <1>4, <1>5, <1>8, <1>9 DEF IInv

LEMMA EmptyIs == IsSequence(<<>>)
<1>1. <<>> \in Seq({})
  OBVIOUS
<1> QED
  BY <1>1, SequenceIs

LEMMA Refused ==
    ASSUME NEW r, DOMAIN r = Fields, NEW code
    PROVE  LET j == [r EXCEPT !.status = code, !.at = "page"]
           IN /\ DOMAIN j = Fields /\ j.method = r.method /\ j.path = r.path
              /\ j.body = r.body /\ j.dir = r.dir /\ j.at = "page" /\ j.status = code
  BY DEF Fields

LEMMA BeginKeeps == IInv /\ Begin => IInv'
<1> SUFFICES ASSUME IInv, Begin PROVE IInv'
  OBVIOUS
<1> DEFINE bodies == Bodies \cup {<<>>}
           types == {"", ".txt"}
<1>0. \A b \in bodies : IsSequence(b)
  BY EmptyIs, FilesAssumption DEF FilesAssumption
<1> HIDE DEF bodies, types
<1>1. PICK method \in {"GET", "HEAD", "POST", "PUT", "DELETE", "COPY"}, path \in Paths,
           body \in bodies, type \in types :
         job' = Dispatch([Idle EXCEPT !.method = method, !.path = path,
                                      !.body = body, !.type = type])
  BY DEF Begin, bodies, types
<1> DEFINE r == [Idle EXCEPT !.method = method, !.path = path, !.body = body, !.type = type]
           loc == GetLocation(path)
<1>2. IsSequence(body)
  BY <1>0
<1>3. /\ DOMAIN r = Fields /\ r.method = method /\ r.path = path /\ r.body = body
      /\ ~r.dir /\ r.what = "nothing"
  BY DEF Idle, Fields
<1>4. job' = Dispatch(r)
  BY <1>1
<1> HIDE DEF r
<1>5. /\ fs' = fs /\ moments' = {fs} /\ mine' = {} /\ stored' = stored
  BY DEF Begin
<1>6. loc.redirect \in BOOLEAN
  BY RootIs
<1>7. /\ DOMAIN job' = Fields /\ job'.method = method /\ job'.path = path /\ job'.body = body
      /\ ~job'.dir
      /\ \/ job'.at = "done" /\ loc.redirect
         \/ job'.at = "done" /\ job'.what = "script" /\ IsCgiRequest(path)
         \/ /\ job'.at = "page" /\ job'.status \in {405, 501} /\ ~loc.redirect
            /\ job'.status = 501 => method = "COPY"
         \/ job'.at = "handle" /\ job'.what = "nothing" /\ Allowed(path)
  <2>1. CASE loc.redirect
    BY <2>1, <1>3, <1>4 DEF Dispatch, Fields
  <2>2. CASE ~loc.redirect /\ IsCgiRequest(path)
    <3>1. \/ job' = [r EXCEPT !.what = "script", !.at = "done"]
          \/ job' = [r EXCEPT !.status = 405, !.at = "page"]
      BY <2>2, <1>3, <1>4 DEF Dispatch
    <3>2. CASE job' = [r EXCEPT !.what = "script", !.at = "done"]
      <4>1. /\ DOMAIN job' = Fields /\ job'.method = r.method /\ job'.path = r.path
            /\ job'.body = r.body /\ job'.dir = r.dir /\ job'.at = "done"
            /\ job'.what = "script"
        BY <3>2, <1>3 DEF Fields
      <4> QED
        BY <4>1, <2>2, <1>3
    <3>3. CASE job' = [r EXCEPT !.status = 405, !.at = "page"]
      <4>1. /\ DOMAIN job' = Fields /\ job'.method = r.method /\ job'.path = r.path
            /\ job'.body = r.body /\ job'.dir = r.dir /\ job'.at = "page"
            /\ job'.status = 405
        BY <3>3, <1>3, Refused
      <4> QED
        BY <4>1, <2>2, <1>3
    <3> QED
      BY <3>1, <3>2, <3>3
  <2>3. CASE ~loc.redirect /\ ~IsCgiRequest(path)
    <3>1. \/ job' = [r EXCEPT !.at = "handle"]
          \/ job' = [r EXCEPT !.status = 405, !.at = "page"]
          \/ method = "COPY" /\ job' = [r EXCEPT !.status = 501, !.at = "page"]
      <4>1. job' = IF method \in loc.methods THEN [r EXCEPT !.at = "handle"]
                   ELSE [r EXCEPT !.status = IF method = "COPY" THEN 501 ELSE 405,
                                  !.at = "page"]
        BY <2>3, <1>3, <1>4 DEF Dispatch
      <4> QED
        BY <4>1
    <3>2. CASE job' = [r EXCEPT !.at = "handle"]
      <4>1. /\ DOMAIN job' = Fields /\ job'.method = r.method /\ job'.path = r.path
            /\ job'.body = r.body /\ job'.dir = r.dir /\ job'.at = "handle"
            /\ job'.what = r.what
        BY <3>2, <1>3 DEF Fields
      <4> QED
        BY <4>1, <2>3, <1>3 DEF Allowed
    <3>3. CASE job' = [r EXCEPT !.status = 405, !.at = "page"]
      <4>1. /\ DOMAIN job' = Fields /\ job'.method = r.method /\ job'.path = r.path
            /\ job'.body = r.body /\ job'.dir = r.dir /\ job'.at = "page"
            /\ job'.status = 405
        BY <3>3, <1>3, Refused
      <4> QED
        BY <4>1, <2>3, <1>3
    <3>4. CASE method = "COPY" /\ job' = [r EXCEPT !.status = 501, !.at = "page"]
      <4>1. /\ DOMAIN job' = Fields /\ job'.method = r.method /\ job'.path = r.path
            /\ job'.body = r.body /\ job'.dir = r.dir /\ job'.at = "page"
            /\ job'.status = 501
        BY <3>4, <1>3, Refused
      <4> QED
        BY <4>1, <3>4, <2>3, <1>3
    <3> QED
      BY <3>1, <3>2, <3>3, <3>4
  <2> QED
    BY <2>1, <2>2, <2>3
<1>8. Typed'
  BY <1>2, <1>5, <1>7 DEF IInv, Typed, IsTree
<1>9. Working(moments', job', mine')
  <2>1. ASSUME job'.at = "page" PROVE Failed(moments', job')
    <3>1. job'.status = 405 \/ job'.status = 501
      BY <2>1, <1>7
    <3>2. job'.status # 404 /\ job'.status \in {403, 404, 405, 500, 501}
      BY <3>1
    <3> QED
      BY <3>2 DEF Failed
  <2> QED
    BY <1>5, <1>7, <2>1 DEF Working, Knows, Allowed
<1>10. Foreseen(job', stored'[job'.path])
  <2>1. There(fs, path, stored[path]) /\ (stored[path] # Unknown => Allowed(path))
    BY DEF IInv, Expected
  <2> QED
    BY <1>5, <1>7, <2>1 DEF Foreseen, Allowed
<1>11. Working(moments, job, mine)'
  BY <1>9 DEF Working, Knows, Truth, Failed, WasDirectory, WasFile, WasNoFile, WasMissing,
                HadSize, Began, Listed, NoPage
<1>12. Expected(fs, stored)'
  BY <1>5 DEF IInv, Expected, There
<1>13. (job.at # "idle" => Foreseen(job, stored[job.path]))'
  BY <1>10 DEF Foreseen
<1> QED
  BY <1>8, <1>11, <1>12, <1>13 DEF IInv

LEMMA EndKeeps == IInv /\ End => IInv'
<1> SUFFICES ASSUME IInv, End PROVE IInv'
  OBVIOUS
<1>1. job' = Idle /\ fs' = fs /\ stored' = stored
  BY DEF End
<1>2. DOMAIN job' = Fields /\ job'.at = "idle" /\ job'.body = <<>>
  BY <1>1 DEF Idle, Fields
<1>4. Typed'
  BY <1>1, <1>2, EmptyIs DEF IInv, Typed, IsTree
<1>5. Working(moments, job, mine)'
  BY <1>2 DEF Working
<1>6. Expected(fs, stored)'
  BY <1>1 DEF IInv, Expected, There
<1> QED
  BY <1>2, <1>4, <1>5, <1>6 DEF IInv

(* The end of a handler that changes f: it is true of the files before and *)
(* after, and f is no directory of another file. *)
LEMMA ChangeKeeps ==
    ASSUME IInv, InWork, job.method # "GET", NEW f, IsSequence(f),
           NEW node, IsNode(node) \/ node = Absent,
           NEW j, Follows(j), j.at = "done", NEW told, Change(f, node, j, told),
           IsTree(fs'), Lone(fs, f), Truth(moments', j, {f}),
           There(fs', job.path, told), told # Unknown => Allowed(job.path)
    PROVE  IInv'
<1>1. /\ fs' = With(fs, f, node) /\ moments' = moments \cup {fs'} /\ mine' = {f}
      /\ job' = j
      /\ stored' = [path \in Paths |-> IF path = job.path THEN told
                                       ELSE IF Resolved(path) = f THEN Unknown
                                       ELSE stored[path]]
  BY WorkIs DEF Change
<1>2. Typed'
  <2>1. \A g \in DOMAIN fs' : IsSequence(g) /\ IsNode(fs'[g])
    BY <1>1, WorkIs, NodesKeep
  <2>2. /\ DOMAIN job' = Fields /\ IsSequence(job'.body) /\ DOMAIN stored' = Paths
        /\ job'.path \in Paths /\ fs' \in moments'
    BY <1>1, WorkIs DEF IInv, Typed, Follows
  <2>3. IsTree(fs)'
    BY DEF IsTree
  <2> QED
    BY <2>1, <2>2, <2>3 DEF Typed
<1>3. Working(moments, job, mine)'
  <2>1. Working(moments', job', mine')
    BY <1>1 DEF Working
  <2> QED
    BY <2>1 DEF Working, Knows, Truth, Failed, WasDirectory, WasFile, WasNoFile, WasMissing,
                HadSize, Began, Listed, NoPage
<1>4. Expected(fs', stored')
  <2> SUFFICES ASSUME NEW path \in Paths
               PROVE  /\ There(fs', path, stored'[path])
                      /\ stored'[path] # Unknown => Allowed(path)
    BY DEF Expected
  <2>1. CASE path = job.path
    BY <2>1, <1>1
  <2>2. CASE path # job.path /\ Resolved(path) = f
    <3>1. stored'[path] = Unknown
      BY <2>2, <1>1
    <3> QED
      BY <3>1 DEF There
  <2>3. CASE path # job.path /\ Resolved(path) # f
    <3>1. stored'[path] = stored[path]
      BY <2>3, <1>1
    <3>2. There(fs, path, stored[path]) /\ (stored[path] # Unknown => Allowed(path))
      BY DEF IInv, Expected
    <3>3. There(fs', path, stored[path])
      BY <2>3, <3>2, <1>1, ThereKeeps
    <3> QED
      BY <3>1, <3>2, <3>3
  <2> QED
    BY <2>1, <2>2, <2>3
<1>5. Expected(fs, stored)'
  BY <1>4 DEF Expected, There
<1>6. (job.at # "idle" => Foreseen(job, stored[job.path]))'
  BY <1>1 DEF Foreseen, Follows
<1> QED
  BY <1>2, <1>3, <1>5, <1>6 DEF IInv

(* A file that may be written is in directories and is none. *)
LEMMA MayWriteIs ==
    ASSUME IInv, NEW f, IsSequence(f), MayWrite(fs, f)
    PROVE  /\ Lone(fs, f)
           /\ \A d \in Above(f) : d \in DOMAIN fs /\ fs[d].kind = "dir" /\ fs[d].open
<1>1. IsTree(fs)
  BY DEF IInv, Typed
<1>2. CASE Kind(fs, f) = "file"
  <2>1. /\ fs[f].kind = "file"
        /\ \A d \in Above(f) : d \in DOMAIN fs /\ fs[d].kind = "dir" /\ fs[d].open
    BY <1>2 DEF Kind
  <2>2. ASSUME NEW g \in DOMAIN fs, f \in Above(g) PROVE FALSE
    BY <1>1, <2>1, <2>2 DEF IsTree
  <2> QED
    BY <2>1, <2>2 DEF Lone
<1>3. CASE /\ f \notin DOMAIN fs /\ Kind(fs, Front(f)) = "dir" /\ IsOpen(fs, Front(f))
  <2>1. ASSUME NEW g \in DOMAIN fs, f \in Above(g) PROVE FALSE
    BY <1>1, <1>3, <2>1 DEF IsTree
  <2> DEFINE up == Front(f)
  <2>2. /\ up \in DOMAIN fs /\ fs[up].kind = "dir" /\ fs[up].open
        /\ \A d \in Above(up) : d \in DOMAIN fs /\ fs[d].kind = "dir" /\ fs[d].open
    BY <1>3 DEF Kind, IsOpen
  <2>3. ASSUME NEW d \in Above(f) PROVE d = up \/ d \in Above(up)
    <3> DEFINE n == Len(d)
               m == Len(f) - 1
    <3>1. f \in Seq(Range(f)) /\ Len(f) \in Nat
      BY DEF IsSequence
    <3>2. n \in 1..m /\ d = SubSeq(f, 1, n) /\ up = SubSeq(f, 1, m)
      BY AboveIs DEF Front
    <3> HIDE DEF n
    <3>3. n \in Nat /\ m \in Nat /\ 1 <= n /\ n <= m /\ m <= Len(f)
      BY <3>1, <3>2
    <3> HIDE DEF m, up
    <3>4. CASE n = m
      BY <3>2, <3>4
    <3>5. CASE n # m
      <4>1. up \in Seq(Range(f)) /\ Len(up) = m
        BY <3>1, <3>2, <3>3
      <4>2. d = SubSeq(up, 1, n)
        <5>1. SubSeq(up, 1, n) \in Seq(Range(f)) /\ Len(SubSeq(up, 1, n)) = n
          BY <4>1, <3>3
        <5>2. d \in Seq(Range(f)) /\ Len(d) = n
          BY <3>1, <3>2, <3>3
        <5>3. \A i \in 1..n : SubSeq(up, 1, n)[i] = d[i]
          BY <3>1, <3>2, <3>3, <4>1
        <5> QED
          BY <5>1, <5>2, <5>3
      <4>3. n \in 1..(Len(up) - 1)
        BY <3>3, <3>5, <4>1
      <4> QED
        BY <4>2, <4>3 DEF Above
    <3> QED
      BY <3>4, <3>5
  <2> QED
    BY <2>1, <2>2, <2>3 DEF Lone
<1> QED
  BY <1>2, <1>3 DEF MayWrite

LEMMA TreeKeeps ==
    ASSUME IInv, NEW f, IsSequence(f), NEW node, Lone(fs, f),
           node # Absent => \A d \in Above(f) : d \in DOMAIN fs /\ fs[d].kind = "dir"
    PROVE  IsTree(With(fs, f, node))
<1> DEFINE files == With(fs, f, node)
<1>1. Changed(files, fs, f, node)
  BY WithIs
<1> HIDE DEF files
<1>2. ASSUME NEW x \in DOMAIN fs, x # f PROVE x \in DOMAIN files /\ files[x] = fs[x]
  BY <1>1, <1>2 DEF Changed
<1>3. ASSUME NEW g \in DOMAIN files, NEW d \in Above(g)
      PROVE  d \in DOMAIN files /\ files[d].kind = "dir"
  <2>1. CASE g = f
    <3>1. node # Absent
      BY <1>1, <2>1 DEF Changed
    <3>2. d \in DOMAIN fs /\ fs[d].kind = "dir" /\ d # f
      BY <3>1, <2>1, AboveIs
    <3> QED
      BY <3>2, <1>2
  <2>2. CASE g # f
    <3>1. g \in DOMAIN fs
      BY <2>2, <1>1 DEF Changed
    <3>2. d \in DOMAIN fs /\ fs[d].kind = "dir" /\ d # f
      BY <3>1 DEF IInv, Typed, IsTree, Lone
    <3> QED
      BY <3>2, <1>2
  <2> QED
    BY <2>1, <2>2
<1> QED
  BY <1>3 DEF IsTree, files

(* Where nothing is in a directory, nothing is below it. *)
LEMMA ChildIs ==
    ASSUME NEW files, IsTree(files), \A g \in DOMAIN files : IsSequence(g),
           NEW f, IsSequence(f), In(files, f) = {}
    PROVE  Lone(files, f)
<1> SUFFICES ASSUME NEW g \in DOMAIN files, f \in Above(g) PROVE FALSE
  BY DEF Lone
<1> DEFINE T == Range(g)
           n == Len(f)
           child == SubSeq(g, 1, n + 1)
<1>1. g \in Seq(T) /\ Len(g) \in Nat
  BY DEF IsSequence
<1>2. n \in 1..(Len(g) - 1) /\ f = SubSeq(g, 1, n)
  BY AboveIs
<1>3. n \in Nat /\ 1 <= n /\ n + 1 <= Len(g) /\ n + 1 \in Nat /\ n <= n + 1 /\ 1 <= n + 1
  BY <1>1, <1>2
<1> HIDE DEF n
<1>4. child \in Seq(T) /\ Len(child) = n + 1 /\ f \in Seq(T) /\ Len(f) = n
  BY <1>1, <1>2, <1>3 DEF n
<1>5. child \in DOMAIN files
  <2>1. CASE n + 1 = Len(g)
    <3>1. child = g
      BY <2>1, <1>1
    <3> QED
      BY <3>1
  <2>2. CASE n + 1 # Len(g)
    <3>1. n + 1 \in 1..(Len(g) - 1)
      BY <2>2, <1>1, <1>3
    <3>2. child \in Above(g)
      BY <3>1 DEF Above
    <3> QED
      BY <3>2 DEF IsTree
  <2> QED
    BY <2>1, <2>2
<1>6. SubSeq(child, 1, n) = f
  <2>1. SubSeq(child, 1, n) \in Seq(T) /\ Len(SubSeq(child, 1, n)) = n
    BY <1>3, <1>4
  <2>2. \A i \in 1..n : SubSeq(child, 1, n)[i] = f[i]
    BY <1>1, <1>2, <1>3, <1>4
  <2> HIDE DEF child
  <2> QED
    BY <1>3, <1>4, <2>1, <2>2
<1>7. IsPrefix(f, child)
  BY <1>3, <1>4, <1>6 DEF IsPrefix
<1>8. child \in In(files, f)
  BY <1>4, <1>5, <1>7 DEF In, n
<1> QED
  BY <1>8

LEMMA PrefixIs ==
    ASSUME NEW s, IsSequence(s), NEW t \in Prefixes(s)
    PROVE  IsSequence(t)
<1>1. PICK n \in 0..Len(s) : t = SubSeq(s, 1, n)
  BY DEF Prefixes
<1>2. s \in Seq(Range(s)) /\ Len(s) \in Nat
  BY DEF IsSequence
<1>3. t \in Seq(Range(s))
  BY <1>1, <1>2
<1> QED
  BY <1>3, SequenceIs

LEMMA FileIs ==
    ASSUME NEW body, IsSequence(body)
    PROVE  /\ IsNode(File(body)) /\ File(body) # Absent
           /\ File(body).kind = "file" /\ File(body).open
  BY DEF File, IsNode, Absent

(* The writing of a file: it is the handler's last step. *)
LEMMA WriteKeeps ==
    ASSUME IInv, InWork, job.method # "GET", NEW f, IsSequence(f), MayWrite(fs, f),
           NEW body \in Prefixes(job.body),
           NEW j, Follows(j), j.at = "done", NEW told, Change(f, File(body), j, told),
           Truth(moments \cup {fs'}, j, {f}),
           There(With(fs, f, File(body)), job.path, told),
           told # Unknown => Allowed(job.path)
    PROVE  IInv'
<1>1. IsSequence(body)
  BY PrefixIs DEF IInv, Typed
<1>2. IsNode(File(body)) /\ File(body) # Absent
  BY <1>1, FileIs
<1> DEFINE node == File(body)
<1>3. /\ Lone(fs, f)
      /\ \A d \in Above(f) : d \in DOMAIN fs /\ fs[d].kind = "dir" /\ fs[d].open
  BY MayWriteIs
<1> HIDE DEF node
<1>4. fs' = With(fs, f, node) /\ moments' = moments \cup {fs'}
  BY DEF Change, node
<1>5. IsTree(fs')
  <2>1. IsTree(With(fs, f, node))
    BY <1>3, TreeKeeps
  <2> QED
    BY <2>1, <1>4
<1>6. IsNode(node) \/ node = Absent
  BY <1>2 DEF node
<1>7. Truth(moments', j, {f}) /\ There(fs', job.path, told) /\ Change(f, node, j, told)
  BY <1>4 DEF node
<1> QED
  BY <1>3, <1>5, <1>6, <1>7, ChangeKeeps

LEMMA WriteTargetKeeps == IInv /\ WriteTarget => IInv'
<1> SUFFICES ASSUME IInv, WriteTarget PROVE IInv'
  OBVIOUS
<1> DEFINE f == job.file
<1>1. InWork /\ job.at = "write" /\ job.method = "PUT"
  BY DEF WriteTarget, At, InWork
<1>2. /\ f = PutFile(job.path) /\ job.path \in Paths
      /\ \/ job.status = 204 /\ WasFile(moments, f)
         \/ job.status = 201 /\ WasNoFile(moments, f)
  BY <1>1, WorkIs DEF Knows
<1>3. CASE Look(Fail(500))
  BY <1>1, <1>3, FailKeeps
<1>4. CASE /\ Last(f) # <<>> /\ MayWrite(fs, f)
           /\ Write(f, Answer(job.status, "page"), File(job.body))
  <2>1. f = Resolved(job.path) /\ ~NamesDirectory(job.path) /\ IsSequence(f)
    <3> DEFINE names == Split(Remaining(job.path))
               up == GetLocation(job.path).root \o NonEmpty(Front(names))
    <3>1. f = Append(up, Last(names))
      BY <1>2 DEF PutFile
    <3>2. Last(names) # <<>>
      <4>1. up \in Seq(Range(up))
        BY <1>2, PutDirectoryIs DEF IsSequence
      <4> HIDE DEF up
      <4> DEFINE last == Last(names)
      <4>2. f = Append(up, last)
        BY <3>1
      <4> HIDE DEF last
      <4>3. Last(f) = last
        BY <4>1, <4>2 DEF Last
      <4> QED
        BY <4>3, <1>4 DEF last
    <3>3. f = Resolved(job.path) /\ ~NamesDirectory(job.path)
      BY <1>2, <3>1, <3>2, PutIsResolved
    <3>4. IsSequence(Resolved(job.path))
      BY <1>2, ResolvedIs
    <3> HIDE DEF f
    <3> QED
      BY <3>3, <3>4
  <2>2. PICK body \in Prefixes(job.body) :
           Change(f, File(body), Answer(job.status, "page"),
                  IF body = job.body THEN File(job.body) ELSE Unknown)
    BY <1>4 DEF Write, Overwrite
  <2> DEFINE j == Answer(job.status, "page")
             told == IF body = job.body THEN File(job.body) ELSE Unknown
             ms == moments \cup {fs'}
  <2>3. /\ DOMAIN j = Fields /\ j.at = "done" /\ j.status = job.status /\ j.what = "page"
        /\ j.path = job.path /\ j.method = job.method /\ j.body = job.body
        /\ j.file = f
    BY <1>1, WorkIs, AnswerIs
  <2>4. Change(f, File(body), j, told)
    BY <2>2
  <2> HIDE DEF j
  <2>5. Truth(ms, j, {f})
    <3>1. \/ job.status = 204 /\ WasFile(ms, f)
          \/ job.status = 201 /\ WasNoFile(ms, f)
      BY <1>2 DEF WasFile, WasNoFile
    <3> QED
      BY <3>1, <2>1, <2>3, <1>1 DEF Truth
  <2>6. There(With(fs, f, File(body)), job.path, told)
    <3>1. CASE body # job.body
      BY <3>1 DEF There
    <3>2. CASE body = job.body
      <4> DEFINE node == File(job.body)
                 files == With(fs, f, node)
      <4>1. node # Absent /\ node.kind = "file" /\ node.open
        BY <1>1, WorkIs, FileIs DEF IInv, Typed
      <4>2. Changed(files, fs, f, node)
        BY WithIs
      <4>3. \A d \in Above(f) : d \in DOMAIN fs /\ fs[d].kind = "dir" /\ fs[d].open /\ d # f
        BY <1>4, <2>1, MayWriteIs, AboveIs
      <4>4. told = node /\ File(body) = node
        BY <3>2
      <4> HIDE DEF node, files, told
      <4>5. f \in DOMAIN files /\ files[f] = node
        BY <4>1, <4>2 DEF Changed
      <4>6. ASSUME NEW d \in Above(f)
            PROVE  d \in DOMAIN files /\ files[d].kind = "dir" /\ files[d].open
        BY <4>1, <4>2, <4>3 DEF Changed
      <4>7. There(files, job.path, node)
        BY <4>1, <4>5, <4>6, <2>1 DEF There
      <4> QED
        BY <4>4, <4>7 DEF files
    <3> QED
      BY <3>1, <3>2
  <2>7. Follows(j) /\ (told # Unknown => Allowed(job.path))
    BY <1>1, <2>3, WorkIs DEF Follows
  <2> HIDE DEF told
  <2> QED
    BY <1>1, <1>4, <2>1, <2>3, <2>4, <2>5, <2>6, <2>7, WriteKeeps
<1> QED
  BY <1>3, <1>4 DEF WriteTarget

LEMMA CreateFileKeeps == IInv /\ CreateFile => IInv'
<1> SUFFICES ASSUME IInv, CreateFile PROVE IInv'
  OBVIOUS
<1>1. InWork /\ job.at = "write" /\ job.method = "POST"
  BY DEF CreateFile, At, InWork
<1>2. /\ job.file = GetLocation(job.path).uploadStore /\ job.path \in Paths
      /\ fs \in moments
  BY <1>1, WorkIs DEF Knows
<1>3. CASE Look(Fail(500))
  BY <1>1, <1>3, FailKeeps
<1>4. ASSUME NEW name \in Unused(job.file)
      PROVE  LET f == Append(job.file, <<name, job.type>>)
             IN  /\ MayWrite(fs, f)
                 /\ Write(f, [Answer(201, "page") EXCEPT !.file = f],
                          IF Resolved(job.path) = f THEN Unknown ELSE stored[job.path])
                 => IInv'
  <2> DEFINE f == Append(job.file, <<name, job.type>>)
             j == [Answer(201, "page") EXCEPT !.file = f]
             known == IF Resolved(job.path) = f THEN Unknown ELSE stored[job.path]
             ms == moments \cup {fs'}
  <2>1. f \notin DOMAIN fs
    BY <1>4 DEF Unused
  <2>2. IsSequence(f)
    <3> DEFINE last == <<name, job.type>>
               T == Range(job.file) \cup {last}
    <3>1. f = Append(job.file, last) /\ last \in T
      OBVIOUS
    <3>2. job.file \in Seq(T)
      <4>1. job.file \in Seq(Range(job.file))
        BY <1>2, RootIs DEF IsSequence
      <4> QED
        BY <4>1
    <3> HIDE DEF f, last, T
    <3>3. f \in Seq(T)
      BY <3>1, <3>2
    <3> QED
      BY <3>3, SequenceIs
  <2> HIDE DEF f
  <2>3. /\ DOMAIN j = Fields /\ j.at = "done" /\ j.status = 201 /\ j.what = "page"
        /\ j.path = job.path /\ j.method = job.method /\ j.body = job.body
        /\ j.file = f
    <3> DEFINE a == Answer(201, "page")
    <3>1. /\ DOMAIN a = Fields /\ a.at = "done" /\ a.status = 201 /\ a.what = "page"
          /\ a.path = job.path /\ a.method = job.method /\ a.body = job.body
      BY <1>1, WorkIs, AnswerIs
    <3> HIDE DEF a
    <3>2. j = [a EXCEPT !.file = f]
      BY DEF a
    <3> QED
      BY <3>1, <3>2 DEF Fields
  <2>4. SUFFICES ASSUME MayWrite(fs, f), Write(f, j, known)
                 PROVE  IInv'
    BY DEF f
  <2>5. PICK body \in Prefixes(job.body) :
           Change(f, File(body), j, IF body = job.body THEN known ELSE Unknown)
    BY <2>4 DEF Write, Overwrite
  <2> DEFINE told == IF body = job.body THEN known ELSE Unknown
  <2>6. Change(f, File(body), j, told)
    BY <2>5
  <2> HIDE DEF j
  <2>7. Truth(ms, j, {f})
    <3>1. WasNoFile(ms, f)
      BY <1>2, <2>1 DEF WasNoFile, Kind
    <3> QED
      BY <3>1, <2>3, <1>1 DEF Truth
  <2>8. told \in {Unknown, stored[job.path]} /\ (told # Unknown => f # Resolved(job.path))
    OBVIOUS
  <2> HIDE DEF told, known
  <2>9. There(With(fs, f, File(body)), job.path, told)
    <3>1. CASE told = Unknown
      BY <3>1 DEF There
    <3>2. CASE told # Unknown
      <4>1. There(fs, job.path, told) /\ f # Resolved(job.path)
        BY <3>2, <2>8, <1>1, WorkIs
      <4>2. Lone(fs, f)
        BY <2>2, <2>4, MayWriteIs
      <4> QED
        BY <4>1, <4>2, <1>2, ThereKeeps
    <3> QED
      BY <3>1, <3>2
  <2>10. Follows(j) /\ (told # Unknown => Allowed(job.path))
    BY <1>1, <2>3, WorkIs DEF Follows
  <2> QED
    BY <1>1, <2>2, <2>3, <2>4, <2>6, <2>7, <2>9, <2>10, WriteKeeps
<1> QED
  BY <1>3, <1>4 DEF CreateFile

LEMMA RemoveFileKeeps == IInv /\ RemoveFile => IInv'
<1> SUFFICES ASSUME IInv, RemoveFile PROVE IInv'
  OBVIOUS
<1> DEFINE f == job.file
           j == Answer(204, "nothing")
<1>1. InWork /\ job.at = "remove" /\ job.method = "DELETE"
  BY DEF RemoveFile, At, InWork
<1>2. /\ f = Resolved(job.path) /\ job.path \in Paths /\ WasFile(moments, f)
      /\ Allowed(job.path)
  BY <1>1, WorkIs DEF Knows
<1>3. \/ Look(Fail(500))
      \/ Kind(fs, f) # "none" /\ In(fs, f) = {} /\ Change(f, Absent, j, Absent)
  BY DEF RemoveFile
<1>4. CASE Look(Fail(500))
  BY <1>1, <1>4, FailKeeps
<1>5. CASE Kind(fs, f) # "none" /\ In(fs, f) = {} /\ Change(f, Absent, j, Absent)
  <2>1. IsSequence(f)
    BY <1>2, ResolvedIs
  <2>2. Lone(fs, f)
    BY <2>1, <1>5, ChildIs DEF IInv, Typed
  <2>3. /\ DOMAIN j = Fields /\ j.at = "done" /\ j.status = 204 /\ j.what = "nothing"
        /\ j.path = job.path /\ j.method = job.method /\ j.body = job.body
        /\ j.file = f
    BY <1>1, WorkIs, AnswerIs
  <2>4. Change(f, Absent, j, Absent)
    BY <1>5
  <2> HIDE DEF j
  <2>5. fs' = With(fs, f, Absent) /\ moments' = moments \cup {fs'}
    BY <2>4 DEF Change
  <2>6. IsTree(fs')
    <3>1. IsTree(With(fs, f, Absent))
      BY <2>1, <2>2, TreeKeeps
    <3> QED
      BY <3>1, <2>5
  <2>7. Truth(moments', j, {f})
    <3>1. WasFile(moments', f)
      BY <1>2, <2>5 DEF WasFile
    <3> QED
      BY <3>1, <2>3, <1>1, <1>2 DEF Truth
  <2>8. There(fs', job.path, Absent)
    <3>1. Changed(fs', fs, f, Absent)
      BY <2>5, WithIs
    <3>2. f \notin DOMAIN fs'
      BY <3>1 DEF Changed
    <3> QED
      BY <3>2, <1>2 DEF There
  <2>9. Follows(j)
    BY <2>3 DEF Follows
  <2> QED
    BY <1>1, <1>2, <2>1, <2>2, <2>3, <2>4, <2>6, <2>7, <2>8, <2>9, ChangeKeeps
<1> QED
  BY <1>3, <1>4, <1>5

-----------------------------------------------------------------------------
LEMMA InitInv == Init => IInv
<1> SUFFICES ASSUME Init PROVE IInv
  OBVIOUS
<1>1. fs = Initially /\ job = Idle /\ stored = [path \in Paths |-> Unknown]
  BY DEF Init
<1>2. DOMAIN job = Fields /\ job.at = "idle" /\ job.body = <<>>
  BY <1>1 DEF Idle, Fields
<1>3. Typed
  BY <1>1, <1>2, EmptyIs, FilesAssumption DEF Typed, FilesAssumption
<1>4. Working(moments, job, mine)
  BY <1>2 DEF Working
<1>5. Expected(fs, stored)
  BY <1>1 DEF Expected, There
<1> QED
  BY <1>2, <1>3, <1>4, <1>5 DEF IInv

LEMMA StutterKeeps == IInv /\ UNCHANGED vars => IInv'
<1> SUFFICES ASSUME IInv, UNCHANGED vars PROVE IInv'
  OBVIOUS
<1>1. /\ fs' = fs /\ moments' = moments /\ mine' = mine /\ stored' = stored /\ job' = job
  BY DEF vars
<1>2. Typed'
  BY <1>1 DEF IInv, Typed, IsTree
<1>3. Working(moments, job, mine)'
  <2>1. Working(moments', job', mine')
    BY <1>1 DEF IInv
  <2> QED
    BY <2>1 DEF Working, Knows, Truth, Failed, WasDirectory, WasFile, WasNoFile, WasMissing,
                HadSize, Began, Listed, NoPage
<1>4. Expected(fs, stored)'
  <2>1. Expected(fs', stored')
    BY <1>1 DEF IInv
  <2> QED
    BY <2>1 DEF Expected, There
<1>5. (job.at # "idle" => Foreseen(job, stored[job.path]))'
  BY <1>1 DEF IInv, Foreseen
<1> QED
  BY <1>2, <1>3, <1>4, <1>5 DEF IInv

LEMMA NextInv == IInv /\ [Next]_vars => IInv'
<1> SUFFICES ASSUME IInv, [Next]_vars PROVE IInv'
  OBVIOUS
<1>1. CASE Begin
  BY <1>1, BeginKeeps
<1>2. CASE Resolve
  BY <1>2, ResolveKeeps
<1>3. CASE Stat
  BY <1>3, StatKeeps
<1>4. CASE Index
  BY <1>4, IndexKeeps
<1>5. CASE List
  BY <1>5, ListKeeps
<1>6. CASE Read
  BY <1>6, ReadKeeps
<1>7. CASE FindDirectory
  BY <1>7, FindDirectoryKeeps
<1>8. CASE FindTarget
  BY <1>8, FindTargetKeeps
<1>9. CASE WriteTarget
  BY <1>9, WriteTargetKeeps
<1>10. CASE FindStore
  BY <1>10, FindStoreKeeps
<1>11. CASE CreateFile
  BY <1>11, CreateFileKeeps
<1>12. CASE StatVictim
  BY <1>12, StatVictimKeeps
<1>13. CASE CheckAccess
  BY <1>13, CheckAccessKeeps
<1>14. CASE RemoveFile
  BY <1>14, RemoveFileKeeps
<1>15. CASE ChoosePage
  BY <1>15, ChoosePageKeeps
<1>16. CASE ServePage
  BY <1>16, ServePageKeeps
<1>17. CASE End
  BY <1>17, EndKeeps
<1>18. CASE Outside
  BY <1>18, OutsideKeeps
<1>19. CASE UNCHANGED vars
  BY <1>19, StutterKeeps
<1> QED
  BY <1>1, <1>2, <1>3, <1>4, <1>5, <1>6, <1>7, <1>8, <1>9, <1>10, <1>11, <1>12, <1>13,
     <1>14, <1>15, <1>16, <1>17, <1>18, <1>19 DEF Next

(* What a handler knows before each of its calls was true of the files at  *)
(* some moment of its request, and what a client has been told by an       *)
(* answer to PUT or DELETE is in the files until somebody touches them.    *)
THEOREM FilesInvariant == Spec => []IInv
<1>1. Init => IInv
  BY InitInv
<1>2. IInv /\ [Next]_vars => IInv'
  BY NextInv
<1> QED
  BY <1>1, <1>2, PTL DEF Spec

(* Whatever other programs do to the files between two calls of a handler, *)
(* every answer was true at some moment since its request began, and the   *)
(* request has changed the file that it was about and no other.            *)
THEOREM AnswersAreTrue == Spec => []AnswersTrue
<1>1. IInv => AnswersTrue
  BY TruthIs DEF IInv, Working
<1> QED
  BY <1>1, FilesInvariant, PTL

(* The body that a PUT was answered for is what a GET of the same path is  *)
(* answered with, and a file that DELETE has removed is not found, until   *)
(* something else touches the file or a directory it is in.                *)
THEOREM ServedAsStored == Spec => []StoredIsServed
<1>1. IInv => StoredIsServed
  <2> SUFFICES ASSUME IInv, job.at = "done", job.method = "GET", job.status # 405,
                      stored[job.path] # Unknown
               PROVE  IF stored[job.path] = Absent THEN job.status = 404
                      ELSE job.status = 200 /\ job.text = stored[job.path].body
    BY DEF StoredIsServed
  <2> DEFINE node == stored[job.path]
  <2>1. \/ node = Absent /\ job.status = 404
        \/ node.kind = "file" /\ job.status = 200 /\ job.text = node.body
    BY DEF IInv, Foreseen
  <2>2. node.kind = "file" => node # Absent
    BY DEF Absent
  <2> QED
    BY <2>1, <2>2
<1> QED
  BY <1>1, FilesInvariant, PTL
=============================================================================
