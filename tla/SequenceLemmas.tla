---- MODULE SequenceLemmas ----
(* Lemmas about sequences that need induction.  The library's induction theorems take a        *)
(* predicate; these are about a set of numbers, which first-order provers can instantiate.     *)
EXTENDS Integers, Sequences, SequencesExt, WellFoundedInduction, TLAPS

----------------------------------------------------------------------------
(* Induction *)

LEMMA LeastNumber ==
  ASSUME NEW T, T \subseteq Nat, T # {}
  PROVE  \E n \in T : \A m \in T : n <= m
<1> DEFINE R == OpToRel(<, Nat)
<1>1. IsWellFoundedOn(R, Nat)
  BY NatLessThanWellFounded
<1>2. \A x, y \in Nat : <<y, x>> \in R <=> y < x
  BY DEF OpToRel
<1> HIDE DEF R
<1>3. PICK n \in T : \A m \in T : <<m, n>> \notin R
  BY <1>1, WFMin
<1>4. n \in Nat /\ \A m \in T : m \in Nat /\ ~(m < n)
  BY <1>2, <1>3
<1>5. \A m \in T : n <= m
  BY <1>4
<1> QED
  BY <1>5

LEMMA Induction ==
  ASSUME NEW T, NEW b \in Nat, b \in T, \A n \in Nat : n >= b /\ n \in T => n + 1 \in T
  PROVE  \A n \in Nat : n >= b => n \in T
<1> DEFINE U == {n \in Nat : n >= b /\ n \notin T}
<1> SUFFICES ASSUME U # {} PROVE FALSE
  OBVIOUS
<1>1. PICK n \in U : \A m \in U : n <= m
  BY LeastNumber
<1>2. n # b /\ n - 1 \in Nat /\ n - 1 >= b
  BY <1>1
<1>3. n - 1 \in T
  BY <1>1, <1>2
<1> QED
  BY <1>1, <1>2, <1>3

(* The value at i is made from i and the value before, by F. *)
Follows(f, b, n, init, F) == f[b] = init /\ \A i \in b..n : i # b => f[i] = F[<<i, f[i-1]>>]

(* There is such a function. *)
LEMMA Recursion ==
  ASSUME NEW X, NEW b \in Nat, NEW N \in Nat, b <= N, NEW init \in X,
         NEW F \in [(b..N) \X X -> X]
  PROVE  \E f \in [b..N -> X] : Follows(f, b, N, init, F)
<1> DEFINE P(n) == \E f \in [b..n -> X] : Follows(f, b, n, init, F)
           T == {n \in Nat : n <= N => P(n)}
<1>1. P(b)
  <2> DEFINE f == [i \in b..b |-> init]
  <2>1. f \in [b..b -> X] /\ f[b] = init /\ \A i \in b..b : i = b
    OBVIOUS
  <2> QED
    BY <2>1 DEF Follows
<1>2. ASSUME NEW n \in Nat, n >= b, n + 1 <= N, P(n) PROVE P(n + 1)
  <2>1. PICK f \in [b..n -> X] : f[b] = init /\ \A i \in b..n : i # b => f[i] = F[<<i, f[i-1]>>]
    BY <1>2 DEF Follows
  <2> DEFINE g == [i \in b..(n + 1) |-> IF i = n + 1 THEN F[<<n + 1, f[n]>>] ELSE f[i]]
  <2>2. n \in b..n /\ b \in b..n /\ n + 1 \in b..N /\ F[<<n + 1, f[n]>>] \in X
    BY <1>2
  <2>3. g \in [b..(n + 1) -> X]
    BY <2>2
  <2>4. \A i \in b..n : g[i] = f[i]
    <3>1. \A i \in b..n : i \in b..(n + 1) /\ i # n + 1
      OBVIOUS
    <3> QED
      BY <3>1
  <2>5. g[n + 1] = F[<<n + 1, f[n]>>]
    BY <1>2
  <2> HIDE DEF g
  <2>6. ASSUME NEW i \in b..(n + 1), i # b PROVE g[i] = F[<<i, g[i-1]>>]
    <3>1. CASE i = n + 1
      <4>1. i - 1 = n /\ g[n] = f[n]
        BY <2>2, <2>4, <3>1
      <4> QED
        BY <2>5, <3>1, <4>1
    <3>2. CASE i # n + 1
      <4>1. i \in b..n /\ i - 1 \in b..n
        BY <2>6, <3>2
      <4> QED
        BY <2>1, <2>4, <2>6, <4>1
    <3> QED
      BY <3>1, <3>2
  <2>7. g[b] = init
    BY <2>1, <2>2, <2>4
  <2> QED
    BY <2>3, <2>6, <2>7 DEF Follows
<1> HIDE DEF P
<1>3. b \in T /\ \A n \in Nat : n >= b /\ n \in T => n + 1 \in T
  BY <1>1, <1>2
<1>4. N \in T
  <2> HIDE DEF T
  <2> QED
    BY <1>3, Induction
<1> QED
  BY <1>4 DEF P

----------------------------------------------------------------------------
(* Elements and parts *)

LEMMA Elements ==
  ASSUME NEW s
  PROVE  /\ \A i \in DOMAIN s : s[i] \in ToSet(s)
         /\ \A t \in ToSet(s) : \E i \in DOMAIN s : t = s[i]
BY DEF ToSet

LEMMA OneElement == ASSUME NEW S PROVE \A x \in S : <<x>> \in Seq(S)
OBVIOUS

LEMMA FirstTwo ==
  ASSUME NEW S, NEW s \in Seq(S), Len(s) >= 2, NEW x \in S
  PROVE  SubSeq(s, 1, 2) \o <<x>> = <<s[1], s[2], x>>
<1>1. s[1] \in S /\ s[2] \in S
  OBVIOUS
<1>2. SubSeq(s, 1, 2) = <<s[1], s[2]>>
  <2> DEFINE t == SubSeq(s, 1, 2)
  <2>1. t \in Seq(S) /\ Len(t) = 2 /\ t[1] = s[1] /\ t[2] = s[2]
    OBVIOUS
  <2> HIDE DEF t
  <2>2. t = [i \in 1..2 |-> t[i]]
    BY <2>1
  <2> DEFINE u == <<s[1], s[2]>>
  <2>3. u = [i \in 1..2 |-> u[i]] /\ u[1] = s[1] /\ u[2] = s[2]
    OBVIOUS
  <2> HIDE DEF u
  <2>4. t = u
    BY <2>1, <2>2, <2>3
  <2> QED
    BY <2>4 DEF t, u
<1>3. ASSUME NEW a \in S, NEW b \in S PROVE <<a, b>> \o <<x>> = <<a, b, x>>
  <2> DEFINE t == <<a, b>> \o <<x>>
             u == <<a, b, x>>
  <2>1. t \in Seq(S) /\ Len(t) = 3 /\ t[1] = a /\ t[2] = b /\ t[3] = x
    OBVIOUS
  <2>2. u = [i \in 1..3 |-> u[i]] /\ u[1] = a /\ u[2] = b /\ u[3] = x
    OBVIOUS
  <2> HIDE DEF t, u
  <2>3. t = [i \in 1..3 |-> t[i]]
    BY <2>1
  <2>4. t = u
    BY <2>1, <2>2, <2>3
  <2> QED
    BY <2>4 DEF t, u
<1> QED
  BY <1>1, <1>2, <1>3, Zenon

LEMMA HeadAndTail ==
  ASSUME NEW S, NEW s \in Seq(S), s # << >>
  PROVE  /\ Head(s) \in S /\ Tail(s) \in Seq(S) /\ Head(s) \in ToSet(s)
         /\ \A t \in ToSet(s) : t = Head(s) \/ t \in ToSet(Tail(s))
<1>1. Len(s) \in Nat /\ Len(s) >= 1 /\ DOMAIN s = 1..Len(s) /\ Head(s) = s[1] /\ s[1] \in S
  OBVIOUS
<1>2. /\ Tail(s) \in Seq(S)
      /\ DOMAIN Tail(s) = 1..(Len(s) - 1) /\ \A i \in 1..(Len(s) - 1) : Tail(s)[i] = s[i + 1]
  BY <1>1
<1>3. ASSUME NEW i \in 1..Len(s), i # 1 PROVE s[i] \in ToSet(Tail(s))
  <2>1. i - 1 \in 1..(Len(s) - 1) /\ s[i] = Tail(s)[i - 1]
    BY <1>1, <1>2, <1>3
  <2> QED
    BY <1>2, <2>1, Elements
<1>4. \A t \in ToSet(s) : t = Head(s) \/ t \in ToSet(Tail(s))
  BY <1>1, <1>3, Elements
<1>5. 1 \in DOMAIN s
  BY <1>1
<1>6. Head(s) \in ToSet(s)
  BY <1>1, <1>5, Elements
<1> QED
  BY <1>1, <1>2, <1>4, <1>6

LEMMA FromTheNext ==
  ASSUME NEW S, NEW s \in Seq(S), s # << >>, NEW i \in 2..(Len(s) + 1)
  PROVE  /\ SubSeq(s, i, Len(s)) \in Seq(S)
         /\ \A t \in ToSet(s) : \/ t = Head(s) \/ \E j \in 2..(i - 1) : t = s[j]
                                \/ t \in ToSet(SubSeq(s, i, Len(s)))
<1> DEFINE r == SubSeq(s, i, Len(s))
<1>1. Len(s) \in Nat /\ Len(s) >= 1 /\ DOMAIN s = 1..Len(s) /\ Head(s) = s[1] /\ i \in Nat
  OBVIOUS
<1>2. /\ r \in Seq(S) /\ DOMAIN r = 1..(Len(s) - i + 1)
      /\ \A k \in 1..(Len(s) - i + 1) : r[k] = s[i + k - 1]
  BY <1>1
<1>3. ASSUME NEW j \in 1..Len(s), j >= i PROVE s[j] \in ToSet(r)
  <2>1. j - i + 1 \in 1..(Len(s) - i + 1) /\ s[j] = r[j - i + 1]
    BY <1>1, <1>2, <1>3
  <2> HIDE DEF r
  <2> QED
    BY <1>2, <2>1, Elements
<1>4. ASSUME NEW j \in 1..Len(s), ~(j >= i), j # 1 PROVE j \in 2..(i - 1)
  BY <1>1, <1>4
<1> HIDE DEF r
<1>5. \A t \in ToSet(s) : t = Head(s) \/ (\E j \in 2..(i - 1) : t = s[j]) \/ t \in ToSet(r)
  BY <1>1, <1>3, <1>4, Elements
<1> QED
  BY <1>2, <1>5 DEF r

LEMMA FrontFacts ==
  ASSUME NEW S, NEW s \in Seq(S), s # << >>
  PROVE  /\ Front(s) \in Seq(S) /\ Len(Front(s)) = Len(s) - 1
         /\ \A i \in 1..(Len(s) - 1) : Front(s)[i] = s[i]
         /\ Last(s) = s[Len(s)] /\ Len(s) \in 1..Len(s) /\ Last(s) \in S
<1>1. Len(s) \in Nat /\ Len(s) >= 1
  OBVIOUS
<1>2. Front(s) = SubSeq(s, 1, Len(s) - 1) /\ Last(s) = s[Len(s)]
  BY DEF Front, Last
<1>3. ASSUME NEW n \in Nat, n = Len(s) - 1
      PROVE  /\ SubSeq(s, 1, n) \in Seq(S) /\ Len(SubSeq(s, 1, n)) = n
             /\ \A i \in 1..n : SubSeq(s, 1, n)[i] = s[i]
  <2>1. \A i \in 1..n : s[i] \in S /\ 1 + i - 1 = i
    BY <1>3
  <2>2. SubSeq(s, 1, n) = [i \in 1..n |-> s[i]]
    BY <1>3, <2>1
  <2> QED
    BY <2>1, <2>2
<1>4. Len(s) \in 1..Len(s) /\ s[Len(s)] \in S
  BY <1>1
<1>5. Len(s) - 1 \in Nat
  BY <1>1
<1> QED
  BY <1>2, <1>3, <1>4, <1>5

(* d is a, then b: named, so that a fact about d is found by its name. *)
IsConcat(d, a, b) == d = a \o b

LEMMA ConcatFacts ==
  ASSUME NEW S, NEW a \in Seq(S), NEW b \in Seq(S), NEW d, IsConcat(d, a, b)
  PROVE  /\ d \in Seq(S) /\ Len(d) = Len(a) + Len(b)
         /\ \A i \in 1..Len(a) : d[i] = a[i]
         /\ \A i \in 1..Len(b) : d[Len(a) + i] = b[i]
<1>1. Len(a) \in Nat /\ Len(b) \in Nat
  OBVIOUS
<1>2. d \in Seq(S) /\ Len(d) = Len(a) + Len(b)
  BY DEF IsConcat
<1>3. ASSUME NEW i \in 1..Len(a) PROVE d[i] = a[i]
  BY <1>1 DEF IsConcat
<1>4. ASSUME NEW i \in 1..Len(b) PROVE d[Len(a) + i] = b[i]
  BY <1>1 DEF IsConcat
<1> QED
  BY <1>2, <1>3, <1>4

----------------------------------------------------------------------------
(* FlattenSeq *)

(* f[i] is the concatenation of the first i. *)
Flats(seqs, n, f) == f[1] = seqs[1] /\ \A i \in 2..n : f[i] = f[i-1] \o seqs[i]

(* The recursive function in FlattenSeq exists. *)
LEMMA FlatsExist ==
  ASSUME NEW S, NEW seqs \in Seq(Seq(S)), seqs # << >>
  PROVE  \E f \in [1..Len(seqs) -> Seq(S)] : Flats(seqs, Len(seqs), f)
<1> DEFINE N == Len(seqs)
           X == Seq(S)
           F == [p \in (1..N) \X X |-> p[2] \o seqs[p[1]]]
<1>1. N \in Nat /\ 1 <= N /\ \A i \in 1..N : seqs[i] \in X
  OBVIOUS
<1>2. F \in [(1..N) \X X -> X]
  BY <1>1
<1>3. \A i \in 1..N, x \in X : F[<<i, x>>] = x \o seqs[i]
  OBVIOUS
<1> HIDE DEF F, N, X
<1>4. seqs[1] \in X /\ 1 \in Nat
  BY <1>1
<1>5. PICK f \in [1..N -> X] : Follows(f, 1, N, seqs[1], F)
  BY <1>1, <1>2, <1>4, Recursion
<1>6. \A i \in 2..N : i \in 1..N /\ i # 1 /\ i - 1 \in 1..N
  BY <1>1
<1>7. ASSUME NEW i \in 2..N PROVE f[i] = f[i-1] \o seqs[i]
  <2>1. f[i] = F[<<i, f[i-1]>>] /\ f[i-1] \in X
    BY <1>5, <1>6 DEF Follows
  <2> QED
    BY <1>3, <1>6, <2>1
<1> QED
  BY <1>5, <1>7 DEF Flats, Follows, N, X

LEMMA Flattens ==
  ASSUME NEW S, NEW seqs \in Seq(Seq(S)), seqs # << >>
  PROVE  \E f \in [1..Len(seqs) -> Seq(S)] :
           Flats(seqs, Len(seqs), f) /\ FlattenSeq(seqs) = f[Len(seqs)]
<1> DEFINE N == Len(seqs)
           R(f) == [i \in 1..N |-> IF i = 1 THEN seqs[i] ELSE f[i-1] \o seqs[i]]
           c == CHOOSE f : f = R(f)
<1>1. N \in Nat /\ N >= 1 /\ N # 0
  OBVIOUS
<1>2. PICK f \in [1..N -> Seq(S)] : Flats(seqs, N, f)
  BY FlatsExist
<1>3. f = R(f)
  <2>1. \A i \in 1..N : f[i] = IF i = 1 THEN seqs[i] ELSE f[i-1] \o seqs[i]
    <3>1. \A i \in 1..N : i # 1 => i \in 2..N
      BY <1>1
    <3> QED
      BY <1>2, <3>1 DEF Flats
  <2> QED
    BY <2>1
<1>4. c = R(c)
  <2> HIDE DEF R
  <2> QED
    BY <1>3
<1>5. FlattenSeq(seqs) = c[N]
  BY <1>1 DEF FlattenSeq
<1>6. DOMAIN c = 1..N /\ \A i \in 1..N : c[i] = IF i = 1 THEN seqs[i] ELSE c[i-1] \o seqs[i]
  <2> HIDE DEF c
  <2>1. DOMAIN R(c) = 1..N /\ \A i \in 1..N : R(c)[i] = IF i = 1 THEN seqs[i] ELSE c[i-1] \o seqs[i]
    OBVIOUS
  <2> HIDE DEF R
  <2> QED
    BY <1>4, <2>1
<1> HIDE DEF c
<1>7. Flats(seqs, N, c)
  <2>1. 1 \in 1..N /\ \A i \in 2..N : i \in 1..N /\ i # 1
    BY <1>1
  <2> QED
    BY <1>6, <2>1 DEF Flats
<1>8. \A n \in 1..N : c[n] \in Seq(S)
  <2> DEFINE T == {n \in Nat : n <= N => c[n] \in Seq(S)}
  <2>1. 1 \in T
    <3>1. 1 \in 1..N
      BY <1>1
    <3>2. c[1] = seqs[1]
      BY <1>6, <3>1
    <3>3. seqs[1] \in Seq(S)
      BY <3>1
    <3> QED
      BY <3>2, <3>3
  <2>2. ASSUME NEW n \in Nat, n >= 1, n \in T PROVE n + 1 \in T
    <3> SUFFICES ASSUME n + 1 <= N PROVE c[n + 1] \in Seq(S)
      OBVIOUS
    <3>1. n + 1 \in 1..N /\ n + 1 # 1 /\ (n + 1) - 1 = n /\ n <= N
      BY <1>1, <2>2
    <3>2. c[n + 1] = c[n] \o seqs[n + 1]
      BY <1>6, <3>1
    <3>3. c[n] \in Seq(S) /\ seqs[n + 1] \in Seq(S)
      BY <1>1, <2>2, <3>1
    <3> QED
      BY <3>2, <3>3
  <2> HIDE DEF T
  <2>3. \A n \in Nat : n >= 1 => n \in T
    BY <2>1, <2>2, Induction
  <2> QED
    BY <1>1, <2>3 DEF T
<1>9. c \in [1..N -> Seq(S)]
  <2>1. c = [i \in 1..N |-> c[i]]
    BY <1>4, <1>6
  <2> QED
    BY <1>8, <2>1
<1> QED
  BY <1>5, <1>7, <1>9

LEMMA FlattenType ==
  ASSUME NEW S, NEW seqs \in Seq(Seq(S))
  PROVE  FlattenSeq(seqs) \in Seq(S)
<1>1. Len(seqs) \in Nat
  OBVIOUS
<1>2. CASE seqs = << >>
  <2>1. Len(seqs) = 0
    BY <1>2
  <2>2. FlattenSeq(seqs) = << >>
    BY <1>2, <2>1 DEF FlattenSeq
  <2> QED
    BY <2>2
<1>3. CASE seqs # << >>
  <2>1. Len(seqs) \in 1..Len(seqs)
    BY <1>3
  <2>2. PICK f \in [1..Len(seqs) -> Seq(S)] : FlattenSeq(seqs) = f[Len(seqs)]
    BY <1>3, Flattens
  <2> QED
    BY <2>1, <2>2
<1> QED
  BY <1>2, <1>3

LEMMA FlattenPair ==
  ASSUME NEW S, NEW a \in Seq(S), NEW b \in Seq(S)
  PROVE  FlattenSeq(<<a, b>>) = a \o b
<1> DEFINE seqs == <<a, b>>
<1>1. seqs \in Seq(Seq(S)) /\ seqs # << >> /\ Len(seqs) = 2 /\ seqs[1] = a /\ seqs[2] = b
  OBVIOUS
<1> HIDE DEF seqs
<1>2. PICK f \in [1..2 -> Seq(S)] : Flats(seqs, 2, f) /\ FlattenSeq(seqs) = f[2]
  BY <1>1, Flattens
<1>3. f[1] = a /\ f[2] = f[1] \o b
  <2>1. 2 \in 2..2 /\ 2 - 1 = 1
    OBVIOUS
  <2> QED
    BY <1>1, <1>2, <2>1 DEF Flats
<1>4. FlattenSeq(seqs) = a \o b
  BY <1>2, <1>3
<1> QED
  BY <1>4 DEF seqs
====
