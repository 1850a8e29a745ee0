---------------------------- MODULE Search_proofs ----------------------------
(***************************************************************************)
(* Search, with Retrieval, for any prompts, legs, orders of equal scores,  *)
(* connections, and searches in flight.                                    *)
(***************************************************************************)
EXTENDS Search, FiniteSetTheorems, SequenceTheorems, TLAPS

----------------------------------------------------------------------------
(* Reciprocal rank fusion.  To be at least as high is a total preorder of  *)
(* the scores; with the order of ties it ranks the candidates strictly.    *)
LEMMA Scaling ==
    ASSUME NEW a \in Int, NEW b \in Int, NEW c \in Int, c > 0
    PROVE  a >= b <=> a * c >= b * c
<1>1. ASSUME a >= b PROVE a * c >= b * c
  <2>1. PICK d \in Int : d = a - b
    OBVIOUS
  <2>2. d >= 0 /\ d * c >= 0
    BY <1>1, <2>1
  <2>3. d * c = a * c - b * c
    BY <2>1
  <2> QED
    BY <2>2, <2>3
<1>2. ASSUME a < b PROVE a * c < b * c
  <2>1. PICK d \in Int : d = b - a
    OBVIOUS
  <2>2. d > 0 /\ d * c > 0
    BY <1>2, <2>1
  <2>3. d * c = b * c - a * c
    BY <2>1
  <2> QED
    BY <2>2, <2>3
<1> QED
  BY <1>1, <1>2

LEMMA FractionsTransitive ==
    ASSUME NEW a \in Nat, NEW b \in Nat \ {0}, NEW c \in Nat, NEW d \in Nat \ {0},
           NEW e \in Nat, NEW f \in Nat \ {0},
           a * d >= c * b, c * f >= e * d
    PROVE  a * f >= e * b
<1>1. (a * d) * f >= (c * b) * f
  <2>1. a * d \in Int /\ c * b \in Int /\ f \in Int /\ f > 0
    OBVIOUS
  <2> QED
    BY <2>1, Scaling
<1>2. (c * f) * b >= (e * d) * b
  <2>1. c * f \in Int /\ e * d \in Int /\ b \in Int /\ b > 0
    OBVIOUS
  <2> QED
    BY <2>1, Scaling
<1>3. (c * b) * f = (c * f) * b /\ (a * d) * f = (a * f) * d /\ (e * d) * b = (e * b) * d
  OBVIOUS
<1>4. (a * f) * d >= (e * b) * d
  <2>1. /\ (a * d) * f \in Int /\ (c * b) * f \in Int /\ (e * d) * b \in Int
    OBVIOUS
  <2> QED
    BY <1>1, <1>2, <1>3, <2>1
<1>5. a * f \in Int /\ e * b \in Int /\ d \in Int /\ d > 0
  OBVIOUS
<1> QED
  BY <1>4, <1>5, Scaling

Fraction == [num: Nat, den: Nat \ {0}]

LEMMA LegRanks ==
    ASSUME NEW s, IsLeg(s)
    PROVE  /\ DOMAIN s = 1..Len(s) /\ Len(s) \in Nat /\ Len(s) <= Pool
           /\ Members(s) \subseteq Cards /\ IsFiniteSet(Members(s))
           /\ \A c \in Members(s) : RankIn(s, c) \in DOMAIN s /\ s[RankIn(s, c)] = c
<1>1. s \in Seq(Cards) /\ DOMAIN s = 1..Len(s) /\ Len(s) \in Nat /\ Len(s) <= Pool
  BY DEF IsLeg
<1>2. \A c \in Members(s) : RankIn(s, c) \in DOMAIN s /\ s[RankIn(s, c)] = c
  <2>1. ASSUME NEW c \in Members(s) PROVE \E k \in DOMAIN s : s[k] = c
    BY DEF Members
  <2> QED
    BY <2>1 DEF RankIn
<1>3. s \in [1..Len(s) -> Members(s)] /\ Members(s) \subseteq Cards
  <2>1. s \in [1..Len(s) -> Cards]
    BY <1>1
  <2> QED
    BY <2>1 DEF Members
<1>4. s \in Surjection(1..Len(s), Members(s))
  BY <1>3 DEF Surjection, Members
<1>5. IsFiniteSet(Members(s))
  BY <1>1, <1>4, FS_Surjection, FS_Interval
<1> QED
  BY <1>1, <1>2, <1>3, <1>5

LEMMA ShareIsFraction ==
    ASSUME NEW s, IsLeg(s), NEW c
    PROVE  /\ Share(s, c) \in Fraction
           /\ c \in Members(s) => Share(s, c) = [num |-> 1, den |-> K + RankIn(s, c)]
           /\ c \notin Members(s) => Share(s, c) = [num |-> 0, den |-> 1]
<1>1. CASE c \in Members(s)
  <2>1. RankIn(s, c) \in 1..Len(s) /\ Len(s) \in Nat /\ K \in Nat
    BY <1>1, LegRanks, FusionAssumption
  <2>2. K + RankIn(s, c) \in Nat \ {0}
    BY <2>1
  <2> QED
    BY <1>1, <2>2 DEF Share, Fraction
<1>2. CASE c \notin Members(s)
  BY <1>2 DEF Share, Fraction
<1> QED
  BY <1>1, <1>2

LEMMA ProductPositive ==
    ASSUME NEW a \in Nat \ {0}, NEW b \in Nat \ {0}
    PROVE  a * b \in Nat \ {0}
OBVIOUS

LEMMA ScoreIsFraction ==
    ASSUME NEW lex, NEW sem, IsLeg(lex), IsLeg(sem), NEW c
    PROVE  Score(lex, sem, c) \in Fraction
<1>1. PICK l, m : l = Share(lex, c) /\ m = Share(sem, c)
  OBVIOUS
<1>2. l.num \in Nat /\ l.den \in Nat \ {0} /\ m.num \in Nat /\ m.den \in Nat \ {0}
  BY <1>1, ShareIsFraction DEF Fraction
<1>3. l.den * m.den \in Nat \ {0} /\ l.num * m.den + m.num * l.den \in Nat
  BY <1>2, ProductPositive
<1>4. Score(lex, sem, c) = [num |-> l.num * m.den + m.num * l.den, den |-> l.den * m.den]
  BY <1>1 DEF Score
<1> QED
  BY <1>3, <1>4 DEF Fraction

AtLeast(x, y) == x.num * y.den >= y.num * x.den

LEMMA AtLeastOrders ==
    ASSUME NEW x \in Fraction, NEW y \in Fraction, NEW z \in Fraction
    PROVE  /\ AtLeast(x, y) \/ AtLeast(y, x)
           /\ Above(x, y) <=> ~ AtLeast(y, x)
           /\ AtLeast(x, y) /\ AtLeast(y, z) => AtLeast(x, z)
<1>1. /\ x.num \in Nat /\ x.den \in Nat \ {0}
      /\ y.num \in Nat /\ y.den \in Nat \ {0}
      /\ z.num \in Nat /\ z.den \in Nat \ {0}
  BY DEF Fraction
<1>2. x.num * y.den \in Int /\ y.num * x.den \in Int
  BY <1>1
<1>3. AtLeast(x, y) /\ AtLeast(y, z) => AtLeast(x, z)
  BY <1>1, FractionsTransitive DEF AtLeast
<1> QED
  BY <1>2, <1>3 DEF AtLeast, Above

IsTie(tie) == tie \in [Cards -> Nat] /\ \A c, d \in Cards : tie[c] = tie[d] => c = d

LEMMA BeforeOrders ==
    ASSUME NEW lex, NEW sem, IsLeg(lex), IsLeg(sem), NEW tie, IsTie(tie)
    PROVE  LET S == Candidates(lex, sem)
               B(c) == Before(lex, sem, tie, c)
           IN  /\ S \subseteq Cards
               /\ \A c \in S : B(c) \subseteq S /\ c \notin B(c)
               /\ \A c, d \in S : c # d => c \in B(d) \/ d \in B(c)
               /\ \A b, c, d \in S : b \in B(c) /\ c \in B(d) => b \in B(d)
<1> DEFINE S == Candidates(lex, sem)
           B(c) == Before(lex, sem, tie, c)
           V(c) == Score(lex, sem, c)
<1>1. S \subseteq Cards /\ \A c \in S : V(c) \in Fraction /\ tie[c] \in Nat
  BY LegRanks, ScoreIsFraction DEF Candidates, IsTie
<1>2. ASSUME NEW c \in S, NEW d \in S
      PROVE  d \in B(c) <=> AtLeast(V(d), V(c)) /\ (~ AtLeast(V(c), V(d)) \/ tie[d] < tie[c])
  <2>1. /\ V(c) \in Fraction /\ V(d) \in Fraction
        /\ d \in Beating(lex, sem, c) <=> Above(V(d), V(c))
        /\ c \in Beating(lex, sem, d) <=> Above(V(c), V(d))
    BY <1>1 DEF Beating
  <2>2. d \in B(c) <=> Above(V(d), V(c)) \/ (tie[d] < tie[c] /\ ~ Above(V(c), V(d)))
    BY <2>1 DEF Before
  <2>3. /\ Above(V(d), V(c)) <=> ~ AtLeast(V(c), V(d))
        /\ Above(V(c), V(d)) <=> ~ AtLeast(V(d), V(c))
        /\ AtLeast(V(c), V(d)) \/ AtLeast(V(d), V(c))
    BY <2>1, AtLeastOrders
  <2> QED
    BY <2>2, <2>3
<1>3. ASSUME NEW c \in S PROVE B(c) \subseteq S /\ c \notin B(c)
  <2>1. B(c) \subseteq S
    BY DEF Before, Beating
  <2>2. tie[c] \in Nat /\ ~ (tie[c] < tie[c])
    BY <1>1
  <2> QED
    BY <1>2, <2>1, <2>2
<1>4. ASSUME NEW c \in S, NEW d \in S, c # d PROVE c \in B(d) \/ d \in B(c)
  <2>1. AtLeast(V(c), V(d)) \/ AtLeast(V(d), V(c))
    BY <1>1, AtLeastOrders
  <2>2. tie[c] # tie[d] /\ tie[c] \in Nat /\ tie[d] \in Nat
    BY <1>1, <1>4 DEF IsTie
  <2>3. tie[c] < tie[d] \/ tie[d] < tie[c]
    BY <2>2
  <2> QED
    BY <1>2, <2>1, <2>3
<1>5. ASSUME NEW b \in S, NEW c \in S, NEW d \in S, b \in B(c), c \in B(d)
      PROVE  b \in B(d)
  <2> DEFINE ge(x, y) == AtLeast(V(x), V(y))
  <2>1. /\ ge(b, c) /\ (~ ge(c, b) \/ tie[b] < tie[c])
        /\ ge(c, d) /\ (~ ge(d, c) \/ tie[c] < tie[d])
    BY <1>2, <1>5
  <2>2. \A x, y, z \in S : ge(x, y) /\ ge(y, z) => ge(x, z)
    BY <1>1, AtLeastOrders
  <2>3. ge(b, d) /\ (ge(d, b) => ge(d, c) /\ ge(c, b))
    BY <2>1, <2>2
  <2>4. tie[b] < tie[c] /\ tie[c] < tie[d] => tie[b] < tie[d]
    BY <1>1
  <2> HIDE DEF ge
  <2>5. ge(b, d) /\ (~ ge(d, b) \/ tie[b] < tie[d])
    BY <2>1, <2>3, <2>4
  <2> USE DEF ge
  <2> QED
    BY <1>2, <2>5
<1> QED
  BY <1>1, <1>3, <1>4, <1>5

(* Each place of the list is taken by one card: the one with as many cards *)
(* before it.                                                              *)
LEMMA Places ==
    ASSUME NEW lex, NEW sem, IsLeg(lex), IsLeg(sem), NEW tie, IsTie(tie)
    PROVE  LET S == Candidates(lex, sem)
               N == Cardinality(S)
               R(c) == Cardinality(Before(lex, sem, tie, c))
           IN  /\ N \in Nat
               /\ \A c \in S : R(c) \in 0..N - 1
               /\ \A c, d \in S : R(c) = R(d) => c = d
               /\ \A c, d \in S : c \in Before(lex, sem, tie, d) => R(c) < R(d)
               /\ \A k \in 1..N : \E c \in S : R(c) = k - 1
<1> DEFINE S == Candidates(lex, sem)
           N == Cardinality(S)
           B(c) == Before(lex, sem, tie, c)
           R(c) == Cardinality(B(c))
<1>1. IsFiniteSet(S) /\ N \in Nat
  BY LegRanks, FS_Union, FS_CardinalityType DEF Candidates
<1>2. /\ \A c \in S : B(c) \subseteq S /\ c \notin B(c)
      /\ \A c, d \in S : c # d => c \in B(d) \/ d \in B(c)
      /\ \A b, c, d \in S : b \in B(c) /\ c \in B(d) => b \in B(d)
  BY BeforeOrders
<1> HIDE DEF B
<1>3. ASSUME NEW c \in S PROVE IsFiniteSet(B(c)) /\ R(c) \in Nat /\ R(c) < N
  <2>1. B(c) \in SUBSET S /\ B(c) # S
    BY <1>2
  <2> HIDE DEF S
  <2>2. IsFiniteSet(B(c)) /\ R(c) <= N /\ (N = R(c) => S = B(c))
    BY <1>1, <2>1, FS_Subset
  <2>3. R(c) \in Nat
    BY <2>2, FS_CardinalityType
  <2> QED
    BY <1>1, <2>1, <2>2, <2>3
<1>4. ASSUME NEW c \in S, NEW d \in S, c \in B(d) PROVE R(c) < R(d)
  <2>1. B(c) \in SUBSET B(d) /\ B(c) # B(d)
    BY <1>2, <1>4
  <2>2. R(c) <= R(d) /\ (R(d) = R(c) => B(d) = B(c))
    BY <1>3, <2>1, FS_Subset
  <2> QED
    BY <1>3, <2>1, <2>2
<1>5. ASSUME NEW c \in S, NEW d \in S, R(c) = R(d) PROVE c = d
  <2>1. R(c) \in Nat /\ R(d) \in Nat
    BY <1>3
  <2>2. c \notin B(d) /\ d \notin B(c)
    BY <1>4, <1>5, <2>1
  <2> QED
    BY <1>2, <2>2
<1>6. ASSUME NEW k \in 1..N PROVE \E c \in S : R(c) = k - 1
  <2> DEFINE T == 0..N - 1
             f == [c \in S |-> R(c)]
  <2>1. IsFiniteSet(T) /\ Cardinality(T) = N
    <3> HIDE DEF N
    <3>1. 0 \in Int /\ N - 1 \in Int /\ ~ (0 > N - 1) /\ N - 1 - 0 + 1 = N
      BY <1>1
    <3> QED
      BY <3>1, FS_Interval
  <2>2. f \in [S -> T] /\ \A c \in S : f[c] = R(c)
    BY <1>1, <1>3
  <2>3. \A c, d \in S : f[c] = f[d] => c = d
    BY <1>5, <2>2
  <2> HIDE DEF f, S
  <2>4. f \in Injection(S, T)
    BY <2>2, <2>3 DEF Injection, IsInjective
  <2>5. f \in Surjection(S, T)
    BY <2>1, <2>4, FS_Injection
  <2>6. \A t \in T : \E c \in S : f[c] = t
    BY <2>5 DEF Surjection
  <2>7. k - 1 \in T
    BY <1>1
  <2> QED
    BY <2>2, <2>6, <2>7
<1>7. \A c \in S : R(c) \in 0..N - 1
  BY <1>1, <1>3
<1> QED
  BY <1>1, <1>4, <1>5, <1>6, <1>7 DEF B

LEMMA FusedList ==
    ASSUME NEW lex, NEW sem, IsLeg(lex), IsLeg(sem), NEW tie, IsTie(tie)
    PROVE  LET S == Candidates(lex, sem)
               F == Fused(lex, sem, tie)
           IN  /\ F \in Seq(Cards) /\ Len(F) = Cut(Cardinality(S), Limit) /\ Len(F) <= Limit
               /\ Members(F) \subseteq S
               /\ \A k \in DOMAIN F : Cardinality(Before(lex, sem, tie, F[k])) = k - 1
               /\ \A j, k \in DOMAIN F : F[j] = F[k] => j = k
               /\ \A c \in S \ Members(F) : Cardinality(Before(lex, sem, tie, c)) >= Limit
<1> DEFINE S == Candidates(lex, sem)
           N == Cardinality(S)
           R(c) == Cardinality(Before(lex, sem, tie, c))
           F == Fused(lex, sem, tie)
           M == Cut(N, Limit)
<1>1. /\ N \in Nat /\ S \subseteq Cards
      /\ \A c \in S : R(c) \in 0..N - 1
      /\ \A c, d \in S : R(c) = R(d) => c = d
      /\ \A k \in 1..N : \E c \in S : R(c) = k - 1
  BY Places, BeforeOrders
<1>2. M \in Nat /\ M <= N /\ M <= Limit /\ Limit \in Nat /\ (M = N \/ M = Limit)
  BY <1>1, FusionAssumption DEF Cut
<1>3. F = [k \in 1..M |-> CHOOSE c \in S : R(c) = k - 1]
  BY DEF Fused
<1> HIDE DEF R, S, F, N, M
<1>4. ASSUME NEW k \in 1..M PROVE F[k] \in S /\ R(F[k]) = k - 1
  <2>1. k \in 1..N
    BY <1>1, <1>2
  <2>2. \E c \in S : R(c) = k - 1
    BY <1>1, <2>1
  <2>3. F[k] = CHOOSE c \in S : R(c) = k - 1
    BY <1>3
  <2> QED
    BY <2>2, <2>3
<1>5. DOMAIN F = 1..M /\ F \in [1..M -> Cards] /\ Members(F) \subseteq S
  BY <1>1, <1>3, <1>4 DEF Members
<1>6. F \in Seq(Cards) /\ Len(F) = M
  BY <1>2, <1>5
<1>7. ASSUME NEW j \in DOMAIN F, NEW k \in DOMAIN F, F[j] = F[k] PROVE j = k
  <2>1. R(F[j]) = j - 1 /\ R(F[k]) = k - 1 /\ j \in Int /\ k \in Int
    BY <1>2, <1>4, <1>5
  <2> QED
    BY <1>7, <2>1
<1>8. ASSUME NEW c \in S \ Members(F) PROVE R(c) >= Limit
  <2>1. SUFFICES ASSUME R(c) < Limit PROVE FALSE
    BY <1>1, <1>2
  <2>2. R(c) + 1 \in 1..M
    BY <1>1, <1>2, <2>1
  <2>3. F[R(c) + 1] \in S /\ R(F[R(c) + 1]) = R(c)
    BY <1>1, <1>4, <2>2
  <2>4. F[R(c) + 1] = c
    BY <1>1, <2>3
  <2> QED
    BY <1>5, <2>2, <2>4 DEF Members
<1> QED
  BY <1>2, <1>4, <1>5, <1>6, <1>7, <1>8 DEF R, S, F, M, N

(* Whoever comes before the first card of the lexical leg is a rival of    *)
(* it: any other card is on one leg alone, and not first there.            *)
LEMMA OneOver ==
    ASSUME NEW s, NEW t, IsLeg(s), IsLeg(t), NEW c
    PROVE  /\ c \notin Members(t) => Score(s, t, c) = Share(s, c)
           /\ c \notin Members(s) => Score(s, t, c) = Share(t, c)
<1>1. PICK l, m : l = Share(s, c) /\ m = Share(t, c)
  OBVIOUS
<1>2. l \in Fraction /\ m \in Fraction
  BY <1>1, ShareIsFraction
<1>3. Score(s, t, c) = [num |-> l.num * m.den + m.num * l.den, den |-> l.den * m.den]
  BY <1>1 DEF Score
<1>4. CASE c \notin Members(t)
  <2>1. m.num = 0 /\ m.den = 1
    BY <1>1, <1>4, ShareIsFraction
  <2>2. l.num \in Nat /\ l.den \in Nat
    BY <1>2 DEF Fraction
  <2>3. l.num * m.den + m.num * l.den = l.num /\ l.den * m.den = l.den
    BY <2>1, <2>2
  <2>4. l = [num |-> l.num, den |-> l.den]
    BY <1>2 DEF Fraction
  <2>5. Score(s, t, c) = Share(s, c)
    BY <1>1, <1>3, <2>3, <2>4
  <2>6. c \notin Members(s) => Share(s, c) = Share(t, c)
    BY <1>4, ShareIsFraction
  <2> QED
    BY <2>5, <2>6
<1>5. CASE c \notin Members(s)
  <2>1. l.num = 0 /\ l.den = 1
    BY <1>1, <1>5, ShareIsFraction
  <2>2. m.num \in Nat /\ m.den \in Nat
    BY <1>2 DEF Fraction
  <2>3. l.num * m.den + m.num * l.den = m.num /\ l.den * m.den = m.den
    BY <2>1, <2>2
  <2>4. m = [num |-> m.num, den |-> m.den]
    BY <1>2 DEF Fraction
  <2>5. Score(s, t, c) = Share(t, c)
    BY <1>1, <1>3, <2>3, <2>4
  <2>6. c \notin Members(t) => Share(t, c) = Share(s, c)
    BY <1>5, ShareIsFraction
  <2> QED
    BY <2>5, <2>6
<1> QED
  BY <1>4, <1>5

Top == [num |-> 1, den |-> K + 1]

LEMMA HeadScore ==
    ASSUME NEW s, NEW t, IsLeg(s), IsLeg(t), s # <<>>
    PROVE  /\ Top \in Fraction /\ Head(s) \in Members(s) /\ Head(s) = s[1]
           /\ AtLeast(Score(s, t, Head(s)), Top)
<1>1. 1 \in DOMAIN s /\ Head(s) = s[1] /\ Head(s) \in Members(s)
  BY DEF IsLeg, Members
<1>2. RankIn(s, Head(s)) = 1
  BY <1>1, LegRanks DEF IsLeg
<1>3. PICK m : m = Share(t, Head(s))
  OBVIOUS
<1>4. m.num \in Nat /\ m.den \in Nat \ {0} /\ K \in Nat
  BY <1>3, ShareIsFraction, FusionAssumption DEF Fraction
<1>5. Share(s, Head(s)) = Top
  BY <1>1, <1>2, ShareIsFraction DEF Top
<1>6. Score(s, t, Head(s)) = [num |-> 1 * m.den + m.num * (K + 1), den |-> (K + 1) * m.den]
  BY <1>3, <1>5 DEF Score, Top
<1>7. (1 * m.den + m.num * (K + 1)) * (K + 1) >= 1 * ((K + 1) * m.den)
  <2>1. PICK a, b : a = m.num * (K + 1) /\ b = K + 1
    OBVIOUS
  <2>2. a \in Nat /\ b \in Nat /\ a * b \in Nat /\ m.den \in Nat
    BY <1>4, <2>1, ProductPositive
  <2>3. (1 * m.den + a) * b = b * m.den + a * b
    BY <2>2
  <2>4. 1 * (b * m.den) = b * m.den /\ b * m.den \in Nat
    BY <2>2
  <2> QED
    BY <2>1, <2>2, <2>3, <2>4
<1> QED
  BY <1>1, <1>4, <1>6, <1>7 DEF AtLeast, Top, Fraction

LEMMA LowerShare ==
    ASSUME NEW s, IsLeg(s), NEW c \in Members(s), c # Head(s)
    PROVE  ~ AtLeast(Share(s, c), Top)
<1>1. RankIn(s, c) \in 1..Len(s) /\ s[RankIn(s, c)] = c /\ Len(s) \in Nat /\ K \in Nat
  BY LegRanks, FusionAssumption
<1>2. RankIn(s, c) # 1
  <2>1. Len(s) # 0 /\ s \in Seq(Cards)
    BY <1>1 DEF IsLeg
  <2>2. Head(s) = s[1]
    BY <2>1
  <2> QED
    BY <1>1, <2>2
<1>3. Share(s, c) = [num |-> 1, den |-> K + RankIn(s, c)]
  BY ShareIsFraction
<1>4. 1 * (K + 1) < 1 * (K + RankIn(s, c))
  BY <1>1, <1>2
<1> QED
  BY <1>1, <1>3, <1>4 DEF AtLeast, Top

LEMMA OnlyRivals ==
    ASSUME NEW lex, NEW sem, IsLeg(lex), IsLeg(sem), NEW tie, IsTie(tie), lex # <<>>
    PROVE  Before(lex, sem, tie, Head(lex)) \subseteq Rivals(lex, sem)
<1> DEFINE h == Head(lex)
           V(c) == Score(lex, sem, c)
<1>1. h \in Candidates(lex, sem) /\ AtLeast(V(h), Top) /\ Top \in Fraction
  BY HeadScore DEF Candidates
<1>2. ASSUME NEW d \in Before(lex, sem, tie, h), d \notin Rivals(lex, sem) PROVE FALSE
  <2>1. d \in Candidates(lex, sem) /\ d # h
    BY <1>1, <1>2, BeforeOrders
  <2>2. V(d) \in Fraction /\ V(h) \in Fraction
    BY ScoreIsFraction
  <2>3. AtLeast(V(d), V(h))
    <3>1. Above(V(d), V(h)) \/ ~ Above(V(h), V(d))
      BY <1>1, <2>1 DEF Before, Beating
    <3> QED
      BY <2>2, <3>1, AtLeastOrders
  <2>4. AtLeast(V(d), Top)
    BY <1>1, <2>2, <2>3, AtLeastOrders
  <2>5. CASE d \notin Members(sem)
    <3>1. d \in Members(lex) /\ V(d) = Share(lex, d)
      BY <2>1, <2>5, OneOver DEF Candidates
    <3> QED
      BY <2>1, <2>4, <3>1, LowerShare
  <2>6. CASE d \in Members(sem)
    <3>1. d \notin Members(lex) /\ d # Head(sem)
      BY <1>2, <2>1, <2>6 DEF Rivals
    <3>2. V(d) = Share(sem, d)
      BY <3>1, OneOver
    <3> QED
      BY <2>4, <2>6, <3>1, <3>2, LowerShare
  <2> QED
    BY <2>5, <2>6
<1> QED
  BY <1>2

LEMMA HeadIsKept ==
    ASSUME NEW lex, NEW sem, IsLeg(lex), IsLeg(sem), NEW tie, IsTie(tie), lex # <<>>,
           Head(lex) \notin Members(Fused(lex, sem, tie))
    PROVE  IsFiniteSet(Rivals(lex, sem)) /\ Cardinality(Rivals(lex, sem)) >= Limit
<1>1. Head(lex) \in Candidates(lex, sem)
  BY HeadScore DEF Candidates
<1>2. Cardinality(Before(lex, sem, tie, Head(lex))) >= Limit
  BY <1>1, FusedList
<1>3. IsFiniteSet(Rivals(lex, sem))
  <2>1. Rivals(lex, sem) \in SUBSET Members(sem)
    BY DEF Rivals
  <2> QED
    BY <2>1, LegRanks, FS_Subset
<1>4. Before(lex, sem, tie, Head(lex)) \in SUBSET Rivals(lex, sem)
  BY OnlyRivals
<1>5. /\ Cardinality(Before(lex, sem, tie, Head(lex))) \in Nat
      /\ Cardinality(Rivals(lex, sem)) \in Nat
      /\ Cardinality(Before(lex, sem, tie, Head(lex))) <= Cardinality(Rivals(lex, sem))
  BY <1>3, <1>4, FS_Subset, FS_CardinalityType
<1> QED
  BY <1>2, <1>3, <1>5, FusionAssumption

----------------------------------------------------------------------------
(* What the order of the list says of the two legs.                        *)

LEMMA BeforeScores ==
    ASSUME NEW lex, NEW sem, IsLeg(lex), IsLeg(sem), NEW tie,
           NEW c \in Candidates(lex, sem), NEW d \in Candidates(lex, sem)
    PROVE  /\ Above(Score(lex, sem, c), Score(lex, sem, d)) => c \in Before(lex, sem, tie, d)
           /\ c \in Before(lex, sem, tie, d) => AtLeast(Score(lex, sem, c), Score(lex, sem, d))
<1>1. Score(lex, sem, c) \in Fraction /\ Score(lex, sem, d) \in Fraction
  BY ScoreIsFraction
<1>2. c \in Before(lex, sem, tie, d) =>
         Above(Score(lex, sem, c), Score(lex, sem, d)) \/ ~Above(Score(lex, sem, d), Score(lex, sem, c))
  BY DEF Before, Beating
<1>3. Above(Score(lex, sem, c), Score(lex, sem, d)) => c \in Before(lex, sem, tie, d)
  BY DEF Before, Beating
<1> QED
  BY <1>1, <1>2, <1>3, AtLeastOrders

(* Retrieval returns as many cards as it may, no card below one that it    *)
(* leaves out, in descending order of their scores.                        *)
THEOREM FusionSorts ==
    ASSUME NEW lex, NEW sem, IsLeg(lex), IsLeg(sem), NEW tie, IsTie(tie)
    PROVE  LET F == Fused(lex, sem, tie)
               V(c) == Score(lex, sem, c)
           IN  /\ Len(F) = Cut(Cardinality(Candidates(lex, sem)), Limit)
               /\ \A j, k \in DOMAIN F : j < k => AtLeast(V(F[j]), V(F[k]))
               /\ \A k \in DOMAIN F, c \in Candidates(lex, sem) \ Members(F) :
                      AtLeast(V(F[k]), V(c))
<1> DEFINE F == Fused(lex, sem, tie)
           S == Candidates(lex, sem)
           V(c) == Score(lex, sem, c)
           B(c) == Before(lex, sem, tie, c)
           R(c) == Cardinality(B(c))
<1>1. /\ Len(F) = Cut(Cardinality(S), Limit) /\ Len(F) <= Limit
      /\ \A k \in DOMAIN F : k \in Nat \ {0} /\ k <= Len(F) /\ Len(F) \in Nat
                             /\ F[k] \in S /\ R(F[k]) = k - 1
      /\ \A c \in S \ Members(F) : R(c) >= Limit
  <2>1. F \in Seq(Cards) /\ Members(F) \subseteq S
    BY FusedList
  <2>2. \A k \in DOMAIN F : F[k] \in S /\ k \in Nat \ {0} /\ k <= Len(F) /\ Len(F) \in Nat
    BY <2>1 DEF Members
  <2> HIDE DEF F
  <2> QED
    BY <2>2, FusedList DEF F
<1>2. \A c, d \in S : R(c) \in Nat /\ (c \in B(d) => R(c) < R(d))
  BY Places
<1>3. \A c, d \in S : c # d => c \in B(d) \/ d \in B(c)
  BY BeforeOrders
<1>4. \A c, d \in S : c \in B(d) => AtLeast(V(c), V(d))
  BY BeforeScores
<1> HIDE DEF F, S, V, B
<1>5. ASSUME NEW c \in S, NEW d \in S, c # d, R(c) <= R(d) PROVE AtLeast(V(c), V(d))
  <2>1. ~(d \in B(c))
    BY <1>2, <1>5
  <2> QED
    BY <1>3, <1>4, <1>5, <2>1
<1>6. ASSUME NEW j \in DOMAIN F, NEW k \in DOMAIN F, j < k PROVE AtLeast(V(F[j]), V(F[k]))
  <2>1. R(F[j]) = j - 1 /\ R(F[k]) = k - 1 /\ j \in Nat /\ k \in Nat
    BY <1>1
  <2>2. F[j] # F[k] /\ R(F[j]) <= R(F[k])
    BY <1>6, <2>1
  <2> QED
    BY <1>1, <1>5, <2>2
<1>7. ASSUME NEW k \in DOMAIN F, NEW c \in S \ Members(F) PROVE AtLeast(V(F[k]), V(c))
  <2>1. F[k] # c
    BY DEF Members
  <2>2. R(F[k]) = k - 1 /\ R(c) >= Limit /\ k <= Limit /\ k \in Nat /\ R(c) \in Nat
    BY <1>1, <1>2, FusionAssumption
  <2>3. R(F[k]) <= R(c)
    BY <2>2, FusionAssumption
  <2> QED
    BY <1>1, <1>5, <2>1, <2>3
<1> QED
  BY <1>1, <1>6, <1>7 DEF F, S, V

LEMMA AboveComesFirst ==
    ASSUME NEW lex, NEW sem, IsLeg(lex), IsLeg(sem), NEW tie, IsTie(tie),
           NEW c \in Candidates(lex, sem), NEW d \in Candidates(lex, sem),
           Above(Score(lex, sem, c), Score(lex, sem, d)),
           NEW j \in DOMAIN Fused(lex, sem, tie), Fused(lex, sem, tie)[j] = d
    PROVE  \E k \in DOMAIN Fused(lex, sem, tie) : k < j /\ Fused(lex, sem, tie)[k] = c
<1> DEFINE F == Fused(lex, sem, tie)
           S == Candidates(lex, sem)
           R(x) == Cardinality(Before(lex, sem, tie, x))
<1>1. F \in Seq(Cards) /\ R(d) = j - 1 /\ \A k \in DOMAIN F : R(F[k]) = k - 1 /\ F[k] \in S
  <2>1. F \in Seq(Cards) /\ Members(F) \subseteq S /\ \A k \in DOMAIN F : R(F[k]) = k - 1
    BY FusedList
  <2> QED
    BY <2>1 DEF Members
<1>2. R(c) < R(d) /\ R(c) \in Nat /\ R(d) \in Nat /\ \A x, y \in S : R(x) = R(y) => x = y
  BY BeforeScores, Places
<1> HIDE DEF F, R, S
<1>3. PICK k : k = R(c) + 1
  OBVIOUS
<1>4. j \in 1..Len(F) /\ DOMAIN F = 1..Len(F) /\ Len(F) \in Nat
  BY <1>1 DEF F
<1>5. k \in DOMAIN F /\ k < j
  BY <1>1, <1>2, <1>3, <1>4
<1>6. R(F[k]) = R(c)
  BY <1>1, <1>2, <1>3, <1>5
<1>7. c \in S
  BY DEF S
<1> QED
  BY <1>1, <1>2, <1>5, <1>6, <1>7 DEF F

LEMMA SumsCompare ==
    ASSUME NEW a \in Nat, NEW b \in Nat \ {0}, NEW c \in Nat, NEW d \in Nat \ {0},
           NEW e \in Nat, NEW f \in Nat \ {0}, NEW g \in Nat, NEW h \in Nat \ {0},
           a * f >= e * b, c * h >= g * d, a * f > e * b \/ c * h > g * d
    PROVE  (a * d + c * b) * (f * h) > (e * h + g * f) * (b * d)
<1>1. PICK p, q : p = d * h /\ q = b * f
  OBVIOUS
<1>2. p \in Int /\ p > 0 /\ q \in Int /\ q > 0
  BY <1>1, ProductPositive
<1>3. PICK u, v, x, y : u = a * f /\ v = e * b /\ x = c * h /\ y = g * d
  OBVIOUS
<1>4. u \in Int /\ v \in Int /\ x \in Int /\ y \in Int
  BY <1>3
<1>5. (a * d + c * b) * (f * h) = u * p + x * q
  BY <1>1, <1>3
<1>6. (e * h + g * f) * (b * d) = v * p + y * q
  BY <1>1, <1>3
<1>7. /\ u >= v <=> u * p >= v * p
      /\ v >= u <=> v * p >= u * p
      /\ x >= y <=> x * q >= y * q
      /\ y >= x <=> y * q >= x * q
  BY <1>2, <1>4, Scaling
<1>8. u * p \in Int /\ v * p \in Int /\ x * q \in Int /\ y * q \in Int
  BY <1>2, <1>4
<1>9. u * p + x * q > v * p + y * q
  BY <1>3, <1>4, <1>7, <1>8
<1> QED
  BY <1>5, <1>6, <1>9

(* A card that a leg ranks no lower than another one, if it has that one.  *)
NotBehind(s, c, d) == d \in Members(s) => c \in Members(s) /\ RankIn(s, c) <= RankIn(s, d)

LEMMA ShareOrder ==
    ASSUME NEW s, IsLeg(s), NEW c, NEW d, c # d, NotBehind(s, c, d)
    PROVE  /\ AtLeast(Share(s, c), Share(s, d))
           /\ d \in Members(s) => Above(Share(s, c), Share(s, d))
<1>1. CASE d \notin Members(s)
  <2>1. Share(s, d) = [num |-> 0, den |-> 1]
    BY <1>1, ShareIsFraction
  <2>2. Share(s, c).num \in Nat /\ Share(s, c).den \in Nat
    BY ShareIsFraction DEF Fraction
  <2> QED
    BY <1>1, <2>1, <2>2 DEF AtLeast
<1>2. CASE d \in Members(s)
  <2>1. /\ c \in Members(s) /\ RankIn(s, c) <= RankIn(s, d)
        /\ RankIn(s, c) \in Nat /\ RankIn(s, d) \in Nat /\ RankIn(s, c) # RankIn(s, d)
    BY <1>2, LegRanks DEF NotBehind
  <2>2. /\ Share(s, c) = [num |-> 1, den |-> K + RankIn(s, c)]
        /\ Share(s, d) = [num |-> 1, den |-> K + RankIn(s, d)]
    BY <1>2, <2>1, ShareIsFraction
  <2>3. K + RankIn(s, c) < K + RankIn(s, d) /\ K + RankIn(s, c) \in Nat /\ K + RankIn(s, d) \in Nat
    BY <2>1, FusionAssumption
  <2> QED
    BY <2>2, <2>3 DEF AtLeast, Above
<1> QED
  BY <1>1, <1>2

(* Fusion respects agreement: a card that neither leg ranks below another  *)
(* one comes before it, however ties fall.                                 *)
THEOREM FusionRespectsAgreement ==
    ASSUME NEW lex, NEW sem, IsLeg(lex), IsLeg(sem), NEW tie, IsTie(tie),
           NEW c \in Candidates(lex, sem), NEW d \in Candidates(lex, sem), c # d,
           NotBehind(lex, c, d), NotBehind(sem, c, d),
           NEW j \in DOMAIN Fused(lex, sem, tie), Fused(lex, sem, tie)[j] = d
    PROVE  \E k \in DOMAIN Fused(lex, sem, tie) : k < j /\ Fused(lex, sem, tie)[k] = c
<1>1. PICK l, m, u, v : /\ l = Share(lex, c) /\ m = Share(sem, c)
                        /\ u = Share(lex, d) /\ v = Share(sem, d)
  OBVIOUS
<1>2. /\ l.num \in Nat /\ l.den \in Nat \ {0} /\ m.num \in Nat /\ m.den \in Nat \ {0}
      /\ u.num \in Nat /\ u.den \in Nat \ {0} /\ v.num \in Nat /\ v.den \in Nat \ {0}
  BY <1>1, ShareIsFraction DEF Fraction
<1>3. /\ l.num * u.den >= u.num * l.den /\ m.num * v.den >= v.num * m.den
      /\ l.num * u.den > u.num * l.den \/ m.num * v.den > v.num * m.den
  BY <1>1, ShareOrder DEF AtLeast, Above, Candidates
<1>4. (l.num * m.den + m.num * l.den) * (u.den * v.den)
        > (u.num * v.den + v.num * u.den) * (l.den * m.den)
  BY <1>2, <1>3, SumsCompare
<1>5. /\ Score(lex, sem, c) = [num |-> l.num * m.den + m.num * l.den, den |-> l.den * m.den]
      /\ Score(lex, sem, d) = [num |-> u.num * v.den + v.num * u.den, den |-> u.den * v.den]
  BY <1>1 DEF Score
<1>6. Above(Score(lex, sem, c), Score(lex, sem, d))
  BY <1>4, <1>5 DEF Above
<1> QED
  BY <1>6, AboveComesFirst

LEMMA TwoBeatOne ==
    ASSUME NEW n \in Nat, NEW x \in Nat, NEW y \in Nat, NEW z \in Nat,
           0 < x, x <= n + n + 1, 0 < y, y <= n + n + 1, z >= n + 1
    PROVE  (y + x) * z > 1 * (x * y)
<1>1. PICK w : w = n + n + 1
  OBVIOUS
<1>2. w \in Nat /\ w - y >= 0 /\ w - x >= 0
  BY <1>1
<1>3. x * (w - y) >= 0 /\ y * (w - x) >= 0
  BY <1>2
<1>4. x * w >= x * y /\ y * w >= x * y
  BY <1>2, <1>3
<1>5. (x + y) * (z + z - w) > 0
  <2>1. x + y > 0 /\ z + z - w > 0 /\ x + y \in Int /\ z + z - w \in Int
    BY <1>1
  <2> QED
    BY <2>1
<1>6. (x + y) * (z + z - w) = (y + x) * z + (y + x) * z - x * w - y * w
  BY <1>2
<1>7. (y + x) * z \in Int /\ x * w \in Int /\ y * w \in Int /\ x * y \in Int
  BY <1>2
<1> QED
  BY <1>4, <1>5, <1>6, <1>7

(* A card that both legs returned comes before every card that only one of *)
(* them did, as docs/ALGORITHMS.md says of RRF_K: it takes a pool no more  *)
(* than one longer than RRF_K (60 and 50 in the code).                     *)
THEOREM BothLegsComeFirst ==
    ASSUME Pool <= K + 1,
           NEW lex, NEW sem, IsLeg(lex), IsLeg(sem), NEW tie, IsTie(tie),
           NEW c \in Members(lex) \cap Members(sem),
           NEW d \in Candidates(lex, sem) \ (Members(lex) \cap Members(sem)),
           NEW j \in DOMAIN Fused(lex, sem, tie), Fused(lex, sem, tie)[j] = d
    PROVE  \E k \in DOMAIN Fused(lex, sem, tie) : k < j /\ Fused(lex, sem, tie)[k] = c
<1>1. PICK x, y : x = K + RankIn(lex, c) /\ y = K + RankIn(sem, c)
  OBVIOUS
<1>2. /\ x \in Nat /\ y \in Nat /\ 0 < x /\ 0 < y /\ x <= K + K + 1 /\ y <= K + K + 1
      /\ K \in Nat
  <2>1. /\ RankIn(lex, c) \in 1..Len(lex) /\ Len(lex) <= Pool /\ Len(lex) \in Nat
        /\ RankIn(sem, c) \in 1..Len(sem) /\ Len(sem) <= Pool /\ Len(sem) \in Nat
    BY LegRanks
  <2>2. Pool \in Nat /\ K \in Nat
    BY FusionAssumption
  <2>3. RankIn(lex, c) \in 1..K + 1 /\ RankIn(sem, c) \in 1..K + 1
    BY <2>1, <2>2
  <2> QED
    BY <1>1, <2>2, <2>3
<1>3. Score(lex, sem, c) = [num |-> 1 * y + 1 * x, den |-> x * y]
  <2>1. Share(lex, c) = [num |-> 1, den |-> x] /\ Share(sem, c) = [num |-> 1, den |-> y]
    BY <1>1, ShareIsFraction
  <2> QED
    BY <2>1 DEF Score
<1>4. ASSUME NEW s, IsLeg(s), d \in Members(s), Score(lex, sem, d) = Share(s, d)
      PROVE  Above(Score(lex, sem, c), Score(lex, sem, d))
  <2>1. PICK z : z = K + RankIn(s, d)
    OBVIOUS
  <2>2. z \in Nat /\ z >= K + 1
    BY <1>2, <1>4, <2>1, LegRanks
  <2>3. Score(lex, sem, d) = [num |-> 1, den |-> z]
    BY <1>4, <2>1, ShareIsFraction
  <2>4. (y + x) * z > 1 * (x * y)
    BY <1>2, <2>2, TwoBeatOne
  <2>5. 1 * y + 1 * x = y + x
    BY <1>2
  <2> QED
    BY <1>3, <2>3, <2>4, <2>5 DEF Above
<1>5. Above(Score(lex, sem, c), Score(lex, sem, d))
  BY <1>4, OneOver DEF Candidates
<1>6. c \in Candidates(lex, sem)
  BY DEF Candidates
<1> QED
  BY <1>5, <1>6, AboveComesFirst

----------------------------------------------------------------------------
(* The inductive invariant.  What is on the page and what is on its way to *)
(* it make up the answer of the page's own search: the cards shown, then   *)
(* those in flight, are the cards sent, a `done` comes after all of them,  *)
(* and after the end of an answer nothing but an error can follow.         *)
Early == {"unborn", "quota", "intent", "embed", "open"} \cup Waits \cup Holds
Ending == {"done", "limited", "error"}

Whole(r) == r.fell \/ ~ HasKey => Members(r.sent) = Members(r.items)
RunOK(r) ==
    /\ r.pc = "unborn" => r = Unborn
    /\ r.pc # "unborn" => r.prompt \in Prompts
    /\ r.pc \in Early => r.sent = <<>>
    /\ r.pc \in Early \cup {"rerank"} => ~ r.fell
    /\ r.pc = "rerank" => HasKey
    /\ Members(r.sent) \subseteq Members(r.items)
    /\ r.pc = "finish" => Whole(r)

Offset(w) == IF w # <<>> /\ w[1].event = "intent" THEN 1 ELSE 0
Due(pg, w, k) == Len(pg.cards) + k - Offset(w)
FrameOK(pg, w, r, k) ==
    /\ w[k].event = "intent" => k = 1
    /\ w[k].event = "card" =>
           Due(pg, w, k) \in DOMAIN r.sent /\ r.sent[Due(pg, w, k)] = w[k].card
    /\ w[k].event \in Ending =>
           /\ r.pc = "closed"
           /\ \A j \in DOMAIN w : k < j => w[j].event = "error"
    /\ w[k].event = "done" => Due(pg, w, k) = Len(r.sent) + 1 /\ Whole(r)
Feed(pg, w, r) ==
    /\ r.pc \in Early => w = <<>>
    /\ pg.status \in Ending => r.pc = "closed" /\ \A k \in DOMAIN w : w[k].event = "error"
    /\ pg.status = "done" => pg.cards = r.sent /\ Whole(r)
    /\ Prefix(pg.cards, r.sent)
    /\ r.pc # "closed" => Len(pg.cards) + Len(w) = Len(r.sent) + Offset(w)
    /\ \A k \in DOMAIN w : FrameOK(pg, w, r, k)

RunsOK ==
    \A n \in Runs :
        /\ RunOK(run[n])
        /\ n > made => run[n] = Unborn
        /\ n # page.cur => wire[n] = <<>>
PageOK ==
    /\ page.cur <= made
    /\ page.cur = 0 => page = Fresh
    /\ page.cur # 0 => Feed(page, wire[page.cur], run[page.cur])
IInv == TypeOK /\ RunsOK /\ PageOK

LEMMA Appended ==
    ASSUME NEW S, NEW s \in Seq(S), NEW e \in S
    PROVE  /\ Append(s, e) \in Seq(S) /\ Append(s, e) # <<>>
           /\ Len(s) \in Nat /\ DOMAIN s = 1..Len(s)
           /\ Len(Append(s, e)) = Len(s) + 1 /\ DOMAIN Append(s, e) = 1..Len(s) + 1
           /\ \A k \in DOMAIN s : Append(s, e)[k] = s[k]
           /\ Append(s, e)[Len(s) + 1] = e
           /\ Members(Append(s, e)) = Members(s) \cup {e}
<1>1. /\ Append(s, e) \in Seq(S) /\ Append(s, e) # <<>>
      /\ Len(s) \in Nat /\ DOMAIN s = 1..Len(s)
      /\ Len(Append(s, e)) = Len(s) + 1 /\ DOMAIN Append(s, e) = 1..Len(s) + 1
      /\ \A k \in DOMAIN s : Append(s, e)[k] = s[k]
      /\ Append(s, e)[Len(s) + 1] = e
  OBVIOUS
<1>2. DOMAIN Append(s, e) = DOMAIN s \cup {Len(s) + 1}
  BY <1>1
<1> QED
  BY <1>1, <1>2 DEF Members

LEMMA Tailed ==
    ASSUME NEW S, NEW s \in Seq(S), s # <<>>
    PROVE  /\ Tail(s) \in Seq(S) /\ Len(s) \in Nat \ {0} /\ DOMAIN s = 1..Len(s)
           /\ Head(s) = s[1] /\ Head(s) \in S
           /\ Len(Tail(s)) = Len(s) - 1 /\ DOMAIN Tail(s) = 1..Len(s) - 1
           /\ \A k \in 1..Len(s) - 1 : Tail(s)[k] = s[k + 1] /\ k + 1 \in DOMAIN s
OBVIOUS

LEMMA Cropped ==
    ASSUME NEW S, NEW s \in Seq(S), NEW k \in 0..Len(s)
    PROVE  /\ SubSeq(s, 1, k) \in Seq(S) /\ Len(SubSeq(s, 1, k)) = k
           /\ DOMAIN SubSeq(s, 1, k) = 1..k /\ DOMAIN s = 1..Len(s)
           /\ \A j \in 1..k : SubSeq(s, 1, k)[j] = s[j]
<1>1. Len(s) \in Nat /\ k \in Nat /\ DOMAIN s = 1..Len(s)
  OBVIOUS
<1>2. \A j \in 1..k : s[j] \in S
  BY <1>1
<1> QED
  BY <1>1, <1>2

(* What each kind of step does to the answer on the page.                  *)
Pages == [cur: Nat, status: Statuses, last: Prompts \cup {None}, cards: Seq(Cards)]

LEMMA FrameTypes ==
    /\ \A e \in {"intent", "done", "limited", "error"} : Frame(e) \in Frames /\ Frame(e).event = e
    /\ \A c \in Cards : CardFrame(c) \in Frames /\ CardFrame(c).event = "card" /\ CardFrame(c).card = c
    /\ \A f \in Frames : f.event \in {"intent", "card", "done", "limited", "error"}
    /\ \A f \in Frames : f.card \in Cards \cup {None}
BY DEF Frame, CardFrame, Frames

LEMMA Kept ==
    ASSUME NEW w \in Seq(Frames), NEW f \in Frames, NEW pg \in Pages
    PROVE  /\ w # <<>> => Offset(Append(w, f)) = Offset(w)
           /\ w = <<>> => Offset(w) = 0
           /\ w = <<>> /\ f.event # "intent" => Offset(Append(w, f)) = 0
           /\ Offset(w) \in {0, 1}
           /\ f.event # "intent" => \A k \in DOMAIN w : Due(pg, Append(w, f), k) = Due(pg, w, k)
<1>1. /\ Append(w, f) # <<>>
      /\ w # <<>> => 1 \in DOMAIN w
      /\ w = <<>> => Len(w) = 0
      /\ \A k \in DOMAIN w : Append(w, f)[k] = w[k] /\ w # <<>>
      /\ Append(w, f)[Len(w) + 1] = f
  BY Appended
<1>2. w # <<>> => Append(w, f)[1] = w[1]
  BY <1>1
<1>3. w = <<>> => Append(w, f)[1] = f
  BY <1>1
<1> QED
  BY <1>1, <1>2, <1>3 DEF Offset, Due

(* The server goes on, sending nothing.                                    *)
LEMMA FeedRun ==
    ASSUME NEW pg \in Pages, NEW w \in Seq(Frames), NEW r \in Run, NEW q \in Run,
           Feed(pg, w, r), r.pc # "closed", q.pc # "closed", q.sent = r.sent,
           q.pc \in Early => r.pc \in Early
    PROVE  Feed(pg, w, q)
<1>1. pg.status \notin Ending /\ \A k \in DOMAIN w : w[k].event \notin Ending
  BY DEF Feed, FrameOK
<1>2. "done" \in Ending
  BY DEF Ending
<1>3. \A k \in DOMAIN w : FrameOK(pg, w, q, k)
  BY <1>1, <1>2 DEF Feed, FrameOK
<1> QED
  BY <1>1, <1>2, <1>3 DEF Feed

(* The stream opens with the intent.                                       *)
LEMMA FeedIntent ==
    ASSUME NEW pg \in Pages, NEW w \in Seq(Frames), NEW r \in Run, NEW q \in Run,
           Feed(pg, w, r), RunOK(r), r.pc \in Early, q.pc \notin Early \cup {"closed"},
           q.sent = r.sent
    PROVE  Feed(pg, Append(w, Frame("intent")), q)
<1> DEFINE v == Append(w, Frame("intent"))
<1>1. w = <<>> /\ r.sent = <<>> /\ r.pc # "closed"
  BY DEF Feed, RunOK, Early, Waits, Holds
<1>2. Frame("intent") \in Frames /\ Frame("intent").event = "intent"
  BY FrameTypes
<1>3. v # <<>> /\ DOMAIN v = 1..1 /\ v[1].event = "intent" /\ Len(v) = 1
  BY <1>1, <1>2, Appended
<1>4. Offset(w) = 0 /\ Offset(v) = 1 /\ Len(w) = 0
  BY <1>1, <1>3 DEF Offset
<1>5. /\ pg.status \notin Ending /\ Prefix(pg.cards, r.sent)
      /\ Len(pg.cards) + Len(w) = Len(r.sent) + Offset(w)
  BY <1>1 DEF Feed
<1>6. Len(pg.cards) \in Nat /\ Len(r.sent) \in Nat
  BY DEF Pages, Run
<1>7. Len(pg.cards) + Len(v) = Len(q.sent) + Offset(v)
  BY <1>3, <1>4, <1>5, <1>6
<1> HIDE DEF v
<1>8. \A k \in DOMAIN v : k = 1 /\ v[k].event = "intent"
  BY <1>3
<1>9. \A k \in DOMAIN v : FrameOK(pg, v, q, k)
  BY <1>8 DEF FrameOK, Ending
<1>10. pg.status # "done"
  BY <1>5 DEF Ending
<1> QED
  BY <1>5, <1>7, <1>9, <1>10 DEF Feed, v

(* A refusal is the whole answer.                                          *)
LEMMA FeedLimited ==
    ASSUME NEW pg \in Pages, NEW w \in Seq(Frames), NEW r \in Run, NEW q \in Run,
           Feed(pg, w, r), RunOK(r), r.pc \in Early, q.pc = "closed", q.sent = r.sent
    PROVE  Feed(pg, Append(w, Frame("limited")), q)
<1> DEFINE v == Append(w, Frame("limited"))
<1>1. w = <<>> /\ r.pc # "closed"
  BY DEF Feed, Early, Waits, Holds
<1>2. Frame("limited") \in Frames /\ Frame("limited").event = "limited"
  BY FrameTypes
<1>3. DOMAIN v = 1..1 /\ v[1].event = "limited"
  BY <1>1, <1>2, Appended
<1>4. pg.status \notin Ending /\ Prefix(pg.cards, q.sent)
  BY <1>1 DEF Feed
<1> HIDE DEF v
<1>5. \A k \in DOMAIN v : k = 1 /\ v[k].event = "limited"
  BY <1>3
<1>6. \A k \in DOMAIN v : FrameOK(pg, v, q, k)
  BY <1>5 DEF FrameOK
<1>7. pg.status # "done"
  BY <1>4 DEF Ending
<1> QED
  BY <1>4, <1>6, <1>7 DEF Feed, v, Early, Waits, Holds

(* A card is sent.                                                         *)
LEMMA OneMore ==
    ASSUME NEW a \in Nat, NEW b \in Nat, NEW c \in Nat, NEW d \in Nat, a + b = c + d
    PROVE  a + (b + 1) = (c + 1) + d /\ a + (b + 1) - d = c + 1
OBVIOUS

LEMMA FeedCard ==
    ASSUME NEW pg \in Pages, NEW w \in Seq(Frames), NEW r \in Run, NEW q \in Run,
           NEW c \in Cards,
           Feed(pg, w, r), r.pc \notin Early \cup {"closed"}, q.pc = r.pc,
           q.sent = Append(r.sent, c)
    PROVE  Feed(pg, Append(w, CardFrame(c)), q)
<1> DEFINE f == CardFrame(c)
           v == Append(w, f)
<1>1. f \in Frames /\ f.event = "card" /\ f.card = c
  BY FrameTypes
<1>2. /\ Len(v) = Len(w) + 1 /\ DOMAIN v = 1..Len(w) + 1 /\ DOMAIN w = 1..Len(w)
      /\ \A k \in DOMAIN w : v[k] = w[k]
      /\ v[Len(w) + 1] = f /\ Len(w) \in Nat
  BY <1>1, Appended
<1>3. r.sent \in Seq(Cards) /\ pg.cards \in Seq(Cards)
  BY DEF Run, Pages
<1>4. /\ Len(q.sent) = Len(r.sent) + 1 /\ DOMAIN q.sent = 1..Len(r.sent) + 1
      /\ DOMAIN r.sent = 1..Len(r.sent) /\ Len(r.sent) \in Nat
      /\ \A k \in DOMAIN r.sent : q.sent[k] = r.sent[k]
      /\ q.sent[Len(r.sent) + 1] = c
  BY <1>3, Appended
<1>5. DOMAIN pg.cards = 1..Len(pg.cards) /\ Len(pg.cards) \in Nat
  BY <1>3
<1>6. /\ Offset(v) = Offset(w) /\ Offset(w) \in {0, 1}
      /\ \A k \in DOMAIN w : Due(pg, v, k) = Due(pg, w, k)
  BY <1>1, Kept
<1>7. /\ pg.status \notin Ending /\ Prefix(pg.cards, r.sent)
      /\ Len(pg.cards) + Len(w) = Len(r.sent) + Offset(w)
      /\ \A k \in DOMAIN w : FrameOK(pg, w, r, k)
  BY DEF Feed
<1>8. Prefix(pg.cards, q.sent)
  BY <1>4, <1>5, <1>7 DEF Prefix
<1>9. Len(pg.cards) + Len(v) = Len(q.sent) + Offset(v)
  <2> HIDE DEF v
  <2>1. Offset(w) \in Nat /\ Offset(v) = Offset(w)
    BY <1>6
  <2>2. /\ Len(v) = Len(w) + 1 /\ Len(q.sent) = Len(r.sent) + 1
        /\ Len(pg.cards) + Len(w) = Len(r.sent) + Offset(w)
        /\ Len(w) \in Nat /\ Len(r.sent) \in Nat /\ Len(pg.cards) \in Nat
    BY <1>2, <1>4, <1>5, <1>7
  <2>3. PICK a \in Nat, b \in Nat, c1 \in Nat, o \in Nat :
            a = Len(pg.cards) /\ b = Len(w) /\ c1 = Len(r.sent) /\ o = Offset(w)
    BY <2>1, <2>2
  <2>4. a + (b + 1) = (c1 + 1) + o
    <3>1. a + b = c1 + o
      BY <2>2, <2>3
    <3> QED
      BY <3>1, OneMore
  <2> QED
    BY <2>1, <2>2, <2>3, <2>4
<1> HIDE DEF v, f
<1>10. ASSUME NEW k \in DOMAIN w PROVE FrameOK(pg, v, q, k)
  <2>1. v[k] = w[k] /\ Due(pg, v, k) = Due(pg, w, k) /\ FrameOK(pg, w, r, k)
    BY <1>2, <1>6, <1>7
  <2>2. w[k].event \notin Ending /\ w[k].event # "done"
    BY <2>1 DEF FrameOK, Ending
  <2>3. w[k].event = "card" =>
            Due(pg, w, k) \in DOMAIN q.sent /\ q.sent[Due(pg, w, k)] = w[k].card
    BY <1>4, <2>1 DEF FrameOK
  <2> QED
    BY <2>1, <2>2, <2>3 DEF FrameOK
<1>11. FrameOK(pg, v, q, Len(w) + 1)
  <2>1. Offset(w) \in Nat /\ Offset(v) = Offset(w)
    BY <1>6
  <2>2. Due(pg, v, Len(w) + 1) = Len(r.sent) + 1
    <3>1. PICK a \in Nat, b \in Nat, c1 \in Nat, o \in Nat :
              a = Len(pg.cards) /\ b = Len(w) /\ c1 = Len(r.sent) /\ o = Offset(w)
      BY <1>2, <1>4, <1>5, <2>1
    <3>2. a + (b + 1) - o = c1 + 1
      <4>1. a + b = c1 + o
        BY <1>6, <1>7, <3>1
      <4> QED
        BY <4>1, OneMore
    <3>3. Due(pg, v, Len(w) + 1) = a + (b + 1) - o
      BY <2>1, <3>1 DEF Due
    <3> QED
      BY <3>1, <3>2, <3>3
  <2> QED
    BY <1>1, <1>2, <1>4, <2>2 DEF FrameOK, Ending
<1>12. \A k \in DOMAIN v : FrameOK(pg, v, q, k)
  <2>1. \A k \in DOMAIN v : k \in DOMAIN w \/ k = Len(w) + 1
    BY <1>2
  <2> QED
    BY <1>10, <1>11, <2>1
<1>13. pg.status # "done"
  BY <1>7 DEF Ending
<1> QED
  BY <1>7, <1>8, <1>9, <1>12, <1>13 DEF Feed, v, f

(* The stream ends: every card has been sent before.                       *)
LEMMA FeedDone ==
    ASSUME NEW pg \in Pages, NEW w \in Seq(Frames), NEW r \in Run, NEW q \in Run,
           Feed(pg, w, r), r.pc \notin Early \cup {"closed"}, Whole(r), q.pc = "closed",
           q.sent = r.sent, q.items = r.items, q.fell = r.fell
    PROVE  Feed(pg, Append(w, Frame("done")), q)
<1> DEFINE f == Frame("done")
           v == Append(w, f)
<1>1. f \in Frames /\ f.event = "done"
  BY FrameTypes
<1>2. /\ Len(v) = Len(w) + 1 /\ DOMAIN v = 1..Len(w) + 1 /\ DOMAIN w = 1..Len(w)
      /\ \A k \in DOMAIN w : v[k] = w[k]
      /\ v[Len(w) + 1] = f /\ Len(w) \in Nat
  BY <1>1, Appended
<1>3. Len(r.sent) \in Nat /\ Len(pg.cards) \in Nat
  BY DEF Run, Pages
<1>4. /\ Offset(v) = Offset(w)
      /\ Offset(w) \in {0, 1}
      /\ \A k \in DOMAIN w : Due(pg, v, k) = Due(pg, w, k)
  BY <1>1, Kept
<1>5. /\ pg.status \notin Ending /\ Prefix(pg.cards, r.sent)
      /\ Len(pg.cards) + Len(w) = Len(r.sent) + Offset(w)
      /\ \A k \in DOMAIN w : FrameOK(pg, w, r, k)
  BY DEF Feed
<1> HIDE DEF v, f
<1>6. ASSUME NEW k \in DOMAIN w PROVE FrameOK(pg, v, q, k)
  <2>1. v[k] = w[k] /\ Due(pg, v, k) = Due(pg, w, k) /\ FrameOK(pg, w, r, k)
    BY <1>2, <1>4, <1>5
  <2>2. w[k].event \notin Ending /\ w[k].event # "done"
    BY <2>1 DEF FrameOK, Ending
  <2> QED
    BY <2>1, <2>2 DEF FrameOK
<1>7. FrameOK(pg, v, q, Len(w) + 1)
  <2>1. Due(pg, v, Len(w) + 1) = Len(r.sent) + 1
    BY <1>2, <1>3, <1>4, <1>5 DEF Due
  <2>2. \A j \in DOMAIN v : ~ (Len(w) + 1 < j)
    BY <1>2
  <2>3. Whole(q)
    BY DEF Whole
  <2> QED
    BY <1>1, <1>2, <2>1, <2>2, <2>3 DEF FrameOK
<1>8. \A k \in DOMAIN v : FrameOK(pg, v, q, k)
  <2>1. \A k \in DOMAIN v : k \in DOMAIN w \/ k = Len(w) + 1
    BY <1>2
  <2> QED
    BY <1>6, <1>7, <2>1
<1>9. pg.status # "done" /\ q.pc \notin Early
  BY <1>5 DEF Ending, Early, Waits, Holds
<1> QED
  BY <1>5, <1>8, <1>9 DEF Feed, v, f

(* The connection breaks: what is left of the answer, and an error.        *)
LEMMA FeedBreak ==
    ASSUME NEW pg \in Pages, NEW w \in Seq(Frames), NEW r \in Run, NEW q \in Run,
           NEW n \in 0..Len(w), Feed(pg, w, r), q.pc = "closed",
           q.sent = r.sent, q.items = r.items, q.fell = r.fell
    PROVE  Feed(pg, Append(SubSeq(w, 1, n), Frame("error")), q)
<1> DEFINE f == Frame("error")
           u == SubSeq(w, 1, n)
           v == Append(u, f)
<1>1. f \in Frames /\ f.event = "error"
  BY FrameTypes
<1>2. /\ u \in Seq(Frames) /\ Len(u) = n /\ DOMAIN u = 1..n /\ DOMAIN w = 1..Len(w)
      /\ \A k \in 1..n : u[k] = w[k]
      /\ n \in Nat /\ Len(w) \in Nat
  BY Cropped
<1> HIDE DEF u
<1>3. /\ DOMAIN v = 1..n + 1 /\ v # <<>>
      /\ \A k \in 1..n : v[k] = u[k]
      /\ v[n + 1] = f
  BY <1>1, <1>2, Appended
<1>4. \A k \in DOMAIN v : k = n + 1 \/ k \in 1..n
  BY <1>2, <1>3
<1>5. \A k \in 1..n : v[k] = w[k] /\ k \in DOMAIN w /\ w # <<>>
  BY <1>2, <1>3
<1>6. n # 0 => Offset(v) = Offset(w)
  <2>1. n # 0 => 1 \in 1..n
    BY <1>2
  <2> QED
    BY <1>3, <1>5, <2>1 DEF Offset
<1> HIDE DEF f, v
<1>7. \A k \in 1..n : Due(pg, v, k) = Due(pg, w, k)
  <2>1. \A k \in 1..n : n # 0
    BY <1>2
  <2> QED
    BY <1>6, <2>1 DEF Due
<1>8. /\ pg.status \in Ending => \A k \in DOMAIN w : w[k].event = "error"
      /\ pg.status = "done" => pg.cards = r.sent /\ Whole(r)
      /\ Prefix(pg.cards, r.sent)
      /\ \A k \in DOMAIN w : FrameOK(pg, w, r, k)
  BY DEF Feed
<1>9. ASSUME NEW k \in 1..n PROVE FrameOK(pg, v, q, k)
  <2>1. v[k] = w[k] /\ Due(pg, v, k) = Due(pg, w, k) /\ FrameOK(pg, w, r, k)
    BY <1>5, <1>7, <1>8
  <2>2. ASSUME w[k].event \in Ending, NEW j \in DOMAIN v, k < j PROVE v[j].event = "error"
    <3>1. CASE j = n + 1
      BY <1>1, <1>3, <3>1
    <3>2. CASE j \in 1..n
      <4>1. v[j] = w[j] /\ j \in DOMAIN w
        BY <1>5, <3>2
      <4> QED
        BY <2>1, <2>2, <4>1 DEF FrameOK
    <3> QED
      BY <1>4, <3>1, <3>2
  <2>3. Whole(q) <=> Whole(r)
    BY DEF Whole
  <2> QED
    BY <2>1, <2>2, <2>3 DEF FrameOK
<1>10. FrameOK(pg, v, q, n + 1)
  <2>1. v[n + 1].event = "error"
    BY <1>1, <1>3
  <2>2. \A j \in DOMAIN v : ~ (n + 1 < j)
    BY <1>2, <1>3
  <2> QED
    BY <2>1, <2>2 DEF FrameOK
<1>11. pg.status \in Ending => \A k \in DOMAIN v : v[k].event = "error"
  BY <1>1, <1>3, <1>4, <1>5, <1>8
<1>12. pg.status = "done" => pg.cards = q.sent /\ Whole(q)
  BY <1>8 DEF Whole
<1>13. \A k \in DOMAIN v : FrameOK(pg, v, q, k)
  BY <1>4, <1>9, <1>10
<1>14. q.pc \notin Early
  BY DEF Early, Waits, Holds
<1> QED
  BY <1>8, <1>11, <1>12, <1>13, <1>14 DEF Feed, u, v, f

(* The connection is cut and the reader is not told: only what is left.    *)
LEMMA FeedCut ==
    ASSUME NEW pg \in Pages, NEW w \in Seq(Frames), NEW r \in Run, NEW q \in Run,
           NEW n \in 0..Len(w), Feed(pg, w, r), q.pc = "closed",
           q.sent = r.sent, q.items = r.items, q.fell = r.fell
    PROVE  Feed(pg, SubSeq(w, 1, n), q)
<1> DEFINE v == SubSeq(w, 1, n)
<1>1. /\ Len(v) = n /\ DOMAIN v = 1..n /\ DOMAIN w = 1..Len(w)
      /\ \A k \in 1..n : v[k] = w[k]
      /\ n \in Nat /\ Len(w) \in Nat /\ (n # 0 => v # <<>>)
  BY Cropped
<1> HIDE DEF v
<1>2. \A k \in 1..n : v[k] = w[k] /\ k \in DOMAIN w /\ w # <<>> /\ 1 \in 1..n /\ v # <<>>
  BY <1>1
<1>3. \A k \in 1..n : Due(pg, v, k) = Due(pg, w, k)
  BY <1>1, <1>2 DEF Due, Offset
<1>4. /\ pg.status \in Ending => \A k \in DOMAIN w : w[k].event = "error"
      /\ pg.status = "done" => pg.cards = r.sent /\ Whole(r)
      /\ Prefix(pg.cards, r.sent)
      /\ \A k \in DOMAIN w : FrameOK(pg, w, r, k)
  BY DEF Feed
<1>5. Whole(q) <=> Whole(r)
  BY DEF Whole
<1>6. ASSUME NEW k \in 1..n PROVE FrameOK(pg, v, q, k)
  <2>1. v[k] = w[k] /\ Due(pg, v, k) = Due(pg, w, k) /\ FrameOK(pg, w, r, k)
    BY <1>2, <1>3, <1>4
  <2>2. ASSUME w[k].event \in Ending, NEW j \in DOMAIN v, k < j PROVE v[j].event = "error"
    BY <1>1, <1>2, <2>1, <2>2 DEF FrameOK
  <2> QED
    BY <1>5, <2>1, <2>2 DEF FrameOK
<1>7. q.pc \notin Early
  BY DEF Early, Waits, Holds
<1> QED
  BY <1>1, <1>2, <1>4, <1>5, <1>6, <1>7 DEF Feed, v

(* The page shows the next frame.                                          *)
LEMMA FeedShown ==
    ASSUME page \in Pages, NEW w \in Seq(Frames), NEW r \in Run, w # <<>>,
           RunOK(r), Feed(page, w, r)
    PROVE  Feed(Shown(Head(w)), Tail(w), r) /\ Shown(Head(w)) \in Pages
           /\ Shown(Head(w)).cur = page.cur
<1> DEFINE f == Head(w)
           v == Tail(w)
           pg == Shown(f)
<1>1. /\ v \in Seq(Frames) /\ Len(w) \in Nat \ {0} /\ DOMAIN w = 1..Len(w)
      /\ f = w[1] /\ f \in Frames
      /\ Len(v) = Len(w) - 1 /\ DOMAIN v = 1..Len(w) - 1
      /\ \A k \in 1..Len(w) - 1 : v[k] = w[k + 1] /\ k + 1 \in DOMAIN w
  BY Tailed
<1>2. f.event \in {"intent", "card", "done", "limited", "error"} /\ f.card \in Cards \cup {None}
  BY <1>1, FrameTypes
<1>3. /\ page.status \in Statuses /\ page.cards \in Seq(Cards) /\ r.sent \in Seq(Cards)
      /\ Len(page.cards) \in Nat /\ Len(r.sent) \in Nat
  BY DEF Pages, Run
<1>4. 1 \in DOMAIN w /\ FrameOK(page, w, r, 1)
  BY <1>1 DEF Feed
<1>5. f.event = "card" => f.card \in Cards
  <2>1. \A k \in DOMAIN r.sent : r.sent[k] \in Cards
    BY <1>3
  <2> QED
    BY <1>1, <1>4, <2>1 DEF FrameOK
<1>6. /\ f.event = "intent" => pg = [page EXCEPT !.status = "streaming"]
      /\ f.event = "card" => pg = [page EXCEPT !.cards = Append(@, f.card)]
      /\ f.event = "done" => pg = [page EXCEPT !.status = "done"]
      /\ f.event = "limited" => pg = [page EXCEPT !.status = "limited", !.last = None]
      /\ f.event = "error" => pg = [page EXCEPT !.status = "error", !.last = None]
  BY DEF Shown
<1> HIDE DEF v, f, pg
<1>7. pg \in Pages /\ pg.cur = page.cur
  <2>1. f.event = "card" => Append(page.cards, f.card) \in Seq(Cards)
    BY <1>3, <1>5
  <2> QED
    BY <1>2, <1>6, <2>1 DEF Pages, Statuses
<1>8. /\ f.event # "card" => pg.cards = page.cards
      /\ f.event = "card" => pg.cards = Append(page.cards, f.card)
                             /\ Len(pg.cards) = Len(page.cards) + 1
  <2>1. f.event = "card" => Len(Append(page.cards, f.card)) = Len(page.cards) + 1
    BY <1>3, <1>5
  <2> QED
    BY <1>2, <1>6, <2>1 DEF Pages
<1>9. /\ f.event = "intent" => pg.status = "streaming"
      /\ f.event = "card" => pg.status = page.status
      /\ f.event \in Ending => pg.status = f.event
  BY <1>2, <1>6 DEF Pages, Ending
<1>10. /\ r.pc \in Early => w = <<>>
       /\ page.status \in Ending => r.pc = "closed" /\ \A k \in DOMAIN w : w[k].event = "error"
       /\ page.status = "done" => page.cards = r.sent /\ Whole(r)
       /\ Prefix(page.cards, r.sent)
       /\ r.pc # "closed" => Len(page.cards) + Len(w) = Len(r.sent) + Offset(w)
       /\ \A k \in DOMAIN w : FrameOK(page, w, r, k)
  BY DEF Feed
<1>11. Offset(v) = 0 /\ Offset(w) = (IF f.event = "intent" THEN 1 ELSE 0)
  <2>1. v # <<>> => 1 \in DOMAIN v
    BY <1>1
  <2>2. v # <<>> => v[1] = w[2] /\ 2 \in DOMAIN w
    BY <1>1, <2>1
  <2>3. v # <<>> => v[1].event # "intent"
    BY <1>10, <2>2 DEF FrameOK
  <2> QED
    BY <1>1, <2>3 DEF Offset
<1>12. f.event \notin Ending =>
           \A k \in DOMAIN v : Due(pg, v, k) = Due(page, w, k + 1)
  <2>1. SUFFICES ASSUME f.event \notin Ending, NEW k \in DOMAIN v
                 PROVE  Due(pg, v, k) = Due(page, w, k + 1)
    OBVIOUS
  <2>2. k \in Int
    BY <1>1
  <2>3. CASE f.event = "intent"
    <3>1. Len(pg.cards) = Len(page.cards) /\ Offset(v) = 0 /\ Offset(w) = 1
      BY <1>8, <1>11, <2>3
    <3> QED
      BY <1>3, <2>2, <3>1 DEF Due
  <2>4. CASE f.event = "card"
    <3>1. /\ Len(pg.cards) = Len(page.cards) + 1 /\ Offset(v) = 0 /\ Offset(w) = 0
          /\ Len(page.cards) \in Nat
      BY <1>3, <1>8, <1>11, <2>4
    <3> QED
      BY <2>2, <3>1 DEF Due
  <2> QED
    BY <1>2, <2>1, <2>3, <2>4 DEF Ending
<1>13. f.event \notin Ending => page.status \notin Ending
  BY <1>1, <1>4, <1>10 DEF Ending
<1>14. Prefix(pg.cards, r.sent)
  <2>1. CASE f.event = "card"
    <3>1. Due(page, w, 1) = Len(page.cards) + 1
      BY <1>3, <1>11, <2>1 DEF Due
    <3>2. Len(page.cards) + 1 \in DOMAIN r.sent /\ r.sent[Len(page.cards) + 1] = f.card
      BY <1>1, <1>4, <2>1, <3>1 DEF FrameOK
    <3>3. /\ DOMAIN pg.cards = 1..Len(page.cards) + 1
          /\ DOMAIN page.cards = 1..Len(page.cards)
          /\ \A k \in DOMAIN page.cards : pg.cards[k] = page.cards[k]
          /\ pg.cards[Len(page.cards) + 1] = f.card
      BY <1>3, <1>5, <1>8, <2>1, Appended
    <3>4. \A k \in DOMAIN pg.cards : k \in DOMAIN page.cards \/ k = Len(page.cards) + 1
      BY <1>3, <3>3
    <3>5. Len(pg.cards) <= Len(r.sent)
      BY <1>3, <1>8, <2>1, <3>2
    <3> QED
      BY <1>10, <3>2, <3>3, <3>4, <3>5 DEF Prefix
  <2> QED
    BY <1>8, <1>10, <2>1
<1>15. pg.status = "done" => pg.cards = r.sent /\ Whole(r)
  <2>1. CASE f.event = "done"
    <3>1. Due(page, w, 1) = Len(r.sent) + 1 /\ Whole(r)
      BY <1>1, <1>4, <2>1 DEF FrameOK
    <3>2. Len(page.cards) = Len(r.sent)
      BY <1>3, <1>11, <2>1, <3>1 DEF Due
    <3>3. /\ DOMAIN page.cards = DOMAIN r.sent
          /\ \A k \in DOMAIN page.cards : page.cards[k] = r.sent[k]
      BY <1>3, <1>10, <3>2 DEF Prefix
    <3>4. page.cards = r.sent
      <4>1. page.cards = [k \in DOMAIN page.cards |-> page.cards[k]]
        BY <1>3
      <4>2. r.sent = [k \in DOMAIN r.sent |-> r.sent[k]]
        BY <1>3
      <4> QED
        BY <3>3, <4>1, <4>2
    <3> QED
      BY <1>8, <2>1, <3>1, <3>4
  <2>2. CASE f.event # "done"
    BY <1>2, <1>9, <1>13, <2>2 DEF Ending
  <2> QED
    BY <2>1, <2>2
<1>16. pg.status \in Ending => r.pc = "closed" /\ \A k \in DOMAIN v : v[k].event = "error"
  <2>1. CASE f.event \in Ending
    <3>1. r.pc = "closed" /\ \A j \in DOMAIN w : 1 < j => w[j].event = "error"
      BY <1>1, <1>4, <2>1 DEF FrameOK
    <3>2. \A k \in DOMAIN v : k + 1 \in DOMAIN w /\ 1 < k + 1 /\ v[k] = w[k + 1]
      BY <1>1
    <3> QED
      BY <3>1, <3>2
  <2>2. CASE f.event \notin Ending
    BY <1>2, <1>9, <1>13, <2>2 DEF Ending
  <2> QED
    BY <2>1, <2>2
<1>17. r.pc # "closed" => Len(pg.cards) + Len(v) = Len(r.sent) + Offset(v)
  <2>1. r.pc # "closed" => f.event \in {"intent", "card"}
    BY <1>1, <1>2, <1>4 DEF FrameOK, Ending
  <2>2. CASE f.event = "intent"
    <3>1. Len(pg.cards) = Len(page.cards) /\ Offset(v) = 0 /\ Offset(w) = 1
      BY <1>8, <1>11, <2>2
    <3> QED
      BY <1>1, <1>3, <1>10, <3>1
  <2>3. CASE f.event = "card"
    <3>1. /\ Len(pg.cards) = Len(page.cards) + 1 /\ Offset(v) = 0 /\ Offset(w) = 0
          /\ Len(page.cards) \in Nat
      BY <1>3, <1>8, <1>11, <2>3
    <3>2. Len(v) = Len(w) - 1 /\ Len(w) \in Nat /\ Len(r.sent) \in Nat
      BY <1>1, <1>3
    <3>3. r.pc # "closed" => Len(page.cards) + Len(w) = Len(r.sent) + Offset(w)
      BY <1>10
    <3> QED
      BY <3>1, <3>2, <3>3
  <2> QED
    BY <2>1, <2>2, <2>3
<1>18. ASSUME NEW k \in DOMAIN v PROVE FrameOK(pg, v, r, k)
  <2>1. /\ v[k] = w[k + 1] /\ k + 1 \in DOMAIN w /\ k \in Nat /\ k # 0
        /\ FrameOK(page, w, r, k + 1)
    BY <1>1, <1>10
  <2>2. v[k].event # "intent"
    BY <2>1 DEF FrameOK
  <2>3. ASSUME v[k].event \in Ending, NEW j \in DOMAIN v, k < j PROVE v[j].event = "error"
    <3>1. v[j] = w[j + 1] /\ j + 1 \in DOMAIN w /\ k + 1 < j + 1
      BY <1>1, <2>3
    <3> QED
      BY <2>1, <2>3, <3>1 DEF FrameOK
  <2>4. CASE f.event \in Ending
    <3>1. v[k].event = "error" /\ r.pc = "closed"
      <4>1. 1 < k + 1
        BY <2>1
      <4> QED
        BY <1>1, <1>4, <2>1, <2>4, <4>1 DEF FrameOK
    <3> QED
      BY <2>3, <3>1 DEF FrameOK
  <2>5. CASE f.event \notin Ending
    <3>1. Due(pg, v, k) = Due(page, w, k + 1)
      BY <1>12, <2>5
    <3> QED
      BY <2>1, <2>2, <2>3, <3>1 DEF FrameOK
  <2> QED
    BY <2>4, <2>5
<1>19. r.pc \notin Early
  BY <1>10
<1> QED
  BY <1>7, <1>14, <1>15, <1>16, <1>17, <1>18, <1>19 DEF Feed, v, f, pg

----------------------------------------------------------------------------
(* Most steps change one run, and what is on the wire of that run.         *)
LEMMA OneRun ==
    ASSUME IInv, NEW n \in Runs, NEW r \in Run, NEW w \in Seq(Frames),
           made' = made, page' = page,
           run' = [run EXCEPT ![n] = r], wire' = [wire EXCEPT ![n] = w],
           run[n].pc # "unborn", RunOK(r),
           IF Heard(n) THEN Feed(page, w, r) ELSE w = <<>>
    PROVE  IInv'
<1>1. /\ run \in [Runs -> Run] /\ wire \in [Runs -> Seq(Frames)] /\ page \in Page
      /\ made \in 0..MaxSearches
  BY DEF IInv, TypeOK
<1>2. TypeOK'
  BY <1>1 DEF TypeOK
<1>3. \A m \in Runs : m # n => run'[m] = run[m] /\ wire'[m] = wire[m]
  BY <1>1
<1>4. run'[n] = r /\ wire'[n] = w
  BY <1>1
<1>5. n <= made
  BY <1>1, BoundsAssumption DEF IInv, RunsOK, Unborn, Runs
<1>6. RunsOK'
  <2>1. SUFFICES ASSUME NEW m \in Runs
                 PROVE  /\ RunOK(run'[m])
                        /\ m > made => run'[m] = Unborn
                        /\ m # page.cur => wire'[m] = <<>>
    BY DEF RunsOK, RunOK, Whole
  <2>2. CASE m = n
    BY <1>1, <1>4, <1>5, <2>2, BoundsAssumption DEF Heard, Runs
  <2>3. CASE m # n
    BY <1>3, <2>3 DEF IInv, RunsOK
  <2> QED
    BY <2>2, <2>3
<1>7. page.cur # 0 => Feed(page, wire'[page.cur], run'[page.cur])
  <2>1. CASE page.cur = n
    BY <1>4, <2>1 DEF Heard
  <2>2. CASE page.cur # n /\ page.cur # 0
    <3>1. page.cur \in Runs
      BY <1>1, <2>2, BoundsAssumption DEF Page, Runs
    <3> QED
      BY <1>3, <2>2, <3>1 DEF IInv, PageOK
  <2> QED
    BY <2>1, <2>2
<1>8. PageOK'
  <2>1. page.cur <= made /\ (page.cur = 0 => page = Fresh)
    BY DEF IInv, PageOK
  <2>2. page'.cur # 0 => Feed(page', wire'[page'.cur], run'[page'.cur])
    BY <1>7
  <2> QED
    BY <2>1, <2>2 DEF PageOK, Fresh
<1> QED
  BY <1>2, <1>6, <1>8 DEF IInv

LEMMA RunTyped ==
    ASSUME TypeOK, NEW n \in Runs
    PROVE  /\ run[n] \in Run /\ wire[n] \in Seq(Frames) /\ page \in Pages
           /\ run[n].pc \in Phases /\ run[n].prompt \in Prompts \cup {None}
           /\ run[n].sent \in Seq(Cards) /\ run[n].items \in Seq(Cards)
           /\ run[n].onTopic \in BOOLEAN /\ run[n].fell \in BOOLEAN /\ run[n].vector \in BOOLEAN
           /\ run[n].quiet \in BOOLEAN
<1>1. run[n] \in Run /\ wire[n] \in Seq(Frames) /\ page \in Page
  BY DEF TypeOK
<1>2. page \in Pages
  BY <1>1, BoundsAssumption DEF Page, Pages
<1> QED
  BY <1>1, <1>2 DEF Run

(* The server goes on in one run, and nothing is sent.                     *)
LEMMA Moves ==
    ASSUME IInv, NEW n \in Runs, NEW r \in Run, UNCHANGED <<made, page, wire>>,
           run' = [run EXCEPT ![n] = r], run[n].pc \notin {"unborn", "closed"},
           RunOK(r), r.pc # "closed", r.sent = run[n].sent,
           r.pc \in Early => run[n].pc \in Early
    PROVE  IInv'
<1>1. run[n] \in Run /\ wire[n] \in Seq(Frames) /\ page \in Pages
  BY RunTyped DEF IInv
<1>2. IF Heard(n) THEN Feed(page, wire[n], r) ELSE wire[n] = <<>>
  <2>1. CASE Heard(n)
    <3>1. Feed(page, wire[n], run[n])
      BY <2>1, BoundsAssumption DEF IInv, PageOK, Heard, Runs
    <3> QED
      BY <1>1, <2>1, <3>1, FeedRun
  <2>2. CASE ~ Heard(n)
    BY <2>2 DEF Heard, IInv, RunsOK
  <2> QED
    BY <2>1, <2>2
<1>3. wire' = [wire EXCEPT ![n] = wire[n]]
  BY DEF IInv, TypeOK
<1> QED
  BY <1>1, <1>2, <1>3, OneRun

LEMMA GotoOK ==
    ASSUME NEW r \in Run, RunOK(r), r.pc # "unborn", NEW pc \in Phases \ {"unborn"},
           pc \in Early => r.pc \in Early,
           pc = "rerank" => HasKey /\ ~ r.fell,
           pc = "finish" => Whole(r)
    PROVE  LET q == [r EXCEPT !.pc = pc]
           IN  /\ q \in Run /\ RunOK(q) /\ q.pc = pc /\ q.sent = r.sent
               /\ q.items = r.items /\ q.fell = r.fell
<1> DEFINE q == [r EXCEPT !.pc = pc]
<1>1. /\ q \in Run /\ q.pc = pc /\ q.sent = r.sent /\ q.prompt = r.prompt
      /\ q.items = r.items /\ q.fell = r.fell
  BY DEF Run
<1> HIDE DEF q
<1>2. pc = "finish" => Whole(q)
  BY <1>1 DEF Whole
<1>3. RunOK(q)
  BY <1>1, <1>2 DEF RunOK
<1> QED
  BY <1>1, <1>3 DEF q

(* What a step puts on the wire, and what that makes of the answer.        *)
LEMMA Sends ==
    ASSUME IInv, NEW n \in Runs, NEW r \in Run, NEW f \in Frames, UNCHANGED Elsewhere,
           run' = [run EXCEPT ![n] = r], run[n].pc # "unborn", RunOK(r), Put(n, f),
           Heard(n) => Feed(page, Append(wire[n], f), r)
    PROVE  IInv'
<1>1. wire[n] \in Seq(Frames) /\ wire \in [Runs -> Seq(Frames)]
  BY DEF IInv, TypeOK
<1>2. CASE Heard(n)
  <2>1. Append(wire[n], f) \in Seq(Frames) /\ wire' = [wire EXCEPT ![n] = Append(wire[n], f)]
    BY <1>1, <1>2 DEF Put
  <2> QED
    BY <1>2, <2>1, OneRun DEF Elsewhere
<1>3. CASE ~ Heard(n)
  <2>1. wire[n] = <<>>
    BY <1>3 DEF IInv, RunsOK, Heard
  <2>2. wire' = [wire EXCEPT ![n] = wire[n]]
    BY <1>1, <1>3 DEF Put
  <2> QED
    BY <1>1, <1>3, <2>1, <2>2, OneRun DEF Elsewhere
<1> QED
  BY <1>2, <1>3

LEMMA Listening ==
    ASSUME IInv, NEW n \in Runs
    PROVE  /\ RunOK(run[n]) /\ run[n] \in Run /\ wire[n] \in Seq(Frames) /\ page \in Pages
           /\ Heard(n) => Feed(page, wire[n], run[n])
<1>1. n # 0
  BY DEF Runs
<1> QED
  BY <1>1, RunTyped DEF IInv, RunsOK, PageOK, Heard

LEMMA NothingSent ==
    /\ <<>> \in Seq(Frames) /\ <<>> \in Seq(Cards) /\ Offset(<<>>) = 0
    /\ Len(<<>>) = 0 /\ DOMAIN <<>> = {} /\ Members(<<>>) = {}
BY DEF Offset, Members

LEMMA UnbornOK == Unborn \in Run /\ RunOK(Unborn)
BY NothingSent DEF Unborn, Run, RunOK, Phases, Waits, Holds, Early

LEMMA InitIInv == Init => IInv
<1> SUFFICES ASSUME Init PROVE IInv
  OBVIOUS
<1>1. TypeOK
  BY UnbornOK, NothingSent, BoundsAssumption DEF Init, TypeOK, Page, Fresh, Statuses
<1>2. RunsOK
  BY UnbornOK DEF Init, RunsOK, Runs
<1>3. PageOK
  BY DEF Init, PageOK, Fresh
<1> QED
  BY <1>1, <1>2, <1>3 DEF IInv

(* The search before is given up, if there is one: nothing is on its way.  *)
LEMMA AbortedAll ==
    ASSUME IInv
    PROVE  /\ Aborted(page.cur) \in [Runs -> Seq(Frames)]
           /\ \A m \in Runs : Aborted(page.cur)[m] = <<>>
<1>1. wire \in [Runs -> Seq(Frames)] /\ <<>> \in Seq(Frames)
  BY NothingSent DEF IInv, TypeOK
<1>2. \A m \in Runs : m # page.cur => wire[m] = <<>>
  BY DEF IInv, RunsOK
<1> QED
  BY <1>1, <1>2 DEF Aborted

LEMMA SubmitStep == ASSUME IInv, NEW p \in Prompts, Submit(p) PROVE IInv'
<1> DEFINE n == made + 1
           r == [Unborn EXCEPT !.pc = "gate", !.prompt = p]
<1>1. /\ made \in Nat /\ made < MaxSearches /\ MaxSearches \in Nat /\ n \in Runs /\ made' = n
      /\ page' = [cur |-> n, status |-> "loading", last |-> p, cards |-> <<>>]
      /\ wire' = Aborted(page.cur) /\ run' = [run EXCEPT ![n] = r]
  BY BoundsAssumption DEF Submit, IInv, TypeOK, Runs
<1>2. /\ r \in Run /\ r.pc = "gate" /\ r.prompt = p /\ r.sent = <<>> /\ r.items = <<>>
      /\ r.fell = FALSE
  BY NothingSent DEF Unborn, Run, Phases, Waits
<1> HIDE DEF r
<1>3. RunOK(r)
  BY <1>2, NothingSent DEF RunOK, Early, Waits
<1>4. run \in [Runs -> Run]
  BY DEF IInv, TypeOK
<1>5. run'[n] = r /\ \A m \in Runs : m # n => run'[m] = run[m]
  BY <1>1, <1>4
<1>6. wire' \in [Runs -> Seq(Frames)] /\ \A m \in Runs : wire'[m] = <<>>
  BY <1>1, AbortedAll
<1>7. TypeOK'
  <2>1. page' \in Page
    BY <1>1, NothingSent DEF Page, Statuses, Runs
  <2>2. run' \in [Runs -> Run]
    BY <1>1, <1>2, <1>4
  <2>3. n \in 0..MaxSearches
    BY <1>1
  <2> QED
    BY <1>1, <1>6, <2>1, <2>2, <2>3 DEF TypeOK
<1>8. RunsOK'
  <2>1. SUFFICES ASSUME NEW m \in Runs
                 PROVE  RunOK(run'[m]) /\ (m > n => run'[m] = Unborn)
    BY <1>1, <1>6 DEF RunsOK
  <2>2. CASE m = n
    BY <1>1, <1>3, <1>5, <2>2
  <2>3. CASE m # n
    <3>1. m > n => m > made
      BY <1>1, BoundsAssumption DEF Runs
    <3> QED
      BY <1>5, <2>3, <3>1 DEF IInv, RunsOK
  <2> QED
    BY <2>2, <2>3
<1>9. Feed(page', <<>>, r)
  <2>1. page'.cards = <<>> /\ page'.status = "loading"
    BY <1>1
  <2> QED
    BY <1>2, <2>1, NothingSent DEF Feed, Ending, Prefix
<1>10. PageOK'
  <2>1. page'.cur = n /\ n # 0 /\ n <= made' /\ wire'[n] = <<>> /\ run'[n] = r
    BY <1>1, <1>5, <1>6
  <2>2. page'.cur # 0 => Feed(page', wire'[page'.cur], run'[page'.cur])
    BY <1>9, <2>1
  <2> QED
    BY <2>1, <2>2 DEF PageOK
<1> QED
  BY <1>7, <1>8, <1>10 DEF IInv

LEMMA LeaveStep == ASSUME IInv, Leave PROVE IInv'
<1>1. page' = Fresh /\ made' = made /\ run' = run /\ wire' = Aborted(page.cur)
  BY DEF Leave
<1>2. wire' \in [Runs -> Seq(Frames)] /\ \A m \in Runs : wire'[m] = <<>>
  BY <1>1, AbortedAll
<1>3. page' \in Page /\ page'.cur = 0
  BY <1>1, NothingSent, BoundsAssumption DEF Page, Fresh, Statuses
<1>4. made \in Nat
  BY BoundsAssumption DEF IInv, TypeOK
<1>5. PageOK'
  BY <1>1, <1>3, <1>4 DEF PageOK, Fresh
<1>6. RunsOK'
  BY <1>1, <1>2 DEF IInv, RunsOK
<1> QED
  BY <1>1, <1>2, <1>3, <1>5, <1>6 DEF IInv, TypeOK

LEMMA ReceiveStep == ASSUME IInv, NEW n \in Runs, Receive(n) PROVE IInv'
<1> DEFINE w == wire[n]
<1>1. /\ w # <<>> /\ page' = Shown(Head(w)) /\ wire' = [wire EXCEPT ![n] = Tail(w)]
      /\ made' = made /\ run' = run
  BY DEF Receive
<1>2. Heard(n) /\ n # 0
  BY <1>1 DEF IInv, RunsOK, Heard, Runs
<1>3. w \in Seq(Frames) /\ run[n] \in Run /\ page \in Pages /\ RunOK(run[n]) /\ Feed(page, w, run[n])
  BY <1>2, Listening
<1>4. Feed(page', Tail(w), run[n]) /\ page' \in Pages /\ page'.cur = n
  BY <1>1, <1>2, <1>3, FeedShown DEF Heard
<1>5. /\ wire \in [Runs -> Seq(Frames)] /\ Tail(w) \in Seq(Frames)
      /\ wire' \in [Runs -> Seq(Frames)] /\ wire'[n] = Tail(w)
      /\ \A m \in Runs : m # n => wire'[m] = wire[m]
  <2>1. Tail(w) \in Seq(Frames)
    BY <1>1, <1>3, Tailed
  <2>2. wire \in [Runs -> Seq(Frames)]
    BY DEF IInv, TypeOK
  <2> QED
    BY <1>1, <2>1, <2>2
<1>6. TypeOK'
  <2>1. page' \in Page
    BY <1>4, BoundsAssumption DEF Pages, Page, Runs
  <2> QED
    BY <1>1, <1>5, <2>1 DEF IInv, TypeOK
<1>7. RunsOK'
  BY <1>1, <1>2, <1>4, <1>5 DEF IInv, RunsOK, Heard
<1>8. PageOK'
  <2>1. page'.cur # 0 => Feed(page', wire'[page'.cur], run'[page'.cur])
    BY <1>1, <1>4, <1>5
  <2>2. n <= made
    BY <1>2 DEF IInv, PageOK, Heard
  <2> QED
    BY <1>1, <1>2, <1>4, <2>1, <2>2 DEF PageOK
<1> QED
  BY <1>6, <1>7, <1>8 DEF IInv

----------------------------------------------------------------------------
(* The steps of the server.                                                *)
LEMMA PhaseSets ==
    /\ \A pc \in Early : pc # "closed" /\ pc \notin {"rerank", "rest", "finish"}
    /\ \A pc \in Phases : pc \in Early \/ pc \in {"rerank", "rest", "finish", "closed"}
    /\ {"gate", "log", "find", "gating", "logging", "finding", "quota", "intent", "embed",
        "open"} \subseteq Early
    /\ Early \subseteq Phases /\ {"rerank", "rest", "finish", "closed"} \subseteq Phases
BY DEF Early, Phases, Waits, Holds, Streaming

LEMMA ConnectStep == ASSUME IInv, NEW n \in Runs, Connect(n) PROVE IInv'
<1>1. PICK pc \in {"gating", "logging", "finding"} :
          /\ run[n].pc \in {"gate", "log", "find"} /\ Goto(n, pc)
  BY DEF Connect
<1>2. RunOK(run[n]) /\ run[n] \in Run
  BY Listening
<1>3. run' = [run EXCEPT ![n] = [run[n] EXCEPT !.pc = pc]] /\ UNCHANGED <<made, page, wire>>
  BY <1>1 DEF Goto, Connect, Elsewhere
<1>4. pc \in Early /\ run[n].pc \in Early /\ pc \in Phases \ {"unborn"}
  BY <1>1, PhaseSets
<1>5. LET q == [run[n] EXCEPT !.pc = pc]
      IN  q \in Run /\ RunOK(q) /\ q.pc = pc /\ q.sent = run[n].sent
  BY <1>1, <1>2, <1>4, GotoOK
<1> QED
  BY <1>1, <1>3, <1>4, <1>5, Moves

LEMMA RefuseStep ==
    ASSUME IInv, NEW n \in Runs, run[n].pc \in Early \ {"unborn"}, Refuse(n), UNCHANGED Elsewhere
    PROVE  IInv'
<1> DEFINE q == [run[n] EXCEPT !.pc = "closed"]
<1>1. /\ RunOK(run[n]) /\ run[n] \in Run /\ wire[n] \in Seq(Frames) /\ page \in Pages
      /\ Heard(n) => Feed(page, wire[n], run[n])
  BY Listening
<1>2. run' = [run EXCEPT ![n] = q] /\ Put(n, Frame("limited"))
  BY DEF Refuse, Goto
<1>3. "closed" \in Phases \ {"unborn"} /\ "closed" \notin Early
  BY PhaseSets
<1>4. q \in Run /\ RunOK(q) /\ q.pc = "closed" /\ q.sent = run[n].sent
  BY <1>1, <1>3, GotoOK
<1> HIDE DEF q
<1>5. Heard(n) => Feed(page, Append(wire[n], Frame("limited")), q)
  BY <1>1, <1>4, FeedLimited
<1>6. Frame("limited") \in Frames
  BY FrameTypes
<1> QED
  BY <1>1, <1>2, <1>4, <1>5, <1>6, Sends

LEMMA GoesOn ==
    ASSUME IInv, NEW n \in Runs, run[n].pc \in Early \ {"unborn"}, NEW pc \in Early \ {"unborn"},
           Goto(n, pc), UNCHANGED <<made, page, wire>>
    PROVE  IInv'
<1> DEFINE q == [run[n] EXCEPT !.pc = pc]
<1>1. RunOK(run[n]) /\ run[n] \in Run
  BY Listening
<1>2. run' = [run EXCEPT ![n] = q]
  BY DEF Goto
<1>3. pc \in Phases \ {"unborn"} /\ pc \notin {"rerank", "finish", "closed"} /\ run[n].pc # "closed"
  BY PhaseSets
<1>4. q \in Run /\ RunOK(q) /\ q.pc = pc /\ q.sent = run[n].sent
  BY <1>1, <1>3, GotoOK
<1> HIDE DEF q
<1> QED
  BY <1>2, <1>3, <1>4, Moves

LEMMA GateStep == ASSUME IInv, NEW n \in Runs, Gate(n) \/ AskQuota(n) PROVE IInv'
<1>1. UNCHANGED Elsewhere /\ run[n].pc \in Early \ {"unborn"}
  BY PhaseSets DEF Gate, AskQuota
<1>2. \/ Refuse(n)
      \/ (Goto(n, "quota") \/ Goto(n, "intent")) /\ UNCHANGED wire
  BY DEF Gate, AskQuota
<1>3. {"quota", "intent"} \subseteq Early \ {"unborn"}
  BY PhaseSets
<1> QED
  BY <1>1, <1>2, <1>3, RefuseStep, GoesOn DEF Elsewhere

(* The steps before the stream change what no frame tells of.              *)
LEMMA Prepares ==
    ASSUME IInv, NEW n \in Runs, run[n].pc \in Early \ {"unborn"}, NEW q \in Run,
           q.pc \in Early \ {"unborn"}, q.prompt = run[n].prompt, q.sent = run[n].sent,
           q.fell = run[n].fell, run' = [run EXCEPT ![n] = q], UNCHANGED <<Elsewhere, wire>>
    PROVE  IInv'
<1>1. RunOK(run[n])
  BY Listening
<1>2. q.pc # "closed" /\ q.pc \notin {"rerank", "finish"} /\ run[n].pc # "closed"
  BY PhaseSets
<1>3. Members(q.sent) \subseteq Members(q.items)
  BY <1>1, NothingSent DEF RunOK
<1>4. RunOK(q)
  BY <1>1, <1>2, <1>3 DEF RunOK
<1> QED
  BY <1>2, <1>4, Moves DEF Elsewhere

LEMMA ModelStep ==
    ASSUME IInv, NEW n \in Runs, ParseIntent(n) \/ EmbedQuery(n) \/ LogIntent(n)
    PROVE  IInv'
<1>1. run[n] \in Run /\ run[n].pc \in Early \ {"unborn"} /\ UNCHANGED <<Elsewhere, wire>>
  BY Listening, PhaseSets DEF ParseIntent, EmbedQuery, LogIntent
<1>2. {"embed", "log", "find", "open"} \subseteq (Early \cap Phases) \ {"unborn"}
  BY PhaseSets
<1>3. CASE ParseIntent(n)
  <2>1. PICK b \in BOOLEAN :
            run' = [run EXCEPT ![n].pc = IF b THEN "embed" ELSE "log", ![n].onTopic = b]
    BY <1>3 DEF ParseIntent
  <2> DEFINE q == [run[n] EXCEPT !.pc = IF b THEN "embed" ELSE "log", !.onTopic = b]
  <2>2. run' = [run EXCEPT ![n] = q]
    BY <2>1 DEF IInv, TypeOK
  <2>3. /\ q \in Run /\ q.pc \in Early \ {"unborn"} /\ q.prompt = run[n].prompt
        /\ q.sent = run[n].sent /\ q.fell = run[n].fell
    BY <1>1, <1>2 DEF Run
  <2> QED
    BY <1>1, <2>2, <2>3, Prepares
<1>4. CASE EmbedQuery(n)
  <2>1. PICK v \in BOOLEAN : run' = [run EXCEPT ![n].pc = "log", ![n].vector = v]
    BY <1>4 DEF EmbedQuery
  <2> DEFINE q == [run[n] EXCEPT !.pc = "log", !.vector = v]
  <2>2. run' = [run EXCEPT ![n] = q]
    BY <2>1 DEF IInv, TypeOK
  <2>3. /\ q \in Run /\ q.pc \in Early \ {"unborn"} /\ q.prompt = run[n].prompt
        /\ q.sent = run[n].sent /\ q.fell = run[n].fell
    BY <1>1, <1>2 DEF Run
  <2> QED
    BY <1>1, <2>2, <2>3, Prepares
<1>5. CASE LogIntent(n)
  <2> DEFINE q == [run[n] EXCEPT !.pc = IF run[n].onTopic THEN "find" ELSE "open",
                                 !.onTopic = TRUE]
  <2>1. run' = [run EXCEPT ![n] = q]
    BY <1>5 DEF LogIntent, IInv, TypeOK
  <2>2. /\ q \in Run /\ q.pc \in Early \ {"unborn"} /\ q.prompt = run[n].prompt
        /\ q.sent = run[n].sent /\ q.fell = run[n].fell
    BY <1>1, <1>2 DEF Run
  <2> QED
    BY <1>1, <2>1, <2>2, Prepares
<1> QED
  BY <1>3, <1>4, <1>5

(* The legs of a retrieval; without a vector there is no semantic one.     *)
LEMMA NoLeg == IsLeg(<<>>) /\ \A lex : Rivals(lex, <<>>) = {}
BY NothingSent, FusionAssumption DEF IsLeg, Rivals

LEMMA FindStep == ASSUME IInv, NEW n \in Runs, Find(n) PROVE IInv'
<1> DEFINE p == run[n].prompt
           sem == IF run[n].vector THEN Semantic[p] ELSE <<>>
<1>1. run[n] \in Run /\ run[n].pc \in Early \ {"unborn"} /\ UNCHANGED <<Elsewhere, wire>>
  BY Listening, PhaseSets DEF Find
<1>2. p \in Prompts
  BY <1>1, Listening DEF RunOK
<1>3. IsLeg(Lexical[p]) /\ IsLeg(sem)
  BY <1>2, LegsAssumption, NoLeg
<1>4. PICK tie \in Ties :
          run' = [run EXCEPT ![n].pc = "open", ![n].vector = FALSE,
                             ![n].items = Fused(Lexical[p], sem, tie)]
  BY DEF Find
<1>5. PICK F : F = Fused(Lexical[p], sem, tie)
  OBVIOUS
<1>6. F \in Seq(Cards)
  <2>1. IsTie(tie)
    BY TiesAssumption DEF IsTie
  <2> QED
    BY <1>3, <1>5, <2>1, FusedList
<1> DEFINE q == [run[n] EXCEPT !.pc = "open", !.vector = FALSE, !.items = F]
<1>7. run' = [run EXCEPT ![n] = q]
  BY <1>4, <1>5 DEF IInv, TypeOK
<1>8. /\ q \in Run /\ q.pc \in Early \ {"unborn"} /\ q.prompt = run[n].prompt
      /\ q.sent = run[n].sent /\ q.fell = run[n].fell
  BY <1>1, <1>6, PhaseSets DEF Run
<1> QED
  BY <1>1, <1>7, <1>8, Prepares

LEMMA OpenStreamStep == ASSUME IInv, NEW n \in Runs, OpenStream(n) PROVE IInv'
<1> DEFINE pc == IF HasKey /\ run[n].items # <<>> THEN "rerank" ELSE "rest"
           q == [run[n] EXCEPT !.pc = pc]
<1>1. /\ RunOK(run[n]) /\ run[n] \in Run /\ wire[n] \in Seq(Frames) /\ page \in Pages
      /\ Heard(n) => Feed(page, wire[n], run[n])
  BY Listening
<1>2. /\ run[n].pc = "open" /\ run' = [run EXCEPT ![n] = q] /\ Put(n, Frame("intent"))
      /\ UNCHANGED Elsewhere
  BY DEF OpenStream, Goto
<1>3. run[n].pc \in Early \ {"unborn"} /\ pc \in Phases \ {"unborn"} /\ pc \notin Early
  BY <1>2, PhaseSets
<1>4. pc = "rerank" => HasKey /\ ~ run[n].fell
  BY <1>1, <1>3 DEF RunOK
<1>5. pc # "finish" /\ pc # "closed"
  OBVIOUS
<1> HIDE DEF pc
<1>6. q \in Run /\ RunOK(q) /\ q.pc = pc /\ q.sent = run[n].sent
  BY <1>1, <1>3, <1>4, <1>5, GotoOK
<1> HIDE DEF q
<1>7. Heard(n) => Feed(page, Append(wire[n], Frame("intent")), q)
  BY <1>1, <1>3, <1>5, <1>6, FeedIntent
<1>8. Frame("intent") \in Frames
  BY FrameTypes
<1> QED
  BY <1>2, <1>3, <1>6, <1>7, <1>8, Sends

LEMMA SendCardStep ==
    ASSUME IInv, NEW n \in Runs, run[n].pc \in {"rerank", "rest"},
           NEW k \in DOMAIN run[n].items, SendCard(n, run[n].items[k]), UNCHANGED Elsewhere
    PROVE  IInv'
<1> DEFINE c == run[n].items[k]
           q == [run[n] EXCEPT !.sent = Append(@, c)]
<1>1. /\ RunOK(run[n]) /\ run[n] \in Run /\ wire[n] \in Seq(Frames) /\ page \in Pages
      /\ Heard(n) => Feed(page, wire[n], run[n])
  BY Listening
<1>2. run[n].sent \in Seq(Cards) /\ run[n].items \in Seq(Cards)
  BY <1>1 DEF Run
<1>3. c \in Cards /\ c \in Members(run[n].items)
  BY <1>2 DEF Members
<1> HIDE DEF c
<1>4. run' = [run EXCEPT ![n] = q] /\ Put(n, CardFrame(c))
  BY DEF SendCard, c, IInv, TypeOK
<1>5. /\ Append(run[n].sent, c) \in Seq(Cards)
      /\ Members(Append(run[n].sent, c)) = Members(run[n].sent) \cup {c}
  BY <1>2, <1>3, Appended
<1>6. /\ q \in Run /\ q.pc = run[n].pc /\ q.sent = Append(run[n].sent, c)
      /\ q.items = run[n].items /\ q.prompt = run[n].prompt /\ q.fell = run[n].fell
  BY <1>1, <1>5 DEF Run
<1> HIDE DEF q
<1>7. run[n].pc \notin Early \cup {"closed", "finish", "unborn"}
  BY PhaseSets DEF Early
<1>8. RunOK(q)
  BY <1>1, <1>3, <1>5, <1>6, <1>7 DEF RunOK
<1>9. Heard(n) => Feed(page, Append(wire[n], CardFrame(c)), q)
  BY <1>1, <1>3, <1>6, <1>7, FeedCard
<1>10. CardFrame(c) \in Frames
  BY <1>3, FrameTypes
<1> QED
  BY <1>4, <1>6, <1>7, <1>8, <1>9, <1>10, Sends

LEMMA RerankEndStep ==
    ASSUME IInv, NEW n \in Runs, RerankEnds(n) \/ RerankFails(n) PROVE IInv'
<1>1. /\ RunOK(run[n]) /\ run[n] \in Run /\ run[n].pc = "rerank" /\ HasKey
      /\ ~ run[n].fell /\ UNCHANGED <<made, page, wire>>
  BY Listening DEF RerankEnds, RerankFails, RunOK, Elsewhere
<1>2. /\ "rerank" \notin Early /\ "rest" \notin Early /\ "finish" \notin Early
      /\ "rest" \in Phases /\ "finish" \in Phases
  BY PhaseSets
<1>3. CASE RerankEnds(n)
  <2> DEFINE q == [run[n] EXCEPT !.pc = "finish"]
  <2>1. run' = [run EXCEPT ![n] = q]
    BY <1>3 DEF RerankEnds, Goto
  <2>2. Whole(run[n])
    BY <1>1 DEF Whole
  <2>3. q \in Run /\ RunOK(q) /\ q.pc = "finish" /\ q.sent = run[n].sent
    BY <1>1, <1>2, <2>2, GotoOK
  <2> HIDE DEF q
  <2> QED
    BY <1>1, <1>2, <2>1, <2>3, Moves
<1>4. CASE RerankFails(n)
  <2> DEFINE q == [run[n] EXCEPT !.pc = "rest", !.fell = TRUE]
  <2>1. run' = [run EXCEPT ![n] = q]
    BY <1>4 DEF RerankFails, IInv, TypeOK
  <2>2. /\ q \in Run /\ q.pc = "rest" /\ q.sent = run[n].sent
        /\ q.items = run[n].items /\ q.prompt = run[n].prompt
    BY <1>1, <1>2 DEF Run
  <2> HIDE DEF q
  <2>3. RunOK(q)
    BY <1>1, <1>2, <2>2 DEF RunOK
  <2> QED
    BY <1>1, <1>2, <2>1, <2>2, <2>3, Moves
<1> QED
  BY <1>3, <1>4

LEMMA SendRestStep == ASSUME IInv, NEW n \in Runs, SendRest(n) PROVE IInv'
<1>1. run[n].pc = "rest" /\ UNCHANGED Elsewhere
  BY DEF SendRest
<1>2. CASE Remaining(n) = {}
  <2> DEFINE q == [run[n] EXCEPT !.pc = "finish"]
  <2>1. RunOK(run[n]) /\ run[n] \in Run
    BY Listening
  <2>2. "rest" \notin Early /\ "finish" \notin Early /\ "finish" \in Phases
    BY PhaseSets
  <2>3. run' = [run EXCEPT ![n] = q] /\ UNCHANGED wire
    BY <1>2 DEF SendRest, Goto
  <2>4. Whole(run[n])
    <3>1. Members(run[n].items) \subseteq Members(run[n].sent)
      BY <1>2 DEF Remaining, Members
    <3> QED
      BY <2>1, <3>1 DEF RunOK, Whole
  <2>5. q \in Run /\ RunOK(q) /\ q.pc = "finish" /\ q.sent = run[n].sent
    BY <1>1, <2>1, <2>2, <2>4, GotoOK
  <2> HIDE DEF q
  <2> QED
    BY <1>1, <2>1, <2>2, <2>3, <2>5, Moves DEF Elsewhere
<1>3. CASE Remaining(n) # {}
  <2>1. PICK k \in Remaining(n) : SendCard(n, run[n].items[k])
    BY <1>3 DEF SendRest
  <2>2. k \in DOMAIN run[n].items
    BY DEF Remaining
  <2> QED
    BY <1>1, <2>1, <2>2, SendCardStep
<1> QED
  BY <1>2, <1>3

LEMMA FinishStep == ASSUME IInv, NEW n \in Runs, Finish(n) PROVE IInv'
<1> DEFINE q == [run[n] EXCEPT !.pc = "closed"]
<1>1. /\ RunOK(run[n]) /\ run[n] \in Run /\ wire[n] \in Seq(Frames) /\ page \in Pages
      /\ Heard(n) => Feed(page, wire[n], run[n])
  BY Listening
<1>2. /\ run[n].pc = "finish" /\ run' = [run EXCEPT ![n] = q] /\ Put(n, Frame("done"))
      /\ UNCHANGED Elsewhere
  BY DEF Finish, Goto
<1>3. "finish" \notin Early \cup {"closed", "unborn"} /\ "closed" \in Phases \ {"unborn"}
      /\ "closed" \notin Early
  BY PhaseSets
<1>4. Whole(run[n])
  BY <1>1, <1>2 DEF RunOK
<1>5. /\ q \in Run /\ RunOK(q) /\ q.pc = "closed" /\ q.sent = run[n].sent
      /\ q.items = run[n].items /\ q.fell = run[n].fell
  BY <1>1, <1>2, <1>3, GotoOK
<1> HIDE DEF q
<1>6. Heard(n) => Feed(page, Append(wire[n], Frame("done")), q)
  BY <1>1, <1>2, <1>3, <1>4, <1>5, FeedDone
<1>7. Frame("done") \in Frames
  BY FrameTypes
<1> QED
  BY <1>2, <1>3, <1>5, <1>6, <1>7, Sends

LEMMA DisconnectStep == ASSUME IInv, NEW n \in Runs, Disconnect(n) PROVE IInv'
<1> DEFINE q == [run[n] EXCEPT !.pc = "closed"]
<1>1. RunOK(run[n]) /\ run[n] \in Run /\ wire[n] \in Seq(Frames)
  BY Listening
<1>2. /\ run[n].pc # "unborn" /\ run' = [run EXCEPT ![n] = q] /\ ~ Heard(n)
      /\ UNCHANGED <<made, page, wire>>
  BY DEF Disconnect, Goto, Elsewhere, Streaming
<1>3. "closed" \in Phases \ {"unborn"} /\ "closed" \notin Early
  BY PhaseSets
<1>4. q \in Run /\ RunOK(q)
  BY <1>1, <1>2, <1>3, GotoOK
<1> HIDE DEF q
<1>5. wire[n] = <<>> /\ wire' = [wire EXCEPT ![n] = wire[n]]
  BY <1>2 DEF IInv, RunsOK, TypeOK, Heard
<1> QED
  BY <1>1, <1>2, <1>4, <1>5, OneRun

(* A search that is closed, noted as cut off or not.                       *)
LEMMA Closes ==
    ASSUME NEW r \in Run, RunOK(r), r.pc # "unborn", NEW quiet \in BOOLEAN
    PROVE  LET q == [r EXCEPT !.pc = "closed", !.quiet = quiet]
           IN  /\ q \in Run /\ RunOK(q) /\ q.pc = "closed" /\ q.sent = r.sent
               /\ q.items = r.items /\ q.fell = r.fell
<1> DEFINE q == [r EXCEPT !.pc = "closed", !.quiet = quiet]
<1>1. /\ q \in Run /\ q.pc = "closed" /\ q.sent = r.sent /\ q.prompt = r.prompt
      /\ q.items = r.items /\ q.fell = r.fell
  BY PhaseSets DEF Run
<1> HIDE DEF q
<1>2. "closed" \notin Early
  BY PhaseSets
<1>3. RunOK(q)
  BY <1>1, <1>2 DEF RunOK
<1> QED
  BY <1>1, <1>3 DEF q

(* What a break leaves of a run: closed, and cut off quietly or not.       *)
LEMMA BreakCloses ==
    ASSUME TypeOK, NEW n \in Runs, Break(n)
    PROVE  \E quiet \in BOOLEAN :
               run' = [run EXCEPT ![n] = [run[n] EXCEPT !.pc = "closed", !.quiet = quiet]]
<1>1. run \in [Runs -> Run] /\ run[n].quiet \in BOOLEAN
  BY RunTyped DEF TypeOK
<1>2. CASE Heard(n)
  BY <1>1, <1>2 DEF Break
<1>3. CASE ~ Heard(n)
  <2>1. [run[n] EXCEPT !.pc = "closed"] = [run[n] EXCEPT !.pc = "closed", !.quiet = run[n].quiet]
    BY <1>1 DEF Run
  <2> QED
    BY <1>1, <1>3, <2>1 DEF Break, Goto
<1> QED
  BY <1>2, <1>3

LEMMA BreakStep == ASSUME IInv, NEW n \in Runs, Break(n) PROVE IInv'
<1>1. /\ RunOK(run[n]) /\ run[n] \in Run /\ wire[n] \in Seq(Frames) /\ page \in Pages
      /\ Heard(n) => Feed(page, wire[n], run[n])
  BY Listening
<1>2. PICK quiet \in BOOLEAN :
          run' = [run EXCEPT ![n] = [run[n] EXCEPT !.pc = "closed", !.quiet = quiet]]
  BY BreakCloses DEF IInv
<1> DEFINE q == [run[n] EXCEPT !.pc = "closed", !.quiet = quiet]
<1>3. run' = [run EXCEPT ![n] = q] /\ made' = made /\ page' = page
  BY <1>2 DEF Break, Elsewhere
<1>4. run[n].pc # "unborn"
  <2>1. CASE wire[n] # <<>>
    <3>1. Heard(n)
      BY <2>1 DEF IInv, RunsOK, Heard
    <3>2. run[n].pc \notin Early
      BY <1>1, <2>1, <3>1 DEF Feed
    <3> QED
      BY <3>2 DEF Early
  <2>2. CASE wire[n] = <<>>
    BY <2>2 DEF Break
  <2> QED
    BY <2>1, <2>2
<1>5. /\ q \in Run /\ RunOK(q) /\ q.pc = "closed" /\ q.sent = run[n].sent
      /\ q.items = run[n].items /\ q.fell = run[n].fell
  BY <1>1, <1>2, <1>4, Closes
<1> HIDE DEF q
<1>6. CASE Heard(n)
  <2>1. PICK k \in 0..Len(wire[n]) :
            \/ wire' = [wire EXCEPT ![n] = Broken(n, k)]
            \/ wire' = [wire EXCEPT ![n] = CutOff(n, k)]
    BY <1>6 DEF Break
  <2>2. CutOff(n, k) \in Seq(Frames) /\ Frame("error") \in Frames
    BY <1>1, <2>1, Cropped, FrameTypes DEF CutOff
  <2>3. Broken(n, k) \in Seq(Frames)
    BY <2>2, Appended DEF Broken, CutOff
  <2>4. Feed(page, Broken(n, k), q)
    BY <1>1, <1>5, <1>6, <2>1, FeedBreak DEF Broken
  <2>5. Feed(page, CutOff(n, k), q)
    BY <1>1, <1>5, <1>6, <2>1, FeedCut DEF CutOff
  <2>6. CASE wire' = [wire EXCEPT ![n] = Broken(n, k)]
    BY <1>3, <1>4, <1>5, <1>6, <2>3, <2>4, <2>6, OneRun
  <2>7. CASE wire' = [wire EXCEPT ![n] = CutOff(n, k)]
    BY <1>3, <1>4, <1>5, <1>6, <2>2, <2>5, <2>7, OneRun
  <2> QED
    BY <2>1, <2>6, <2>7
<1>7. CASE ~ Heard(n)
  <2>1. wire[n] = <<>> /\ wire' = [wire EXCEPT ![n] = wire[n]]
    BY <1>7 DEF Break, IInv, RunsOK, TypeOK, Heard
  <2> QED
    BY <1>1, <1>3, <1>4, <1>5, <1>7, <2>1, OneRun
<1> QED
  BY <1>6, <1>7

LEMMA RerankLineStep ==
    ASSUME IInv, NEW n \in Runs, NEW k \in 1..Limit, RerankLine(n, k) PROVE IInv'
BY SendCardStep DEF RerankLine, Pick

LEMMA NextIInv == IInv /\ [Next]_vars => IInv'
<1> SUFFICES ASSUME IInv, [Next]_vars PROVE IInv'
  OBVIOUS
<1>1. CASE \E p \in Prompts : Submit(p)
  BY <1>1, SubmitStep
<1>2. CASE Leave
  BY <1>2, LeaveStep
<1>3. ASSUME NEW n \in Runs,
             \/ Receive(n) \/ Connect(n) \/ Handler(n) \/ Model(n)
             \/ Disconnect(n) \/ Break(n)
             \/ \E k \in 1..Limit : RerankLine(n, k)
      PROVE  IInv'
  <2>1. CASE Receive(n) \/ Connect(n)
    BY <2>1, ReceiveStep, ConnectStep
  <2>2. CASE Handler(n)
    BY <2>2, GateStep, ModelStep, FindStep, OpenStreamStep, SendRestStep, FinishStep DEF Handler
  <2>3. CASE Model(n)
    BY <2>3, ModelStep, RerankEndStep DEF Model
  <2>4. CASE Disconnect(n) \/ Break(n)
    BY <2>4, DisconnectStep, BreakStep
  <2>5. CASE \E k \in 1..Limit : RerankLine(n, k)
    BY <2>5, RerankLineStep
  <2> QED
    BY <1>3, <2>1, <2>2, <2>3, <2>4, <2>5
<1>4. CASE UNCHANGED vars
  BY <1>4 DEF vars, IInv, TypeOK, RunsOK, PageOK
<1> QED
  BY <1>1, <1>2, <1>3, <1>4 DEF Next

LEMMA Invariance == Spec => []IInv
<1>1. Init => IInv
  BY InitIInv
<1>2. IInv /\ [Next]_vars => IInv'
  BY NextIInv
<1> QED
  BY <1>1, <1>2, PTL DEF Spec

----------------------------------------------------------------------------
(* The state of a search is of its types, whatever the models, the network *)
(* and the reader do.                                                      *)
THEOREM SearchTyped == Spec => []TypeOK
<1>1. IInv => TypeOK
  BY DEF IInv
<1> QED
  BY <1>1, Invariance, PTL

(* The page shows only cards of the search it made last, in the order they *)
(* were sent, and an error on it is that search's own.                     *)
THEOREM OwnCardsOnly == Spec => []OwnCards
<1>1. IInv => OwnCards
  <2>1. SUFFICES ASSUME IInv PROVE OwnCards
    OBVIOUS
  <2>2. CASE page.cur = 0
    BY <2>1, <2>2 DEF OwnCards, IInv, PageOK, Fresh
  <2>3. CASE page.cur # 0
    BY <2>1, <2>3 DEF OwnCards, IInv, PageOK, Feed, Ending
  <2> QED
    BY <2>2, <2>3
<1> QED
  BY <1>1, Invariance, PTL

(* A search that the page calls done has brought all its cards, and all    *)
(* candidates unless the re-ranker chose among them.                       *)
THEOREM DoneIsComplete == Spec => []Complete
<1>1. IInv => Complete
  <2>1. SUFFICES ASSUME IInv, page.status = "done" PROVE Complete
    BY DEF Complete
  <2>2. page.cur # 0
    BY <2>1 DEF IInv, PageOK, Fresh
  <2>3. page.cards = run[page.cur].sent /\ Whole(run[page.cur])
    BY <2>1, <2>2 DEF IInv, PageOK, Feed
  <2> QED
    BY <2>3 DEF Complete, Whole
<1> QED
  BY <1>1, Invariance, PTL

(* Whatever the vectors say and however ties fall, fusion keeps the exact  *)
(* match of the name, unless its rivals fill the list.                     *)
THEOREM ExactNamesSurvive == Spec => ExactNameSurvives
<1> DEFINE lex(n) == Lexical[run[n].prompt]
           sem(n) == Semantic[run[n].prompt]
           A == \A n \in Runs : Find(n) =>
                    \/ lex(n) = <<>> \/ Head(lex(n)) \in Members(run'[n].items)
                    \/ Cardinality(Rivals(lex(n), sem(n))) >= Limit
<1>1. ASSUME IInv PROVE A
  <2>1. SUFFICES ASSUME NEW n \in Runs, Find(n), lex(n) # <<>>,
                        Head(lex(n)) \notin Members(run'[n].items)
                 PROVE  Cardinality(Rivals(lex(n), sem(n))) >= Limit
    OBVIOUS
  <2> DEFINE found == IF run[n].vector THEN sem(n) ELSE <<>>
  <2>2. run[n].pc \notin {"unborn"} /\ run[n].prompt \in Prompts
    BY <1>1, <2>1, Listening DEF Find, RunOK
  <2>3. IsLeg(lex(n)) /\ IsLeg(sem(n)) /\ IsLeg(found)
    BY <2>2, LegsAssumption, NoLeg
  <2>4. PICK tie \in Ties :
            run' = [run EXCEPT ![n].pc = "open", ![n].vector = FALSE,
                               ![n].items = Fused(lex(n), found, tie)]
    BY <2>1 DEF Find
  <2>5. PICK F : F = Fused(lex(n), found, tie)
    OBVIOUS
  <2>6. run'[n].items = F
    BY <1>1, <2>4, <2>5, Listening DEF IInv, TypeOK, Run
  <2>7. IsTie(tie)
    BY TiesAssumption DEF IsTie
  <2>8. Cardinality(Rivals(lex(n), found)) >= Limit
    BY <2>1, <2>3, <2>5, <2>6, <2>7, HeadIsKept
  <2>9. CASE run[n].vector
    BY <2>8, <2>9
  <2>10. CASE ~ run[n].vector
    <3>1. Rivals(lex(n), found) = {}
      BY <2>10, NoLeg
    <3>2. 0 >= Limit
      BY <2>8, <3>1, FS_EmptySet
    <3>3. Rivals(lex(n), sem(n)) \in SUBSET Members(sem(n)) /\ IsFiniteSet(Members(sem(n)))
      BY <2>3, LegRanks DEF Rivals
    <3>4. Cardinality(Rivals(lex(n), sem(n))) \in Nat
      BY <3>3, FS_Subset, FS_CardinalityType
    <3> QED
      BY <3>2, <3>4, FusionAssumption
  <2> QED
    BY <2>9, <2>10
<1>2. IInv => [A]_vars
  BY <1>1
<1>3. Spec => [][A]_vars
  BY <1>2, Invariance, PTL
<1> QED
  BY <1>3 DEF ExactNameSurvives

----------------------------------------------------------------------------
(* Each search is a stream of cards: it opens when its first event is sent *)
(* and is over when the server is done with it or it breaks.               *)
StreamPhases == [n \in Runs |-> StreamPhase(n)]
Sent == [n \in Runs |-> run[n].sent]

LEMMA InitStream == Init => Stream!Init
BY DEF Init, Unborn, Stream!Init, StreamPhase

(* How one run moves, as its stream sees it.                               *)
PhaseOf(pc) ==
    CASE pc \in {"rerank", "rest", "finish"} -> "open"
      [] pc = "closed" -> "over"
      [] OTHER -> "unborn"

LEMMA StreamMoves ==
    ASSUME IInv, NEW n \in Runs, NEW q \in Run, run' = [run EXCEPT ![n] = q]
    PROVE  /\ StreamPhases' = [StreamPhases EXCEPT ![n] = PhaseOf(q.pc)]
           /\ Sent' = [Sent EXCEPT ![n] = q.sent]
           /\ StreamPhases[n] = PhaseOf(run[n].pc) /\ Sent[n] = run[n].sent
           /\ q.pc \in Early => PhaseOf(q.pc) = "unborn"
<1>1. run \in [Runs -> Run]
  BY DEF IInv, TypeOK
<1>2. run'[n] = q /\ \A m \in Runs : m # n => run'[m] = run[m]
  BY <1>1
<1>3. /\ \A m \in Runs : m # n => StreamPhase(m)' = StreamPhase(m)
      /\ StreamPhase(n)' = PhaseOf(q.pc) /\ StreamPhase(n) = PhaseOf(run[n].pc)
  BY <1>2 DEF StreamPhase, PhaseOf
<1>4. StreamPhases' = [StreamPhases EXCEPT ![n] = PhaseOf(q.pc)]
  BY <1>3 DEF StreamPhases
<1>5. \A m \in Runs : run'[m].sent = IF m = n THEN q.sent ELSE run[m].sent
  BY <1>2
<1>6. Sent' = [m \in Runs |-> run'[m].sent]
  BY DEF Sent
<1>7. Sent' = [Sent EXCEPT ![n] = q.sent]
  BY <1>5, <1>6 DEF Sent
<1>8. q.pc \in Early => PhaseOf(q.pc) = "unborn"
  BY PhaseSets DEF PhaseOf
<1> QED
  BY <1>3, <1>4, <1>7, <1>8 DEF StreamPhases, Sent

Sees == [Stream!Next]_<<StreamPhases, Sent>>

(* A step that sends no card and opens or ends no stream is a stutter.     *)
LEMMA Stutters ==
    ASSUME IInv, NEW n \in Runs, NEW q \in Run, run' = [run EXCEPT ![n] = q],
           PhaseOf(q.pc) = PhaseOf(run[n].pc), q.sent = run[n].sent
    PROVE  UNCHANGED <<StreamPhases, Sent>>
<1>1. /\ StreamPhases' = [StreamPhases EXCEPT ![n] = PhaseOf(q.pc)]
      /\ Sent' = [Sent EXCEPT ![n] = q.sent]
      /\ StreamPhases[n] = PhaseOf(run[n].pc) /\ Sent[n] = run[n].sent
  BY StreamMoves
<1> QED
  BY <1>1 DEF StreamPhases, Sent

LEMMA Ends ==
    ASSUME IInv, NEW n \in Runs, NEW quiet \in BOOLEAN,
           run' = [run EXCEPT ![n] = [run[n] EXCEPT !.pc = "closed", !.quiet = quiet]]
    PROVE  Sees
<1> DEFINE q == [run[n] EXCEPT !.pc = "closed", !.quiet = quiet]
<1>1. run' = [run EXCEPT ![n] = q]
  OBVIOUS
<1>2. q \in Run /\ q.pc = "closed" /\ q.sent = run[n].sent
  BY Listening, PhaseSets DEF Run
<1> HIDE DEF q
<1>3. CASE run[n].pc = "closed"
  <2>1. UNCHANGED <<StreamPhases, Sent>>
    BY <1>1, <1>2, <1>3, Stutters
  <2> QED
    BY <2>1 DEF Sees
<1>4. CASE run[n].pc # "closed"
  <2>1. /\ StreamPhases' = [StreamPhases EXCEPT ![n] = PhaseOf(q.pc)]
        /\ Sent' = [Sent EXCEPT ![n] = q.sent]
        /\ StreamPhases[n] = PhaseOf(run[n].pc) /\ Sent[n] = run[n].sent
    BY <1>1, <1>2, StreamMoves
  <2>2. PhaseOf(q.pc) = "over" /\ PhaseOf(run[n].pc) # "over"
    BY <1>2, <1>4 DEF PhaseOf
  <2>3. Sent' = Sent
    BY <1>2, <2>1 DEF Sent
  <2>4. Stream!End(n)
    BY <2>1, <2>2, <2>3 DEF Stream!End, StreamPhases, Sent
  <2> QED
    BY <2>4 DEF Sees, Stream!Next
<1> QED
  BY <1>3, <1>4

LEMMA Closed ==
    ASSUME IInv, NEW n \in Runs, Goto(n, "closed")
    PROVE  Sees
<1>1. run \in [Runs -> Run] /\ run[n].quiet \in BOOLEAN
  BY RunTyped DEF IInv, TypeOK
<1>2. [run[n] EXCEPT !.pc = "closed"] = [run[n] EXCEPT !.pc = "closed", !.quiet = run[n].quiet]
  BY <1>1 DEF Run
<1> QED
  BY <1>1, <1>2, Ends DEF Goto

LEMMA Opens ==
    ASSUME IInv, NEW n \in Runs, OpenStream(n)
    PROVE  Sees
<1> DEFINE pc == IF HasKey /\ run[n].items # <<>> THEN "rerank" ELSE "rest"
           q == [run[n] EXCEPT !.pc = pc]
<1>1. run' = [run EXCEPT ![n] = q] /\ run[n].pc = "open"
  BY DEF OpenStream, Goto
<1>2. q \in Run /\ q.pc \in {"rerank", "rest"} /\ q.sent = run[n].sent
  BY Listening, PhaseSets DEF Run
<1> HIDE DEF q
<1>3. /\ StreamPhases' = [StreamPhases EXCEPT ![n] = PhaseOf(q.pc)]
      /\ Sent' = [Sent EXCEPT ![n] = q.sent]
      /\ StreamPhases[n] = PhaseOf(run[n].pc) /\ Sent[n] = run[n].sent
  BY <1>1, <1>2, StreamMoves
<1>4. PhaseOf(q.pc) = "open" /\ PhaseOf(run[n].pc) = "unborn"
  BY <1>1, <1>2 DEF PhaseOf
<1>5. Sent' = Sent
  BY <1>2, <1>3 DEF Sent
<1>6. Stream!Open(n)
  BY <1>3, <1>4, <1>5 DEF Stream!Open, StreamPhases, Sent
<1> QED
  BY <1>6 DEF Sees, Stream!Next

LEMMA Brings ==
    ASSUME IInv, NEW n \in Runs, run[n].pc \in {"rerank", "rest"},
           NEW k \in DOMAIN run[n].items, run[n].items[k] \notin Members(run[n].sent),
           SendCard(n, run[n].items[k])
    PROVE  Sees
<1> DEFINE c == run[n].items[k]
           q == [run[n] EXCEPT !.sent = Append(@, c)]
<1>1. run' = [run EXCEPT ![n] = q]
  BY DEF SendCard, IInv, TypeOK
<1>2. c \in Cards
  BY Listening DEF Run
<1>3. q \in Run /\ q.pc = run[n].pc /\ q.sent = Append(run[n].sent, c)
  <2>1. Append(run[n].sent, c) \in Seq(Cards)
    BY <1>2, Listening DEF Run
  <2> QED
    BY <2>1, Listening DEF Run
<1> HIDE DEF q, c
<1>4. /\ StreamPhases' = [StreamPhases EXCEPT ![n] = PhaseOf(q.pc)]
      /\ Sent' = [Sent EXCEPT ![n] = q.sent]
      /\ StreamPhases[n] = PhaseOf(run[n].pc) /\ Sent[n] = run[n].sent
  BY <1>1, <1>3, StreamMoves
<1>5. PhaseOf(q.pc) = "open" /\ PhaseOf(run[n].pc) = "open"
  BY <1>3 DEF PhaseOf
<1>6. StreamPhases' = StreamPhases
  BY <1>4, <1>5 DEF StreamPhases
<1>7. c \notin Stream!Brought(n)
  BY <1>4 DEF Stream!Brought, Members, c, Sent
<1>8. Sent' = [Sent EXCEPT ![n] = Append(Sent[n], c)]
  BY <1>3, <1>4
<1>9. Stream!Bring(n, c)
  BY <1>4, <1>5, <1>6, <1>7, <1>8 DEF Stream!Bring, StreamPhases, Sent
<1>10. \E s \in Runs : \E d \in Cards : Stream!Bring(s, d)
  BY <1>2, <1>9 DEF Stream!Bring
<1>11. Stream!Next
  BY <1>10 DEF Stream!Next
<1> QED
  BY <1>11 DEF Sees

LEMMA EarlyStutters ==
    ASSUME IInv, NEW n \in Runs, NEW q \in Run, run' = [run EXCEPT ![n] = q],
           run[n].pc \in Early, q.pc \in Early, q.sent = run[n].sent
    PROVE  Sees
<1>1. PhaseOf(q.pc) = PhaseOf(run[n].pc)
  BY PhaseSets DEF PhaseOf
<1> QED
  BY <1>1, Stutters DEF Sees

LEMMA ServerSees ==
    ASSUME IInv, NEW n \in Runs, Connect(n) \/ Handler(n) \/ Model(n)
    PROVE  Sees
<1>1. run[n] \in Run
  BY Listening
<1>2. /\ {"gate", "log", "find", "gating", "logging", "finding", "quota", "intent", "embed",
          "open"} \subseteq Early \cap Phases
      /\ {"rest", "finish"} \subseteq Phases
  BY PhaseSets
<1>3. ASSUME NEW pc \in Early, Goto(n, pc), run[n].pc \in Early PROVE Sees
  <2> DEFINE q == [run[n] EXCEPT !.pc = pc]
  <2>1. run' = [run EXCEPT ![n] = q]
    BY <1>3 DEF Goto
  <2>2. q \in Run /\ q.pc \in Early /\ q.sent = run[n].sent
    BY <1>1, PhaseSets DEF Run
  <2> HIDE DEF q
  <2> QED
    BY <1>3, <2>1, <2>2, EarlyStutters
<1>4. CASE Connect(n)
  <2>1. run[n].pc \in Early /\ (Goto(n, "gating") \/ Goto(n, "logging") \/ Goto(n, "finding"))
    BY <1>2, <1>4 DEF Connect
  <2> QED
    BY <1>2, <1>3, <2>1
<1>5. CASE Gate(n) \/ AskQuota(n)
  <2>1. run[n].pc \in Early /\ (Goto(n, "closed") \/ Goto(n, "quota") \/ Goto(n, "intent"))
    BY <1>2, <1>5 DEF Gate, AskQuota, Refuse
  <2> QED
    BY <1>2, <1>3, <2>1, Closed
<1>6. CASE LogIntent(n)
  <2> DEFINE q == [run[n] EXCEPT !.pc = IF run[n].onTopic THEN "find" ELSE "open",
                                 !.onTopic = TRUE]
  <2>1. run' = [run EXCEPT ![n] = q] /\ run[n].pc \in Early
    BY <1>2, <1>6 DEF LogIntent, IInv, TypeOK
  <2>2. q \in Run /\ q.pc \in Early /\ q.sent = run[n].sent
    BY <1>1, <1>2 DEF Run
  <2> HIDE DEF q
  <2> QED
    BY <2>1, <2>2, EarlyStutters
<1>7. CASE Find(n)
  <2>1. PICK r : run' = [run EXCEPT ![n].pc = "open", ![n].vector = FALSE, ![n].items = r]
    BY <1>7 DEF Find
  <2> DEFINE q == [run[n] EXCEPT !.pc = "open", !.vector = FALSE, !.items = r]
  <2>2. run' = [run EXCEPT ![n] = q] /\ run[n].pc \in Early
    BY <1>2, <1>7, <2>1 DEF Find, IInv, TypeOK
  <2>3. q.pc \in Early /\ q.sent = run[n].sent
    BY <1>1, <1>2 DEF Run
  <2>4. q \in Run
    <3>1. run' \in [Runs -> Run]
      BY <1>7, FindStep DEF IInv, TypeOK
    <3>2. run'[n] = q
      BY <2>2 DEF IInv, TypeOK
    <3> QED
      BY <3>1, <3>2
  <2> HIDE DEF q
  <2> QED
    BY <2>2, <2>3, <2>4, EarlyStutters
<1>8. CASE ParseIntent(n)
  <2>1. PICK b \in BOOLEAN :
            run' = [run EXCEPT ![n].pc = IF b THEN "embed" ELSE "log", ![n].onTopic = b]
    BY <1>8 DEF ParseIntent
  <2> DEFINE q == [run[n] EXCEPT !.pc = IF b THEN "embed" ELSE "log", !.onTopic = b]
  <2>2. run' = [run EXCEPT ![n] = q] /\ run[n].pc \in Early
    BY <1>2, <1>8, <2>1 DEF ParseIntent, IInv, TypeOK
  <2>3. q \in Run /\ q.pc \in Early /\ q.sent = run[n].sent
    BY <1>1, <1>2 DEF Run
  <2> HIDE DEF q
  <2> QED
    BY <2>2, <2>3, EarlyStutters
<1>9. CASE EmbedQuery(n)
  <2>1. PICK v \in BOOLEAN : run' = [run EXCEPT ![n].pc = "log", ![n].vector = v]
    BY <1>9 DEF EmbedQuery
  <2> DEFINE q == [run[n] EXCEPT !.pc = "log", !.vector = v]
  <2>2. run' = [run EXCEPT ![n] = q] /\ run[n].pc \in Early
    BY <1>2, <1>9, <2>1 DEF EmbedQuery, IInv, TypeOK
  <2>3. q \in Run /\ q.pc \in Early /\ q.sent = run[n].sent
    BY <1>1, <1>2 DEF Run
  <2> HIDE DEF q
  <2> QED
    BY <2>2, <2>3, EarlyStutters
<1>10. ASSUME run[n].pc \in {"rerank", "rest"}, NEW q \in Run, run' = [run EXCEPT ![n] = q],
              q.pc \in {"rest", "finish"}, q.sent = run[n].sent
       PROVE  Sees
  <2>1. PhaseOf(q.pc) = PhaseOf(run[n].pc)
    BY <1>10 DEF PhaseOf
  <2> QED
    BY <1>10, <2>1, Stutters DEF Sees
<1>11. CASE RerankEnds(n) \/ RerankFails(n)
  <2> DEFINE q == [run[n] EXCEPT !.pc = "finish"]
             r == [run[n] EXCEPT !.pc = "rest", !.fell = TRUE]
  <2>1. run' = [run EXCEPT ![n] = q] \/ run' = [run EXCEPT ![n] = r]
    BY <1>11 DEF RerankEnds, RerankFails, Goto, IInv, TypeOK
  <2>2. run[n].pc = "rerank"
    BY <1>11 DEF RerankEnds, RerankFails
  <2>3. /\ q \in Run /\ q.pc = "finish" /\ q.sent = run[n].sent
        /\ r \in Run /\ r.pc = "rest" /\ r.sent = run[n].sent
    BY <1>1, <1>2 DEF Run
  <2> HIDE DEF q, r
  <2> QED
    BY <1>10, <2>1, <2>2, <2>3
<1>12. CASE SendRest(n)
  <2>1. CASE Remaining(n) = {}
    <3> DEFINE q == [run[n] EXCEPT !.pc = "finish"]
    <3>1. run' = [run EXCEPT ![n] = q] /\ run[n].pc = "rest"
      BY <1>12, <2>1 DEF SendRest, Goto
    <3>2. q \in Run /\ q.pc = "finish" /\ q.sent = run[n].sent
      BY <1>1, <1>2 DEF Run
    <3> HIDE DEF q
    <3> QED
      BY <1>10, <3>1, <3>2
  <2>2. CASE Remaining(n) # {}
    <3>1. PICK k \in Remaining(n) : SendCard(n, run[n].items[k])
      BY <1>12, <2>2 DEF SendRest
    <3>2. /\ k \in DOMAIN run[n].items /\ run[n].items[k] \notin Members(run[n].sent)
          /\ run[n].pc = "rest"
      BY <1>12 DEF Remaining, SendRest
    <3> QED
      BY <3>1, <3>2, Brings
  <2> QED
    BY <2>1, <2>2
<1>13. CASE OpenStream(n)
  BY <1>13, Opens
<1>14. CASE Finish(n)
  BY <1>14, Closed DEF Finish
<1> QED
  BY <1>4, <1>5, <1>6, <1>7, <1>8, <1>9, <1>11, <1>12, <1>13, <1>14 DEF Handler, Model

LEMMA StepStream == IInv /\ [Next]_vars => Sees
<1> SUFFICES ASSUME IInv, [Next]_vars PROVE Sees
  OBVIOUS
<1>1. ASSUME UNCHANGED run PROVE Sees
  BY <1>1 DEF Sees, StreamPhases, Sent, StreamPhase
<1>2. ASSUME NEW p \in Prompts, Submit(p) PROVE Sees
  <2> DEFINE n == made + 1
             q == [Unborn EXCEPT !.pc = "gate", !.prompt = p]
  <2>1. n \in Runs /\ n > made
    BY <1>2, BoundsAssumption DEF Submit, IInv, TypeOK, Runs
  <2>2. run[n] = Unborn /\ run' = [run EXCEPT ![n] = q]
    BY <1>2, <2>1 DEF Submit, IInv, RunsOK
  <2>3. Unborn.pc = "unborn" /\ Unborn.sent = <<>> /\ Unborn \in Run
    BY UnbornOK DEF Unborn
  <2>4. "gate" \in Early /\ "gate" \in Phases /\ "unborn" \in Early
    BY PhaseSets DEF Early
  <2>5. q \in Run /\ q.pc = "gate" /\ q.sent = Unborn.sent
    BY <2>3, <2>4 DEF Run
  <2> HIDE DEF q, n
  <2> QED
    BY <2>1, <2>2, <2>3, <2>4, <2>5, EarlyStutters
<1>3. ASSUME NEW n \in Runs, Disconnect(n) \/ Break(n) PROVE Sees
  BY <1>3, Closed, BreakCloses, Ends DEF Disconnect, IInv
<1>4. ASSUME NEW n \in Runs, NEW k \in 1..Limit, RerankLine(n, k) PROVE Sees
  BY <1>4, Brings DEF RerankLine, Pick
<1>5. CASE Leave
  BY <1>1, <1>5 DEF Leave
<1>6. ASSUME NEW n \in Runs, Receive(n) PROVE Sees
  BY <1>1, <1>6 DEF Receive
<1>7. CASE UNCHANGED vars
  BY <1>1, <1>7 DEF vars
<1> QED
  BY <1>2, <1>3, <1>4, <1>5, <1>6, <1>7, ServerSees DEF Next

(* Each search is a stream that opens once, brings each card at most once, *)
(* and brings nothing after its end, whatever breaks.                      *)
THEOREM SearchImplementsStream == Spec => ImplementsCardStream
<1>1. IInv /\ [Next]_vars => [Stream!Next]_Stream!vars
  BY StepStream DEF Sees, StreamPhases, Sent, Stream!vars
<1>2. Spec => Stream!Spec
  BY <1>1, InitStream, Invariance, PTL DEF Spec, Stream!Spec
<1> QED
  BY <1>2 DEF ImplementsCardStream

(* What CardStream promises holds of every search: what it has sent only   *)
(* grows, at the end and only while it is open; what is over stays over    *)
(* (routes.py:211-233).                                                    *)
StreamGrows(n) ==
    /\ Prefix(Sent[n], Sent'[n])
    /\ Sent'[n] # Sent[n] => StreamPhases[n] = "open" /\ StreamPhases'[n] = "open"
    /\ StreamPhases[n] = "over" => StreamPhases'[n] = "over"
    /\ StreamPhases[n] = "open" => StreamPhases'[n] # "unborn"
StreamsOnlyGrow == [][\A n \in Runs : StreamGrows(n)]_vars

(* No search sends a card twice.                                           *)
Once(s) == \A j, k \in DOMAIN s : s[j] = s[k] => j = k
SentOnce == \A n \in Runs : Once(Sent[n])

(* The steps of CardStream, as they move one stream.                       *)
LEMMA StreamStep ==
    ASSUME IInv, Sees, NEW n \in Runs
    PROVE  \/ Sent'[n] = Sent[n] /\ StreamPhases'[n] = StreamPhases[n]
           \/ /\ Sent'[n] = Sent[n]
              /\ \/ StreamPhases[n] = "unborn" /\ StreamPhases'[n] = "open"
                 \/ StreamPhases'[n] = "over"
           \/ /\ StreamPhases[n] = "open" /\ StreamPhases'[n] = "open"
              /\ \E c \in Cards : /\ c \notin Members(Sent[n])
                                  /\ Sent'[n] = Append(Sent[n], c)
<1>1. CASE UNCHANGED <<StreamPhases, Sent>>
  BY <1>1
<1>2. ASSUME NEW m \in Runs, NEW p, StreamPhases' = [StreamPhases EXCEPT ![m] = p]
      PROVE  StreamPhases'[n] = IF n = m THEN p ELSE StreamPhases[n]
  BY <1>2 DEF StreamPhases
<1>3. ASSUME NEW m \in Runs, Stream!Open(m) PROVE
         /\ Sent'[n] = Sent[n]
         /\ \/ StreamPhases'[n] = StreamPhases[n]
            \/ StreamPhases[n] = "unborn" /\ StreamPhases'[n] = "open"
  <2>1. /\ StreamPhases[m] = "unborn" /\ StreamPhases' = [StreamPhases EXCEPT ![m] = "open"]
        /\ Sent' = Sent
    BY <1>3 DEF Stream!Open, StreamPhases, Sent
  <2> QED
    BY <1>2, <2>1
<1>4. ASSUME NEW m \in Runs, Stream!End(m) PROVE
         /\ Sent'[n] = Sent[n]
         /\ StreamPhases'[n] = StreamPhases[n] \/ StreamPhases'[n] = "over"
  <2>1. StreamPhases' = [StreamPhases EXCEPT ![m] = "over"] /\ Sent' = Sent
    BY <1>4 DEF Stream!End, StreamPhases, Sent
  <2> QED
    BY <1>2, <2>1
<1>5. ASSUME NEW m \in Runs, NEW c \in Cards, Stream!Bring(m, c) PROVE
         /\ StreamPhases'[n] = StreamPhases[n]
         /\ \/ Sent'[n] = Sent[n]
            \/ /\ StreamPhases[n] = "open" /\ c \notin Members(Sent[n])
               /\ Sent'[n] = Append(Sent[n], c)
  <2>1. /\ StreamPhases[m] = "open" /\ StreamPhases' = StreamPhases
        /\ Sent' = [Sent EXCEPT ![m] = Append(Sent[m], c)] /\ c \notin Members(Sent[m])
    BY <1>5 DEF Stream!Bring, Stream!Brought, StreamPhases, Sent, Members
  <2>2. Sent'[n] = IF n = m THEN Append(Sent[m], c) ELSE Sent[n]
    BY <2>1 DEF Sent
  <2> QED
    BY <2>1, <2>2
<1> QED
  BY <1>1, <1>3, <1>4, <1>5 DEF Sees, Stream!Next

(* A stream of cards only grows, and only while it is open, whatever       *)
(* breaks (routes.py:211-233).                                             *)
THEOREM StreamsGrowWhileOpen == Spec => StreamsOnlyGrow
<1>1. ASSUME IInv, [Next]_vars, NEW n \in Runs PROVE StreamGrows(n)
  <2>1. Sent[n] \in Seq(Cards)
    BY <1>1 DEF Sent, IInv, TypeOK, Run
  <2>2. Prefix(Sent[n], Sent[n])
    BY <2>1 DEF Prefix
  <2>3. ASSUME NEW c \in Cards PROVE Prefix(Sent[n], Append(Sent[n], c))
    BY <2>1, Appended DEF Prefix
  <2> QED
    BY <1>1, <2>2, <2>3, StepStream, StreamStep DEF StreamGrows
<1>2. IInv /\ [Next]_vars => [\A n \in Runs : StreamGrows(n)]_vars
  BY <1>1
<1> QED
  BY <1>2, Invariance, PTL DEF Spec, StreamsOnlyGrow

LEMMA AlwaysSentOnce == Spec => []SentOnce
<1>1. Init => SentOnce
  BY DEF Init, Unborn, SentOnce, Once, Sent
<1>2. ASSUME IInv, SentOnce, [Next]_vars, NEW n \in Runs PROVE Once(Sent'[n])
  <2>1. Sent[n] \in Seq(Cards) /\ Once(Sent[n])
    BY <1>2 DEF SentOnce, Sent, IInv, TypeOK, Run
  <2>2. ASSUME NEW c \in Cards, c \notin Members(Sent[n]) PROVE Once(Append(Sent[n], c))
    <3>1. PICK s : s = Sent[n]
      OBVIOUS
    <3>2. PICK t : t = Append(s, c)
      OBVIOUS
    <3>3. /\ DOMAIN s = 1..Len(s) /\ Len(s) \in Nat /\ DOMAIN t = 1..Len(s) + 1
          /\ \A k \in DOMAIN s : t[k] = s[k]
          /\ t[Len(s) + 1] = c
      BY <2>1, <3>1, <3>2, Appended
    <3>4. \A k \in DOMAIN s : s[k] # c
      BY <2>2, <3>1 DEF Members
    <3>5. \A k \in DOMAIN t : k \in DOMAIN s \/ k = Len(s) + 1
      BY <3>3
    <3>6. Once(s)
      BY <2>1, <3>1
    <3>7. Once(t)
      BY <3>3, <3>4, <3>5, <3>6 DEF Once
    <3> QED
      BY <3>1, <3>2, <3>7
  <2> QED
    BY <1>2, <2>1, <2>2, StepStream, StreamStep
<1>3. IInv /\ SentOnce /\ [Next]_vars => SentOnce'
  BY <1>2 DEF SentOnce
<1> QED
  BY <1>1, <1>3, Invariance, PTL DEF Spec

(* The page never shows a card twice, though the re-ranker may name it     *)
(* again and the rest is sent after it (routes.py:222-232, page.tsx:84).   *)
NoCardTwice == Once(page.cards)

(* The page never shows a card twice (routes.py:222-232, page.tsx:84).     *)
THEOREM PageRepeatsNoCard == Spec => []NoCardTwice
<1>1. ASSUME IInv, SentOnce, OwnCards PROVE NoCardTwice
  <2>1. CASE page.cur = 0
    BY <1>1, <2>1 DEF NoCardTwice, Once, IInv, PageOK, Fresh
  <2>2. CASE page.cur # 0
    <3>1. PICK s, t : s = page.cards /\ t = run[page.cur].sent
      OBVIOUS
    <3>2. page.cur \in Runs /\ Prefix(s, t) /\ s \in Seq(Cards) /\ t \in Seq(Cards)
      BY <1>1, <2>2, <3>1, BoundsAssumption DEF OwnCards, IInv, TypeOK, Page, Run, Runs
    <3>3. Once(t)
      BY <1>1, <3>1, <3>2 DEF SentOnce, Sent
    <3>4. \A k \in DOMAIN s : k \in DOMAIN t /\ s[k] = t[k]
      BY <3>2 DEF Prefix
    <3> QED
      BY <3>1, <3>3, <3>4 DEF NoCardTwice, Once
  <2> QED
    BY <2>1, <2>2
<1> QED
  BY <1>1, Invariance, OwnCardsOnly, AlwaysSentOnce, PTL
==============================================================================
