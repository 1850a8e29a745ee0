----------------------------- MODULE Retrieval ------------------------------
(***************************************************************************)
(* Hybrid retrieval: backend/app/retrieval/search.py.                      *)
(*                                                                         *)
(* A leg is the list of cards one query ranks, at most Pool long, after    *)
(* the filters of the intent: the lexical leg by the match of the name,    *)
(* the semantic leg by the distance of the vectors.  Reciprocal rank       *)
(* fusion gives a card 1/(K + rank) for each leg it is in; a score is kept *)
(* as a fraction, so that two of them compare exactly.                     *)
(***************************************************************************)
EXTENDS Naturals, Sequences, FiniteSets

CONSTANTS
    Cards,  \* cards of the catalogue
    K,      \* RRF_K
    Pool,   \* CANDIDATE_POOL: the most cards of a leg
    Limit   \* the most candidates kept

ASSUME FusionAssumption == K \in Nat /\ Pool \in Nat /\ Limit \in Nat

Members(s) == {s[k] : k \in DOMAIN s}
IsLeg(s) ==
    /\ s \in Seq(Cards) /\ Len(s) <= Pool
    /\ \A j, k \in DOMAIN s : s[j] = s[k] => j = k

(* The row a leg gives to card c.                                          *)
RankIn(s, c) == CHOOSE k \in DOMAIN s : s[k] = c

(* The score of c: a sum of at most two fractions.                         *)
Share(s, c) ==
    IF c \in Members(s) THEN [num |-> 1, den |-> K + RankIn(s, c)] ELSE [num |-> 0, den |-> 1]
VectorsOnly(lex, sem, c) == Share(sem, c)
Score(lex, sem, c) ==
    LET l == Share(lex, c)
        m == Share(sem, c)
    IN  [num |-> l.num * m.den + m.num * l.den, den |-> l.den * m.den]
Above(x, y) == x.num * y.den > y.num * x.den

Candidates(lex, sem) == Members(lex) \cup Members(sem)
Beating(lex, sem, c) ==
    {d \in Candidates(lex, sem) : Above(Score(lex, sem, d), Score(lex, sem, c))}

(* The fused list: by score, equal scores in the order `tie` the database  *)
(* happens to return them in, cut at Limit.                                *)
Before(lex, sem, tie, c) ==
    Beating(lex, sem, c) \cup
    {d \in Candidates(lex, sem) : tie[d] < tie[c] /\ c \notin Beating(lex, sem, d)}
Cut(n, m) == IF n < m THEN n ELSE m
Fused(lex, sem, tie) ==
    [k \in 1..Cut(Cardinality(Candidates(lex, sem)), Limit) |->
        CHOOSE c \in Candidates(lex, sem) : Cardinality(Before(lex, sem, tie, c)) = k - 1]
=============================================================================
