------------------------------ MODULE MCIngest ------------------------------
(* Instances of Ingest for TLC.                                            *)
EXTENDS Ingest, TLC

CONSTANTS s1, s2, u1, u2, u3, jazz, jazzTrio, blank, day1, day2

(* The two names are in the band of the adjudicator.                       *)
Likeness ==
    [p \in {jazz, jazzTrio, blank} \X {jazz, jazzTrio, blank} |->
        IF blank \in {p[1], p[2]} THEN 0 ELSE IF p[1] = p[2] THEN 100 ELSE 80]

On(url, name, block) == [url |-> url, name |-> name, block |-> block]
(* Records alike on one page and across sources, a card that is renamed,   *)
(* a name that is all noise, and one event listed on two days.             *)
Listings ==
    [s \in {s1, s2} |->
        IF s = s1 THEN {<<On(u1, jazz, day1), On(u2, jazz, day1)>>,
                        <<On(u2, jazz, day1), On(u1, blank, day1)>>}
        ELSE {<<On(u2, jazz, day1)>>, <<On(u3, jazz, day2), On(u3, jazzTrio, day1)>>}]
=============================================================================
