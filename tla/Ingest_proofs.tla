---------------------------- MODULE Ingest_proofs ----------------------------
(***************************************************************************)
(* Ingest for any sources, pages, names, thresholds, batches and runs.     *)
(* The vectors are right because a card is only written by the jobs of its *)
(* own source, whose runs are in order, and because a job keeps for each   *)
(* record no vector but that of its text; nothing that was stored goes.    *)
(***************************************************************************)
EXTENDS Ingest, FiniteSetTheorems, SequenceTheorems, TLAPS

(* The part of the type that the proofs use: all but the history.          *)
Typed ==
    /\ cards \in [Keys -> Card \cup {None}]
    /\ job \in [Sources -> Job]
    /\ runs \in 0..MaxRuns

OwnText(s, j, i) == j.canonical[i].vec \in {None, <<<<s, j.canonical[i].item.url>>, j.rev>>}

(* Job j of source s over the cards c, when r runs have started.           *)
JobOK(s, j, c, r) ==
    /\ j.next >= 1
    /\ j.pc # "idle" => j.rev \in 1..r
    /\ \A k \in Keys : j.existing[k] # None => c[k] # None
    /\ \A m \in j.merges : j.existing[m[1]] # None
    /\ \A i \in DOMAIN j.canonical : OwnText(s, j, i)
    /\ j.pc # "idle" => \A u \in Urls : c[<<s, u>>] # None => c[<<s, u>>].rev <= j.rev

CardOK(k, c, r) ==
    c # None => c.rev <= r /\ (c.vec # None => c.vec[1] = k /\ c.vec[2] <= c.rev)

AllCards == \A k \in Keys : CardOK(k, cards[k], runs)
AllJobs == \A s \in Sources : JobOK(s, job[s], cards, runs)

LEMMA IdleIsOK ==
    ASSUME NEW s, NEW c, NEW r
    PROVE  Idle \in Job /\ JobOK(s, Idle, c, r)
<1>1. /\ Idle.pc = "idle" /\ Idle.rev = 0 /\ Idle.page = <<>> /\ Idle.next = 1
      /\ Idle.existing = NoCatalogue /\ Idle.merges = {} /\ Idle.canonical = <<>>
      /\ Idle.alone = TRUE /\ Idle.folds = {}
  BY DEF Idle
<1>2. NoCatalogue \in [Keys -> Card \cup {None}] /\ \A k \in Keys : NoCatalogue[k] = None
  BY DEF NoCatalogue
<1>3. Idle \in Job
  <2>1. 0 \in 0..MaxRuns /\ 1 \in Nat /\ "idle" \in Steps
    BY BoundsAssumption DEF Steps
  <2> QED
    BY <1>2, <2>1 DEF Idle, Job
<1>4. JobOK(s, Idle, c, r)
  BY <1>1, <1>2 DEF JobOK
<1> QED
  BY <1>3, <1>4

(* A step of one job that writes no card.                                  *)
LEMMA OnlyJob ==
    ASSUME Typed, AllCards, AllJobs, NEW s \in Sources, NEW j \in Job,
           job' = [job EXCEPT ![s] = j], cards' = cards,
           runs' \in 0..MaxRuns, runs <= runs', JobOK(s, j, cards, runs')
    PROVE  Typed' /\ AllCards' /\ AllJobs'
<1>1. Typed' /\ \A t \in Sources : job'[t] = IF t = s THEN j ELSE job[t]
  BY DEF Typed
<1>2. runs \in Nat /\ runs' \in Nat /\ MaxRuns \in Nat
  BY BoundsAssumption DEF Typed
<1>3. ASSUME NEW t \in Sources PROVE JobOK(t, job'[t], cards', runs')
  <2>1. CASE t = s
    BY <1>1, <2>1
  <2>2. CASE t # s
    <3>1. job'[t] = job[t] /\ JobOK(t, job[t], cards, runs)
      BY <1>1, <2>2 DEF AllJobs
    <3> QED
      BY <1>2, <3>1 DEF JobOK
  <2> QED
    BY <2>1, <2>2
<1>4. ASSUME NEW k \in Keys PROVE CardOK(k, cards'[k], runs')
  <2>1. cards'[k] = cards[k] /\ CardOK(k, cards[k], runs) /\ cards[k] \in Card \cup {None}
    BY DEF AllCards, Typed
  <2> QED
    BY <1>2, <2>1 DEF CardOK, Card
<1> QED
  BY <1>1, <1>3, <1>4 DEF AllCards, AllJobs

(* A job's statement: the other jobs only learn that they are not alone.   *)
LEMMA Writes ==
    ASSUME Typed, AllCards, AllJobs, NEW s \in Sources, NEW j \in Job,
           job' = [job EXCEPT ![s] = j] \/ Commits(s, j),
           cards' \in [Keys -> Card \cup {None}], runs' = runs,
           \A k \in Keys : CardOK(k, cards'[k], runs),
           \A k \in Keys : cards[k] # None => cards'[k] # None,
           \A t \in Sources, u \in Urls : t # s /\ cards'[<<t, u>>] # None =>
               cards[<<t, u>>] # None /\ cards'[<<t, u>>].rev = cards[<<t, u>>].rev,
           JobOK(s, j, cards', runs)
    PROVE  Typed' /\ AllCards' /\ AllJobs'
<1>1. ASSUME NEW t \in Sources, t # s PROVE job'[t] \in Job /\ JobOK(t, job'[t], cards', runs')
  <2>1. job[t] \in Job /\ JobOK(t, job[t], cards, runs)
    BY DEF Typed, AllJobs
  <2>2. PICK b \in BOOLEAN : job'[t] = job[t] \/ job'[t] = [job[t] EXCEPT !.alone = b]
    BY <1>1 DEF Commits, Typed
  <2>3. PICK r : r = [job[t] EXCEPT !.alone = b]
    OBVIOUS
  <2>4. /\ r \in Job /\ r.pc = job[t].pc /\ r.rev = job[t].rev /\ r.next = job[t].next
        /\ r.existing = job[t].existing /\ r.merges = job[t].merges
        /\ r.canonical = job[t].canonical
    BY <2>1, <2>3 DEF Job
  <2>5. JobOK(t, r, cards', runs)
    BY <1>1, <2>1, <2>4 DEF JobOK, OwnText
  <2>6. JobOK(t, job[t], cards', runs)
    BY <1>1, <2>1 DEF JobOK, OwnText
  <2> QED
    BY <2>1, <2>2, <2>3, <2>4, <2>5, <2>6
<1>2. job'[s] = j
  BY DEF Commits, Typed
<1>3. DOMAIN job' = Sources /\ job' = [t \in Sources |-> job'[t]]
  BY DEF Commits, Typed
<1>4. Typed'
  BY <1>1, <1>2, <1>3 DEF Typed
<1>5. AllJobs'
  BY <1>1, <1>2 DEF AllJobs
<1> QED
  BY <1>4, <1>5 DEF AllCards

LEMMA StartMoves ==
    ASSUME Typed, AllCards, AllJobs, NEW s \in Sources, Start(s)
    PROVE  Typed' /\ AllCards' /\ AllJobs' /\ cards' = cards
<1>1. PICK page \in Pages[s] :
          job' = [job EXCEPT ![s] = [Idle EXCEPT
                     !.pc = "dedup", !.rev = runs + 1, !.page = page, !.existing = cards]]
  BY DEF Start
<1>2. page \in Seq(Record)
  BY PagesAssumption
<1>3. runs' = runs + 1 /\ runs' \in 1..MaxRuns /\ runs \in Nat /\ cards' = cards
  BY BoundsAssumption DEF Start, Typed
<1>4. PICK d, n : d = Idle /\ n = runs + 1
  OBVIOUS
<1>5. d \in Job /\ d.merges = {} /\ d.canonical = <<>> /\ d.next = 1
  BY <1>4, IdleIsOK DEF Idle
<1>6. PICK j : j = [d EXCEPT !.pc = "dedup", !.rev = n, !.page = page, !.existing = cards]
  OBVIOUS
<1>7. n \in 0..MaxRuns /\ "dedup" \in Steps
  BY <1>3, <1>4 DEF Steps
<1>8. /\ j \in Job /\ j.pc = "dedup" /\ j.rev = n /\ j.next = 1 /\ j.existing = cards
      /\ j.merges = {} /\ j.canonical = <<>>
  BY <1>2, <1>5, <1>6, <1>7 DEF Job, Typed
<1>9. ASSUME NEW u \in Urls, cards[<<s, u>>] # None PROVE cards[<<s, u>>].rev <= n
  <2>1. <<s, u>> \in Keys
    BY DEF Keys
  <2>2. cards[<<s, u>>].rev <= runs /\ cards[<<s, u>>] \in Card
    BY <1>9, <2>1 DEF AllCards, CardOK, Typed
  <2> QED
    BY <1>3, <1>4, <2>2 DEF Card
<1>10. JobOK(s, j, cards, runs')
  BY <1>3, <1>4, <1>8, <1>9 DEF JobOK
<1>11. job' = [job EXCEPT ![s] = j] /\ runs' \in 0..MaxRuns /\ runs <= runs'
  BY <1>1, <1>3, <1>4, <1>6
<1> QED
  BY <1>3, <1>8, <1>10, <1>11, OnlyJob

(* The candidates of a record are candidates, or None.                     *)
LEMMA CandidatesAreKeys ==
    ASSUME NEW name, NEW like, NEW c \in Candidates(name, like)
    PROVE  c = None \/ c \in DOMAIN like
BY DEF Candidates, Matches

LEMMA DedupMoves ==
    ASSUME Typed, AllCards, AllJobs, NEW s \in Sources, Dedup(s)
    PROVE  Typed' /\ AllCards' /\ AllJobs' /\ cards' = cards
<1>1. PICK old : old = job[s]
  OBVIOUS
<1>2. old \in Job /\ JobOK(s, old, cards, runs)
  BY <1>1 DEF Typed, AllJobs
<1>3. PICK n, item, ref : n = old.next + 1 /\ item = old.page[old.next] /\ ref = <<s, item.url>>
  OBVIOUS
<1>4. PICK j : j = [old EXCEPT !.next = n]
  OBVIOUS
<1>5. old.next \in Nat /\ old.next >= 1 /\ old.next <= Len(old.page) /\ old.page \in Seq(Record)
  BY <1>1, <1>2 DEF Job, JobOK, Dedup
<1>6. item \in Record /\ ref \in Keys
  <2>1. item \in Record
    BY <1>3, <1>5
  <2>2. item.url \in Urls
    BY <2>1 DEF Record
  <2> QED
    BY <1>3, <2>1, <2>2 DEF Keys
<1>7. n \in Nat /\ n >= 1
  BY <1>3, <1>5
<1>8. /\ j \in Job /\ j.pc = old.pc /\ j.rev = old.rev /\ j.existing = old.existing
      /\ j.merges = old.merges /\ j.canonical = old.canonical /\ j.next = n
      /\ j.page = old.page
  BY <1>2, <1>4, <1>7 DEF Job
<1>9. JobOK(s, j, cards, runs)
  BY <1>2, <1>7, <1>8 DEF JobOK, OwnText
<1>10. cards' = cards /\ runs' = runs /\ runs \in 0..MaxRuns /\ runs <= runs
  <2>1. cards' = cards /\ runs' = runs
    BY DEF Dedup
  <2>2. runs \in 0..MaxRuns
    BY DEF Typed
  <2> QED
    BY <2>1, <2>2, BoundsAssumption
<1>11. \E k \in Candidates(item.name, ExistingNames(s, j, item)) :
           \/ k # None /\ job' = [job EXCEPT ![s] = Merged(j, k, ref)]
           \/ /\ k = None
              /\ \E i \in Candidates(item.name, BatchNames(j, item)) :
                     job' = [job EXCEPT ![s] =
                                IF i # None THEN Folded(j, i, ref) ELSE Kept(j, item, ref)]
  <2>1. /\ j = [job[s] EXCEPT !.next = @ + 1] /\ ref = <<s, item.url>>
        /\ item = j.page[job[s].next]
    BY <1>1, <1>3, <1>4, <1>8
  <2> QED
    BY <2>1 DEF Dedup
<1>12. ASSUME NEW k \in Candidates(item.name, ExistingNames(s, j, item)), k # None,
              job' = [job EXCEPT ![s] = Merged(j, k, ref)]
       PROVE  Typed' /\ AllCards' /\ AllJobs'
  <2>1. k \in Keys /\ j.existing[k] # None
    BY <1>12, CandidatesAreKeys DEF ExistingNames, OfOtherUrl, SameBlock
  <2>2. PICK ms : ms = j.merges \cup {<<k, ref>>}
    OBVIOUS
  <2>3. ms \in SUBSET (Keys \X Keys) /\ \A m \in ms : j.existing[m[1]] # None
    BY <1>6, <1>8, <1>9, <2>1, <2>2 DEF Job, JobOK
  <2>4. PICK r : r = [j EXCEPT !.merges = ms]
    OBVIOUS
  <2>5. /\ r \in Job /\ r.pc = j.pc /\ r.rev = j.rev /\ r.existing = j.existing
        /\ r.merges = ms /\ r.canonical = j.canonical /\ r.next = j.next
    BY <1>8, <2>3, <2>4 DEF Job
  <2>6. JobOK(s, r, cards, runs)
    BY <1>9, <2>3, <2>5 DEF JobOK, OwnText
  <2>7. r = Merged(j, k, ref)
    BY <2>2, <2>4 DEF Merged
  <2> QED
    BY <1>10, <1>12, <2>5, <2>6, <2>7, OnlyJob
<1>13. ASSUME NEW cs \in Seq(Canonical), job' = [job EXCEPT ![s] = [j EXCEPT !.canonical = cs]],
              \A i \in DOMAIN cs : \/ cs[i].vec = None
                                   \/ /\ i \in DOMAIN j.canonical
                                      /\ cs[i].vec = j.canonical[i].vec
                                      /\ cs[i].item = j.canonical[i].item
       PROVE  Typed' /\ AllCards' /\ AllJobs'
  <2>1. PICK r : r = [j EXCEPT !.canonical = cs]
    OBVIOUS
  <2>2. /\ r \in Job /\ r.pc = j.pc /\ r.rev = j.rev /\ r.existing = j.existing
        /\ r.merges = j.merges /\ r.canonical = cs /\ r.next = j.next
    BY <1>8, <2>1 DEF Job
  <2>3. \A i \in DOMAIN cs : OwnText(s, r, i)
    BY <1>9, <1>13, <2>2 DEF JobOK, OwnText
  <2>4. JobOK(s, r, cards, runs)
    BY <1>9, <2>2, <2>3 DEF JobOK
  <2> QED
    BY <1>10, <1>13, <2>1, <2>2, <2>4, OnlyJob
<1>14. ASSUME job' = [job EXCEPT ![s] = Kept(j, item, ref)]
       PROVE  Typed' /\ AllCards' /\ AllJobs'
  <2>1. PICK c : c = [item |-> item, sources |-> {ref}, vec |-> None]
    OBVIOUS
  <2>2. c \in Canonical /\ c.vec = None
    BY <1>6, <2>1 DEF Canonical
  <2>3. PICK cs : cs = Append(j.canonical, c)
    OBVIOUS
  <2>4. j.canonical \in Seq(Canonical)
    BY <1>8 DEF Job
  <2>5. /\ cs \in Seq(Canonical)
        /\ \A i \in DOMAIN cs : \/ cs[i] = c
                                \/ i \in DOMAIN j.canonical /\ cs[i] = j.canonical[i]
    BY <2>2, <2>3, <2>4
  <2>6. job' = [job EXCEPT ![s] = [j EXCEPT !.canonical = cs]]
    BY <1>14, <2>1, <2>3 DEF Kept
  <2> QED
    BY <1>13, <2>2, <2>5, <2>6
<1>15. ASSUME NEW i \in Candidates(item.name, BatchNames(j, item)), i # None,
              job' = [job EXCEPT ![s] = Folded(j, i, ref)]
       PROVE  Typed' /\ AllCards' /\ AllJobs'
  <2>1. i \in DOMAIN j.canonical
    BY <1>15, CandidatesAreKeys DEF BatchNames
  <2>2. j.canonical \in Seq(Canonical)
    BY <1>8 DEF Job
  <2>3. PICK c : c = [j.canonical[i] EXCEPT !.sources = @ \cup {ref}]
    OBVIOUS
  <2>4. j.canonical[i] \in Canonical
    BY <2>1, <2>2
  <2>5. c \in Canonical /\ c.vec = j.canonical[i].vec /\ c.item = j.canonical[i].item
    BY <1>6, <2>3, <2>4 DEF Canonical
  <2>6. PICK cs : cs = [j.canonical EXCEPT ![i] = c]
    OBVIOUS
  <2>7. /\ cs \in Seq(Canonical) /\ DOMAIN cs = DOMAIN j.canonical
        /\ \A l \in DOMAIN cs : cs[l] = IF l = i THEN c ELSE j.canonical[l]
    BY <2>1, <2>2, <2>5, <2>6
  <2>8. job' = [job EXCEPT ![s] = [j EXCEPT !.canonical = cs]]
    BY <1>15, <2>3, <2>6 DEF Folded
  <2> QED
    BY <1>13, <2>5, <2>7, <2>8
<1> QED
  BY <1>10, <1>11, <1>12, <1>14, <1>15

(* Jobs that end or die.                                                   *)
LEMMA EndMoves ==
    ASSUME Typed, AllCards, AllJobs, NEW s \in Sources, Crash(s) \/ Refused(s)
    PROVE  Typed' /\ AllCards' /\ AllJobs' /\ cards' = cards
<1>1. cards' = cards /\ runs' = runs /\ runs <= runs /\ job' = [job EXCEPT ![s] = Idle]
  BY BoundsAssumption DEF Crash, Refused, Typed
<1> QED
  BY <1>1, IdleIsOK, OnlyJob DEF Typed

LEMMA EndEmbedMoves ==
    ASSUME Typed, AllCards, AllJobs, NEW s \in Sources, EndEmbed(s)
    PROVE  Typed' /\ AllCards' /\ AllJobs' /\ cards' = cards
<1>1. cards' = cards /\ runs' = runs /\ runs <= runs /\ job[s].pc = "embed"
  BY BoundsAssumption DEF EndEmbed, Typed
<1>2. PICK j : j = [job[s] EXCEPT !.pc = "upsert"]
  OBVIOUS
<1>3. job[s] \in Job /\ JobOK(s, job[s], cards, runs) /\ "upsert" \in Steps
  BY DEF Typed, AllJobs, Steps
<1>4. /\ j \in Job /\ j.rev = job[s].rev /\ j.existing = job[s].existing
      /\ j.merges = job[s].merges /\ j.canonical = job[s].canonical /\ j.next = job[s].next
  BY <1>2, <1>3 DEF Job
<1>5. JobOK(s, j, cards, runs)
  BY <1>1, <1>3, <1>4 DEF JobOK, OwnText
<1>6. job' = [job EXCEPT ![s] = j]
  BY <1>2 DEF EndEmbed
<1> QED
  BY <1>1, <1>4, <1>5, <1>6, OnlyJob DEF Typed

----------------------------------------------------------------------------
(* A merge writes a card that is there, and only its list of sources.      *)
LEMMA MergedOne ==
    ASSUME Typed, NEW s, NEW j \in Job, JobOK(s, j, cards, runs), NEW k \in Keys
    PROVE  /\ MergedCards(j)[k] \in Card \cup {None}
           /\ cards[k] # None => /\ MergedCards(j)[k] # None
                                 /\ MergedCards(j)[k].rev = cards[k].rev
                                 /\ MergedCards(j)[k].vec = cards[k].vec
                                 /\ MergedCards(j)[k].name = cards[k].name
                                 /\ MergedCards(j)[k].block = cards[k].block
           /\ cards[k] = None => MergedCards(j)[k] = None
<1>1. cards[k] \in Card \cup {None} /\ j.existing[k] \in Card \cup {None}
  BY DEF Typed, Job
<1>2. CASE ~ \E m \in j.merges : m[1] = k
  BY <1>1, <1>2 DEF MergedCards
<1>3. CASE \E m \in j.merges : m[1] = k
  <2>1. j.existing[k] # None /\ cards[k] # None /\ j.existing[k] \in Card /\ cards[k] \in Card
    BY <1>1, <1>3 DEF JobOK
  <2>2. PICK refs : refs = {m[2] : m \in {m \in j.merges : m[1] = k}}
    OBVIOUS
  <2>3. refs \subseteq Keys
    BY <2>2 DEF Job
  <2>4. MergeSources(j, k) = IF refs \subseteq j.existing[k].sources THEN cards[k].sources
                             ELSE j.existing[k].sources \cup refs
    BY <2>2 DEF MergeSources, Extended
  <2>5. MergeSources(j, k) \in SUBSET Keys
    BY <2>1, <2>3, <2>4 DEF Card
  <2>6. PICK l : l = MergeSources(j, k)
    OBVIOUS
  <2>7. PICK r : r = [cards[k] EXCEPT !.sources = l]
    OBVIOUS
  <2>8. /\ r \in Card /\ r.rev = cards[k].rev /\ r.vec = cards[k].vec
        /\ r.name = cards[k].name /\ r.block = cards[k].block
    BY <2>1, <2>5, <2>6, <2>7 DEF Card
  <2>9. MergedCards(j)[k] = r
    BY <1>3, <2>6, <2>7 DEF MergedCards
  <2> QED
    BY <2>1, <2>8, <2>9, NoneAssumption
<1> QED
  BY <1>2, <1>3

LEMMA CommitMoves ==
    ASSUME Typed, AllCards, AllJobs, NEW s \in Sources, CommitMerges(s)
    PROVE  /\ Typed' /\ AllCards' /\ AllJobs'
           /\ \A k \in Keys : cards[k] # None => cards'[k] # None /\ cards'[k].vec = cards[k].vec
<1>1. PICK old : old = job[s]
  OBVIOUS
<1>2. old \in Job /\ JobOK(s, old, cards, runs) /\ old.pc = "dedup"
  BY <1>1 DEF Typed, AllJobs, CommitMerges
<1>3. PICK j : j = [old EXCEPT !.pc = "embed", !.next = 1, !.existing = NoCatalogue, !.merges = {}]
  OBVIOUS
<1>4. /\ NoCatalogue \in [Keys -> Card \cup {None}]
      /\ \A k \in Keys : NoCatalogue[k] = None
      /\ "embed" \in Steps
  BY DEF NoCatalogue, Steps
<1>5. /\ j \in Job /\ j.rev = old.rev /\ j.existing = NoCatalogue /\ j.merges = {}
      /\ j.canonical = old.canonical /\ j.next = 1
  BY <1>2, <1>3, <1>4 DEF Job
<1>6. cards' = MergedCards(old) /\ runs' = runs
  BY <1>1 DEF CommitMerges
<1>7. \A k \in Keys : /\ cards'[k] \in Card \cup {None}
                      /\ cards[k] # None => /\ cards'[k] # None /\ cards'[k].rev = cards[k].rev
                                            /\ cards'[k].vec = cards[k].vec
                      /\ cards[k] = None => cards'[k] = None
  BY <1>2, <1>6, MergedOne
<1>8. cards' \in [Keys -> Card \cup {None}]
  <2>1. cards' = [k \in Keys |-> cards'[k]]
    BY <1>6 DEF MergedCards
  <2> QED
    BY <1>7, <2>1
<1>9. \A k \in Keys : CardOK(k, cards'[k], runs)
  BY <1>7 DEF CardOK, AllCards
<1>10. \A t \in Sources, u \in Urls : cards'[<<t, u>>] # None =>
           cards[<<t, u>>] # None /\ cards'[<<t, u>>].rev = cards[<<t, u>>].rev
  BY <1>7 DEF Keys
<1>11. JobOK(s, j, cards', runs)
  BY <1>2, <1>4, <1>5, <1>10 DEF JobOK, OwnText
<1>12. job' = [job EXCEPT ![s] = j] \/ Commits(s, j)
  BY <1>1, <1>3 DEF CommitMerges
<1> QED
  BY <1>5, <1>6, <1>7, <1>8, <1>9, <1>10, <1>11, <1>12, Writes

----------------------------------------------------------------------------
(* An answer that has a vector for every text gives each record its own.   *)
LEMMA ZippedIsOwn ==
    ASSUME NEW s, NEW j, NEW n \in Nat, DOMAIN j.canonical = 1..n,
           j.next \in Nat, j.next >= 1,
           NEW batch, batch = {i \in DOMAIN j.canonical : i \in j.next .. j.next + BatchSize - 1},
           NEW i \in batch
    PROVE  Zipped(j, s, batch, i) = <<<<s, j.canonical[i].item.url>>, j.rev>>
<1>1. ASSUME NEW c \in batch
      PROVE  c \in Int /\ Cardinality({d \in batch : d < c}) = c - j.next
  <2>1. c \in Int /\ j.next <= c /\ c <= n
    BY BoundsAssumption
  <2>2. {d \in batch : d < c} = j.next .. c - 1
    BY <2>1, BoundsAssumption
  <2>3. PICK a, b : a = j.next /\ b = c - 1
    OBVIOUS
  <2>4. a \in Int /\ b \in Int /\ a <= b + 1
    BY <2>1, <2>3
  <2>5. Cardinality(a..b) = IF a > b THEN 0 ELSE b - a + 1
    BY <2>4, FS_Interval
  <2>6. (IF a > b THEN 0 ELSE b - a + 1) = c - j.next
    BY <2>1, <2>3, <2>4
  <2>7. {d \in batch : d < c} = a..b
    BY <2>2, <2>3
  <2> QED
    BY <2>1, <2>5, <2>6, <2>7
<1>2. PICK match : match = {c \in batch : Cardinality({d \in batch : d < c}) = i - j.next}
  OBVIOUS
<1>3. match = {i}
  BY <1>1, <1>2
<1>4. (CHOOSE c \in match : TRUE) = i
  BY <1>3
<1> QED
  BY <1>2, <1>3, <1>4 DEF Zipped

LEMMA EmbedMoves ==
    ASSUME Typed, AllCards, AllJobs, NEW s \in Sources, Embed(s)
    PROVE  Typed' /\ AllCards' /\ AllJobs' /\ cards' = cards
<1>1. PICK j : j = job[s]
  OBVIOUS
<1>2. /\ j \in Job /\ JobOK(s, j, cards, runs) /\ j.pc = "embed"
      /\ cards' = cards /\ runs' = runs /\ runs <= runs /\ runs \in Nat
  BY <1>1, BoundsAssumption DEF Typed, AllJobs, Embed
<1>3. PICK batch : batch = {i \in DOMAIN j.canonical : i \in j.next .. j.next + BatchSize - 1}
  OBVIOUS
<1>4. PICK answered \in SUBSET batch : job' = [job EXCEPT ![s] = Answer(s, j, answered)]
  BY <1>1, <1>3 DEF Embed, Batch
<1>5. PICK cs : cs = [i \in DOMAIN j.canonical |->
                         IF i \in batch /\ HasKey /\ Accepts(batch, answered)
                         THEN [j.canonical[i] EXCEPT !.vec = Zipped(j, s, answered, i)]
                         ELSE j.canonical[i]]
  OBVIOUS
<1>6. PICK n : n = j.next + BatchSize
  OBVIOUS
<1>7. /\ j.next \in Nat /\ j.next >= 1 /\ n \in Nat /\ n >= 1
      /\ j.canonical \in Seq(Canonical) /\ j.rev \in 1..MaxRuns
  BY <1>2, <1>6, BoundsAssumption DEF Job, JobOK, Typed
<1>8. PICK m \in Nat : DOMAIN j.canonical = 1..m /\ j.canonical \in [1..m -> Canonical]
  BY <1>7, LenProperties
<1>9. ASSUME NEW i \in 1..m
      PROVE  /\ cs[i] \in Canonical /\ cs[i].item = j.canonical[i].item
             /\ cs[i].vec \in {None, <<<<s, j.canonical[i].item.url>>, j.rev>>}
  <2>1. /\ j.canonical[i] \in Canonical /\ j.canonical[i].item \in Record
        /\ j.canonical[i].vec \in {None, <<<<s, j.canonical[i].item.url>>, j.rev>>}
    BY <1>2, <1>8 DEF JobOK, OwnText, Canonical
  <2>2. CASE ~ (i \in batch /\ HasKey /\ Accepts(batch, answered))
    BY <1>5, <1>8, <2>1, <2>2
  <2>3. CASE i \in batch /\ HasKey /\ Accepts(batch, answered)
    <3>1. answered = batch
      BY <2>3 DEF Accepts
    <3>2. PICK v : v = Zipped(j, s, answered, i)
      OBVIOUS
    <3>3. v = <<<<s, j.canonical[i].item.url>>, j.rev>>
      BY <1>3, <1>7, <1>8, <2>3, <3>1, <3>2, ZippedIsOwn
    <3>4. j.canonical[i].item.url \in Urls
      BY <2>1 DEF Record
    <3>5. v \in Texts \cup {None}
      BY <1>7, <3>3, <3>4 DEF Texts, Keys
    <3>6. cs[i] = [j.canonical[i] EXCEPT !.vec = v]
      BY <1>5, <1>8, <2>3, <3>2
    <3>7. cs[i] \in Canonical /\ cs[i].vec = v /\ cs[i].item = j.canonical[i].item
      BY <2>1, <3>5, <3>6 DEF Canonical
    <3> QED
      BY <3>3, <3>7
  <2> QED
    BY <2>2, <2>3
<1>10. DOMAIN cs = 1..m /\ cs \in Seq(Canonical)
  <2>1. DOMAIN cs = 1..m
    BY <1>5, <1>8
  <2>2. cs \in [1..m -> Canonical]
    BY <1>5, <1>9, <2>1
  <2> QED
    BY <2>1, <2>2, SeqDef
<1>11. PICK r : r = [j EXCEPT !.next = n, !.canonical = cs]
  OBVIOUS
<1>12. /\ r \in Job /\ r.pc = "embed" /\ r.rev = j.rev /\ r.existing = j.existing
       /\ r.merges = j.merges /\ r.canonical = cs /\ r.next = n
  BY <1>2, <1>7, <1>10, <1>11 DEF Job
<1>13. JobOK(s, r, cards, runs)
  <2>1. \A i \in DOMAIN r.canonical : OwnText(s, r, i)
    BY <1>9, <1>10, <1>12 DEF OwnText
  <2> QED
    BY <1>2, <1>7, <1>12, <2>1 DEF JobOK
<1>14. job' = [job EXCEPT ![s] = r]
  <2>1. Batch(j) = batch
    BY <1>3 DEF Batch
  <2>2. r = Answer(s, j, answered)
    BY <1>5, <1>6, <1>11, <2>1 DEF Answer
  <2> QED
    BY <1>4, <2>2
<1> QED
  BY <1>2, <1>12, <1>13, <1>14, OnlyJob DEF Typed

----------------------------------------------------------------------------
(* One row of the INSERT: new, or over a card of this source.              *)
LEMMA UpsertedOne ==
    ASSUME Typed, AllCards, NEW s \in Sources, NEW j \in Job, JobOK(s, j, cards, runs),
           j.pc # "idle", NEW i \in Rows(j), NEW k, k = KeyOf(s, j, i),
           NEW r, r = Upserted(j, cards[k], j.canonical[i])
    PROVE  /\ k \in Keys /\ r \in Card /\ r # None /\ r.rev = j.rev /\ CardOK(k, r, runs)
           /\ cards[k] # None /\ cards[k].vec # None => r.vec # None
<1>1. /\ i \in DOMAIN j.canonical /\ j.canonical \in Seq(Canonical)
      /\ j.pc = "upsert" => j.canonical[i].vec # None
  BY DEF Rows, Embedded, Job
<1>2. PICK c : c = j.canonical[i]
  OBVIOUS
<1>3. /\ c \in Canonical /\ c.item \in Record /\ c.vec \in Texts \cup {None}
      /\ c.sources \in SUBSET Keys /\ k = <<s, c.item.url>>
      /\ c.vec \in {None, <<k, j.rev>>}
  <2>1. c \in Canonical
    BY <1>1, <1>2
  <2>2. k = <<s, c.item.url>>
    BY <1>2 DEF KeyOf
  <2>3. c.vec \in {None, <<<<s, c.item.url>>, j.rev>>}
    BY <1>1, <1>2 DEF JobOK, OwnText
  <2> QED
    BY <2>1, <2>2, <2>3 DEF Canonical
<1>4. c.item.url \in Urls /\ c.item.name \in Names /\ c.item.block \in Blocks
  BY <1>3 DEF Record
<1>5. k \in Keys /\ cards[k] \in Card \cup {None}
  BY <1>3, <1>4 DEF Keys, Typed
<1>6. /\ runs \in Nat /\ j.rev \in 1..runs /\ j.rev \in 1..MaxRuns
      /\ cards[k] # None => cards[k].rev <= j.rev
  BY <1>3, <1>4, BoundsAssumption DEF Typed, JobOK
<1>7. CASE cards[k] = None
  <2>1. PICK n : n = j.rev
    OBVIOUS
  <2>2. r = [name |-> c.item.name, block |-> c.item.block, rev |-> n,
             vec |-> c.vec, sources |-> c.sources]
    BY <1>2, <1>7, <2>1 DEF Upserted
  <2>3. r \in Card /\ r.rev = j.rev /\ r.vec = c.vec
    BY <1>3, <1>4, <1>6, <2>1, <2>2 DEF Card
  <2>4. CardOK(k, r, runs)
    BY <1>3, <1>6, <2>3 DEF CardOK
  <2> QED
    BY <1>5, <1>7, <2>3, <2>4, NoneAssumption
<1>8. CASE cards[k] # None
  <2>1. PICK n, b, v, w : n = c.item.name /\ b = c.item.block /\ v = j.rev
                          /\ w = Vector(j, cards[k], c)
    OBVIOUS
  <2>2. cards[k] \in Card /\ cards[k].vec \in Texts \cup {None}
    BY <1>5, <1>8 DEF Card
  <2>3. w = IF j.pc = "upsert" THEN c.vec ELSE cards[k].vec
    BY <2>1 DEF Vector
  <2>4. r = [cards[k] EXCEPT !.name = n, !.block = b, !.rev = v, !.vec = w]
    BY <1>2, <1>8, <2>1 DEF Upserted
  <2>5. w \in Texts \cup {None} /\ n \in Names /\ b \in Blocks /\ v \in 1..MaxRuns
    BY <1>3, <1>4, <1>6, <2>1, <2>2, <2>3
  <2>6. r \in Card /\ r.rev = j.rev /\ r.vec = w
    BY <2>1, <2>2, <2>4, <2>5 DEF Card
  <2>7. w # None => w[1] = k /\ w[2] <= j.rev
    <3>1. CASE j.pc = "upsert"
      BY <1>3, <1>6, <2>3, <3>1
    <3>2. CASE j.pc # "upsert"
      <4>1. w = cards[k].vec
        BY <2>3, <3>2
      <4>2. w # None => w[1] = k /\ w[2] <= cards[k].rev
        BY <1>5, <1>8, <4>1 DEF AllCards, CardOK
      <4>3. w # None => w[2] \in Nat
        BY <2>5 DEF Texts
      <4>4. cards[k].rev \in Nat
        BY <2>2 DEF Card
      <4> QED
        BY <1>6, <1>8, <4>2, <4>3, <4>4
    <3> QED
      BY <3>1, <3>2
  <2>8. cards[k].vec # None => w # None
    BY <1>1, <1>2, <2>3
  <2>9. CardOK(k, r, runs)
    BY <1>6, <2>6, <2>7 DEF CardOK
  <2> QED
    BY <1>5, <2>6, <2>8, <2>9, NoneAssumption
<1> QED
  BY <1>7, <1>8

LEMMA WriteMoves ==
    ASSUME Typed, AllCards, AllJobs, NEW s \in Sources, job[s].pc # "idle",
           NEW j \in Job, Write(s, j),
           \/ j = Idle
           \/ /\ j.rev = job[s].rev /\ j.next = job[s].next /\ j.existing = job[s].existing
              /\ j.merges = job[s].merges /\ j.canonical = job[s].canonical
    PROVE  /\ Typed' /\ AllCards' /\ AllJobs'
           /\ \A k \in Keys : cards[k] # None =>
                  cards'[k] # None /\ (cards[k].vec # None => cards'[k].vec # None)
<1>1. PICK old : old = job[s]
  OBVIOUS
<1>2. old \in Job /\ JobOK(s, old, cards, runs) /\ old.pc # "idle" /\ old.rev \in 1..runs
  BY <1>1 DEF Typed, AllJobs, JobOK
<1>3. cards' = UpsertedCards(s, old) /\ runs' = runs /\ runs \in Nat
  BY <1>1, BoundsAssumption DEF Write, Typed
<1>4. ASSUME NEW k \in Keys
      PROVE  \/ cards'[k] = cards[k]
             \/ \E i \in Rows(old) : /\ KeyOf(s, old, i) = k
                                     /\ cards'[k] = Upserted(old, cards[k], old.canonical[i])
  <2>1. CASE \E i \in Rows(old) : KeyOf(s, old, i) = k
    <3>1. PICK i : i = CHOOSE h \in Rows(old) : KeyOf(s, old, h) = k
      OBVIOUS
    <3>2. i \in Rows(old) /\ KeyOf(s, old, i) = k
      BY <2>1, <3>1
    <3>3. cards'[k] = Upserted(old, cards[k], old.canonical[i])
      BY <1>3, <2>1, <3>1 DEF UpsertedCards
    <3> QED
      BY <3>2, <3>3
  <2>2. CASE ~ \E i \in Rows(old) : KeyOf(s, old, i) = k
    BY <1>3, <2>2 DEF UpsertedCards
  <2> QED
    BY <2>1, <2>2
<1>5. ASSUME NEW k \in Keys
      PROVE  \/ cards'[k] = cards[k]
             \/ /\ k[1] = s /\ cards'[k] \in Card /\ cards'[k] # None
                /\ cards'[k].rev = old.rev /\ CardOK(k, cards'[k], runs)
                /\ cards[k] # None /\ cards[k].vec # None => cards'[k].vec # None
  <2>1. CASE cards'[k] = cards[k]
    BY <2>1
  <2>2. ASSUME NEW i \in Rows(old), KeyOf(s, old, i) = k,
               cards'[k] = Upserted(old, cards[k], old.canonical[i])
        PROVE  /\ k[1] = s /\ cards'[k] \in Card /\ cards'[k] # None
               /\ cards'[k].rev = old.rev /\ CardOK(k, cards'[k], runs)
               /\ cards[k] # None /\ cards[k].vec # None => cards'[k].vec # None
    <3>1. k[1] = s
      BY <2>2 DEF KeyOf
    <3> QED
      BY <1>2, <2>2, <3>1, UpsertedOne
  <2> QED
    BY <1>4, <2>1, <2>2
<1>6. cards' \in [Keys -> Card \cup {None}]
  <2>1. cards' = [k \in Keys |-> cards'[k]]
    BY <1>3 DEF UpsertedCards
  <2>2. \A k \in Keys : cards'[k] \in Card \cup {None}
    BY <1>5 DEF Typed
  <2> QED
    BY <2>1, <2>2
<1>7. \A k \in Keys : CardOK(k, cards'[k], runs)
  BY <1>5 DEF AllCards
<1>8. \A k \in Keys : cards[k] # None =>
          cards'[k] # None /\ (cards[k].vec # None => cards'[k].vec # None)
  BY <1>5
<1>9. ASSUME NEW t \in Sources, NEW u \in Urls, t # s, cards'[<<t, u>>] # None
      PROVE  cards[<<t, u>>] # None /\ cards'[<<t, u>>].rev = cards[<<t, u>>].rev
  <2>1. <<t, u>> \in Keys /\ <<t, u>>[1] # s
    BY <1>9 DEF Keys
  <2> QED
    BY <1>5, <1>9, <2>1
<1>10. JobOK(s, j, cards', runs)
  <2>1. CASE j = Idle
    BY <2>1, IdleIsOK
  <2>2. CASE /\ j.rev = old.rev /\ j.next = old.next /\ j.existing = old.existing
             /\ j.merges = old.merges /\ j.canonical = old.canonical
    <3>1. ASSUME NEW u \in Urls, cards'[<<s, u>>] # None PROVE cards'[<<s, u>>].rev <= j.rev
      <4>1. <<s, u>> \in Keys
        BY DEF Keys
      <4>2. CASE cards'[<<s, u>>] = cards[<<s, u>>]
        BY <1>2, <2>2, <3>1, <4>2 DEF JobOK
      <4>3. CASE cards'[<<s, u>>].rev = old.rev
        BY <1>2, <1>3, <2>2, <4>3
      <4> QED
        BY <1>5, <4>1, <4>2, <4>3
    <3> QED
      BY <1>2, <1>8, <2>2, <3>1 DEF JobOK, OwnText
  <2> QED
    BY <1>1, <2>1, <2>2
<1>11. job' = [job EXCEPT ![s] = j] \/ Commits(s, j)
  BY DEF Write
<1>12. Typed' /\ AllCards' /\ AllJobs'
  BY <1>3, <1>6, <1>7, <1>8, <1>9, <1>10, <1>11, Writes
<1> QED
  BY <1>8, <1>12

LEMMA UpsertMoves ==
    ASSUME Typed, AllCards, AllJobs, NEW s \in Sources, UpsertEmbedded(s) \/ UpsertRest(s)
    PROVE  /\ Typed' /\ AllCards' /\ AllJobs'
           /\ \A k \in Keys : cards[k] # None =>
                  cards'[k] # None /\ (cards[k].vec # None => cards'[k].vec # None)
<1>1. CASE UpsertEmbedded(s)
  <2>1. PICK f : f = Unstored(s, job[s])
    OBVIOUS
  <2>2. PICK j : j = [job[s] EXCEPT !.pc = "finish", !.folds = f]
    OBVIOUS
  <2>3. job[s] \in Job /\ job[s].pc = "upsert" /\ Write(s, j) /\ "finish" \in Steps
    BY <1>1, <2>1, <2>2 DEF UpsertEmbedded, Typed, Steps
  <2>4. f \in SUBSET Keys
    <3>1. job[s].canonical \in Seq(Canonical)
      BY <2>3 DEF Job
    <3>2. \A i \in DOMAIN job[s].canonical : job[s].canonical[i] \in Canonical
      BY <3>1
    <3>3. Rows(job[s]) \subseteq DOMAIN job[s].canonical
      BY DEF Rows, Embedded
    <3>4. \A i \in Rows(job[s]) : job[s].canonical[i].sources \subseteq Keys
      BY <3>2, <3>3 DEF Canonical
    <3> QED
      BY <2>1, <3>4 DEF Unstored
  <2>5. /\ j \in Job /\ j.rev = job[s].rev /\ j.next = job[s].next
        /\ j.existing = job[s].existing /\ j.merges = job[s].merges
        /\ j.canonical = job[s].canonical
    BY <2>2, <2>3, <2>4 DEF Job
  <2> QED
    BY <2>3, <2>5, WriteMoves
<1>2. CASE UpsertRest(s)
  <2>1. job[s].pc = "finish" /\ Write(s, Idle) /\ Idle \in Job
    BY <1>2, IdleIsOK DEF UpsertRest
  <2> QED
    BY <2>1, WriteMoves
<1> QED
  BY <1>1, <1>2

----------------------------------------------------------------------------
(* What a run has fetched is never lost from sight: a ref is in the merges *)
(* or the canonical records of its job, and from the commit on on a card,  *)
(* unless it was written over.                                             *)
Known(r) == r \in torn \/ \E c \in Stored \ {r} : r \in cards[c].sources

Noted(s, j) ==
    \A i \in DOMAIN j.page : i < j.next =>
        \/ \E m \in j.merges : m[2] = <<s, j.page[i].url>>
        \/ \E c \in DOMAIN j.canonical : <<s, j.page[i].url>> \in j.canonical[c].sources
Away(j) == \A m \in j.merges : m[1] # m[2]
SnapKnown(j) ==
    \A c \in Keys : j.existing[c] # None =>
        \A r \in j.existing[c].sources : r # c => Known(r)
Fresh(j) == j.alone => j.existing = cards
Covered(s, j) ==
    \A r \in Fetched(s, j.page) :
        Known(r) \/ \E c \in DOMAIN j.canonical : r \in j.canonical[c].sources
Settled(s, j) ==
    \A i \in Embedded(j) :
        /\ cards[KeyOf(s, j, i)] # None /\ cards[KeyOf(s, j, i)].rev >= j.rev
        /\ \A r \in j.canonical[i].sources : r = KeyOf(s, j, i) \/ r \in j.folds \/ Known(r)

Rec(s, j) ==
    /\ j.pc = "dedup" => Noted(s, j) /\ Away(j) /\ SnapKnown(j) /\ Fresh(j)
    /\ j.pc \in {"embed", "upsert", "finish"} => Covered(s, j)
    /\ j.pc = "finish" => Settled(s, j)
AllRec == \A s \in Sources : Rec(s, job[s])

Reports ==
    /\ report \in [Sources -> [keys: SUBSET Keys, rev: 0..MaxRuns]]
    /\ \A s \in Sources : \A k \in report[s].keys :
           /\ k[1] = s
           /\ \/ Known(k) \/ k \in unsaved
              \/ cards[k] # None /\ cards[k].rev >= report[s].rev

(* Nothing that is known gets lost, and the texts only get newer.          *)
Grows ==
    /\ \A r \in Keys : Known(r) => Known(r)'
    /\ \A k \in Keys : cards[k] # None => cards'[k] # None /\ cards'[k].rev >= cards[k].rev

LEMMA SameGrows ==
    ASSUME Typed, cards' = cards, torn' = torn
    PROVE  Grows /\ \A r : Known(r)' = Known(r)
<1>1. \A r : Known(r)' = Known(r)
  BY DEF Known, Stored
<1>2. \A k \in Keys : cards[k] # None => cards[k].rev \in Nat
  BY BoundsAssumption DEF Typed, Card
<1> QED
  BY <1>1, <1>2 DEF Grows

LEMMA SourcesAreKeys ==
    ASSUME Typed, NEW j \in Job
    PROVE  /\ \A k \in Keys : cards[k] # None => cards[k].sources \subseteq Keys /\ cards[k].rev \in Nat
           /\ \A k \in Keys : j.existing[k] # None => j.existing[k].sources \subseteq Keys
           /\ j.canonical \in Seq(Canonical) /\ j.page \in Seq(Record) /\ j.rev \in Nat
           /\ \A i \in DOMAIN j.canonical :
                  j.canonical[i].sources \subseteq Keys /\ j.canonical[i].item.url \in Urls
           /\ \A i \in DOMAIN j.page : j.page[i].url \in Urls
<1>1. j.canonical \in Seq(Canonical) /\ j.page \in Seq(Record) /\ j.rev \in Nat
  BY BoundsAssumption DEF Job
<1>2. \A i \in DOMAIN j.canonical : j.canonical[i] \in Canonical
  BY <1>1
<1>3. \A i \in DOMAIN j.canonical :
          j.canonical[i].sources \subseteq Keys /\ j.canonical[i].item.url \in Urls
  BY <1>2 DEF Canonical, Record
<1>4. \A k \in Keys : cards[k] # None => cards[k].sources \subseteq Keys /\ cards[k].rev \in Nat
  BY BoundsAssumption DEF Typed, Card
<1>5. \A k \in Keys : j.existing[k] # None => j.existing[k].sources \subseteq Keys
  BY DEF Job, Card
<1>6. \A i \in DOMAIN j.page : j.page[i].url \in Urls
  <2>1. \A i \in DOMAIN j.page : j.page[i] \in Record
    BY <1>1
  <2> QED
    BY <2>1 DEF Record
<1> QED
  BY <1>1, <1>3, <1>4, <1>5, <1>6

LEMMA RecIsOfTheJob ==
    ASSUME NEW t \in Sources, NEW r, r = job'[t], Rec(t, r)'
    PROVE  Rec(t, job[t])'
BY DEF Rec, Noted, Away, SnapKnown, Fresh, Covered, Settled, Embedded, KeyOf, Fetched

(* The jobs of the other sources do not notice but that they are not alone.*)
LEMMA OthersRec ==
    ASSUME Typed, Typed', AllRec, Grows, NEW s \in Sources, NEW j \in Job,
           \/ job' = [job EXCEPT ![s] = j] /\ cards' = cards
           \/ Commits(s, j),
           NEW t \in Sources, t # s
    PROVE  Rec(t, job[t])'
<1>1. job[t] \in Job /\ Rec(t, job[t])
  BY DEF Typed, AllRec
<1>2. PICK b : \/ job'[t] = job[t] /\ cards' = cards
               \/ job'[t] = [job[t] EXCEPT !.alone = b] /\ b = (job[t] = Idle)
  BY DEF Commits, Typed
<1>3. PICK r : r = job'[t]
  OBVIOUS
<1>4. /\ r.pc = job[t].pc /\ r.page = job[t].page /\ r.next = job[t].next
      /\ r.merges = job[t].merges /\ r.canonical = job[t].canonical
      /\ r.existing = job[t].existing /\ r.rev = job[t].rev /\ r.folds = job[t].folds
  BY <1>1, <1>2, <1>3 DEF Job
<1>5. r.pc = "dedup" /\ r.alone => job[t].alone /\ cards' = cards
  <2>1. CASE job'[t] = job[t] /\ cards' = cards
    BY <1>3, <2>1
  <2>2. CASE job'[t] = [job[t] EXCEPT !.alone = b] /\ b = (job[t] = Idle)
    <3>1. r.alone = b
      BY <1>1, <1>3, <2>2 DEF Job
    <3>2. job[t] = Idle => r.pc = "idle"
      BY <1>4 DEF Idle
    <3> QED
      BY <2>2, <3>1, <3>2
  <2> QED
    BY <1>2, <2>1, <2>2
<1>6. ASSUME r.pc = "dedup" PROVE Noted(t, r) /\ Away(r) /\ SnapKnown(r)' /\ Fresh(r)'
  <2>1. Noted(t, job[t]) /\ Away(job[t]) /\ SnapKnown(job[t]) /\ Fresh(job[t])
    BY <1>1, <1>4, <1>6 DEF Rec
  <2>2. Noted(t, r) /\ Away(r)
    BY <1>4, <2>1 DEF Noted, Away
  <2>3. Fresh(r)'
    BY <1>4, <1>5, <1>6, <2>1 DEF Fresh
  <2>4. ASSUME NEW c \in Keys, r.existing[c] # None, NEW x \in r.existing[c].sources, x # c
        PROVE  Known(x)'
    BY <1>1, <1>4, <2>1, <2>4, SourcesAreKeys DEF SnapKnown, Grows
  <2> QED
    BY <2>2, <2>3, <2>4 DEF SnapKnown
<1>7. ASSUME r.pc \in {"embed", "upsert", "finish"} PROVE Covered(t, r)'
  <2>1. Covered(t, job[t])
    BY <1>1, <1>4, <1>7 DEF Rec
  <2>2. Fetched(t, r.page) \subseteq Keys
    BY <1>1, <1>4, SourcesAreKeys DEF Fetched, Keys
  <2> QED
    BY <1>4, <2>1, <2>2 DEF Covered, Grows, Fetched
<1>8. ASSUME r.pc = "finish" PROVE Settled(t, r)'
  <2>1. Settled(t, job[t])
    BY <1>1, <1>4, <1>8 DEF Rec
  <2>2. Embedded(r) = Embedded(job[t]) /\ \A i : KeyOf(t, r, i) = KeyOf(t, job[t], i)
    BY <1>4 DEF Embedded, KeyOf
  <2>3. ASSUME NEW i \in Embedded(r), NEW k, k = KeyOf(t, r, i)
        PROVE  /\ cards'[k] # None /\ cards'[k].rev >= r.rev
               /\ \A x \in r.canonical[i].sources : x = k \/ x \in r.folds \/ Known(x)'
    <3>1. i \in DOMAIN job[t].canonical /\ k \in Keys
      BY <1>1, <1>4, <2>3, SourcesAreKeys DEF Embedded, KeyOf, Keys
    <3>2. cards[k] # None /\ cards[k].rev >= r.rev
      BY <1>4, <2>1, <2>2, <2>3 DEF Settled
    <3>3. cards[k].rev \in Nat /\ cards'[k].rev \in Nat /\ r.rev \in Nat
      <4>1. cards[k].rev \in Nat /\ r.rev \in Nat
        BY <1>1, <1>4, <3>1, <3>2, SourcesAreKeys
      <4>2. cards'[k].rev \in Nat
        BY <3>1, <3>2, BoundsAssumption DEF Grows, Typed, Card
      <4> QED
        BY <4>1, <4>2
    <3>4. cards'[k] # None /\ cards'[k].rev >= cards[k].rev
      BY <3>1, <3>2 DEF Grows
    <3>5. \A x \in r.canonical[i].sources : x = k \/ x \in r.folds \/ Known(x)'
      BY <1>1, <1>4, <2>1, <2>2, <2>3, <3>1, SourcesAreKeys DEF Settled, Grows
    <3> QED
      BY <3>2, <3>3, <3>4, <3>5
  <2> QED
    BY <2>3 DEF Settled, KeyOf, Embedded
<1>9. Rec(t, r)'
  BY <1>6, <1>7, <1>8 DEF Rec, Noted, Away
<1> QED
  BY <1>3, <1>9, RecIsOfTheJob

LEMMA ReportsKept ==
    ASSUME Typed, Typed', Reports, Grows, report' = report, unsaved' = unsaved
    PROVE  Reports'
<1> SUFFICES ASSUME NEW s \in Sources, NEW k \in report[s].keys
             PROVE  \/ Known(k)' \/ k \in unsaved
                    \/ cards'[k] # None /\ cards'[k].rev >= report[s].rev
  BY DEF Reports
<1>1. k \in Keys /\ report[s].rev \in Nat
  BY BoundsAssumption DEF Reports
<1>2. CASE Known(k) \/ k \in unsaved
  BY <1>1, <1>2 DEF Grows
<1>3. CASE cards[k] # None /\ cards[k].rev >= report[s].rev
  <2>1. cards'[k] # None /\ cards'[k].rev >= cards[k].rev
    BY <1>1, <1>3 DEF Grows
  <2>2. cards[k].rev \in Nat /\ cards'[k].rev \in Nat
    BY <1>1, <1>3, <2>1, BoundsAssumption DEF Typed, Card
  <2> QED
    BY <1>1, <1>3, <2>1, <2>2
<1> QED
  BY <1>2, <1>3 DEF Reports

LEMMA StartRec ==
    ASSUME Typed, AllRec, NEW s \in Sources, Start(s)
    PROVE  Rec(s, job[s])'
<1>1. PICK page \in Pages[s] :
          job' = [job EXCEPT ![s] = [Idle EXCEPT
                     !.pc = "dedup", !.rev = runs + 1, !.page = page, !.existing = cards]]
  BY DEF Start
<1>2. page \in Seq(Record)
  BY PagesAssumption
<1>3. PICK d, n : d = Idle /\ n = runs + 1
  OBVIOUS
<1>4. d \in Job /\ d.merges = {} /\ d.next = 1
  BY <1>3, IdleIsOK DEF Idle
<1>5. PICK j : j = [d EXCEPT !.pc = "dedup", !.rev = n, !.page = page, !.existing = cards]
  OBVIOUS
<1>6. /\ j.pc = "dedup" /\ j.page = page /\ j.next = 1 /\ j.existing = cards /\ j.merges = {}
  BY <1>4, <1>5 DEF Job
<1>7. j = job'[s] /\ cards' = cards /\ torn' = torn
  BY <1>1, <1>3, <1>5 DEF Typed, Start, history
<1>8. Noted(s, j) /\ Away(j)
  BY <1>2, <1>6 DEF Noted, Away
<1>9. SnapKnown(j)' /\ Fresh(j)'
  <2>1. \A c \in Keys : cards[c] # None => \A r \in cards[c].sources : r # c => Known(r)
    BY DEF Known, Stored
  <2>2. \A r : Known(r)' = Known(r)
    BY <1>7, SameGrows
  <2> QED
    BY <1>6, <1>7, <2>1, <2>2 DEF SnapKnown, Fresh
<1>10. Rec(s, j)'
  BY <1>6, <1>8, <1>9 DEF Rec, Noted, Away
<1> QED
  BY <1>7, <1>10, RecIsOfTheJob

LEMMA EndRec ==
    ASSUME Typed, NEW s \in Sources, job' = [job EXCEPT ![s] = Idle] \/ Commits(s, Idle)
    PROVE  Rec(s, job[s])'
<1>1. Idle = job'[s] /\ Idle.pc = "idle"
  BY DEF Typed, Idle, Commits
<1>2. PICK r : r = job'[s]
  OBVIOUS
<1>3. Rec(s, r)'
  BY <1>1, <1>2 DEF Rec
<1> QED
  BY <1>2, <1>3, RecIsOfTheJob

(* The embedding changes no record but its vector.                         *)
LEMMA EmbedRec ==
    ASSUME Typed, AllRec, NEW s \in Sources, Embed(s) \/ EndEmbed(s)
    PROVE  Rec(s, job[s])'
<1>1. PICK j, r : j = job[s] /\ r = job'[s]
  OBVIOUS
<1>2. j \in Job /\ Covered(s, j) /\ torn' = torn /\ cards' = cards
  BY <1>1 DEF Typed, AllRec, Rec, Embed, EndEmbed, history
<1>3. /\ r.pc \in {"embed", "upsert"} /\ r.page = j.page
      /\ DOMAIN r.canonical = DOMAIN j.canonical
      /\ \A c \in DOMAIN j.canonical : r.canonical[c].sources = j.canonical[c].sources
  <2>1. CASE EndEmbed(s)
    <3>1. r = [j EXCEPT !.pc = "upsert"]
      BY <1>1, <2>1 DEF EndEmbed, Typed
    <3> QED
      BY <1>2, <3>1 DEF Job
  <2>2. CASE Embed(s)
    <3>1. PICK answered \in SUBSET Batch(j) : r = Answer(s, j, answered)
      BY <1>1, <2>2 DEF Embed, Typed
    <3>2. PICK cs : cs = [i \in DOMAIN j.canonical |->
                             IF i \in Batch(j) /\ HasKey /\ Accepts(Batch(j), answered)
                             THEN [j.canonical[i] EXCEPT !.vec = Zipped(j, s, answered, i)]
                             ELSE j.canonical[i]]
      OBVIOUS
    <3>3. PICK n : n = j.next + BatchSize
      OBVIOUS
    <3>4. r = [j EXCEPT !.next = n, !.canonical = cs]
      BY <3>1, <3>2, <3>3 DEF Answer
    <3>5. r.pc = j.pc /\ j.pc = "embed" /\ r.page = j.page /\ r.canonical = cs
      BY <1>1, <1>2, <2>2, <3>4 DEF Job, Embed
    <3>6. DOMAIN cs = DOMAIN j.canonical
      BY <3>2
    <3>7. ASSUME NEW c \in DOMAIN j.canonical PROVE cs[c].sources = j.canonical[c].sources
      <4>1. j.canonical \in Seq(Canonical)
        BY <1>2 DEF Job
      <4>2. PICK x, v : x = j.canonical[c] /\ v = Zipped(j, s, answered, c)
        OBVIOUS
      <4>3. x \in Canonical
        BY <4>1, <4>2
      <4>4. cs[c] = x \/ cs[c] = [x EXCEPT !.vec = v]
        BY <3>2, <4>2
      <4>5. [x EXCEPT !.vec = v].sources = x.sources
        BY <4>3 DEF Canonical
      <4> QED
        BY <4>2, <4>4, <4>5
    <3> QED
      BY <3>5, <3>6, <3>7
  <2> QED
    BY <2>1, <2>2
<1>4. \A x : Known(x)' = Known(x)
  BY <1>2, SameGrows
<1>5. Covered(s, r)'
  BY <1>2, <1>3, <1>4 DEF Covered, Fetched
<1>6. Rec(s, r)'
  BY <1>3, <1>5 DEF Rec
<1> QED
  BY <1>1, <1>6, RecIsOfTheJob

(* One turn of the loop puts the ref of its record somewhere.              *)
LEMMA DedupRec ==
    ASSUME Typed, AllRec, NEW s \in Sources, Dedup(s)
    PROVE  Rec(s, job[s])'
<1>1. PICK old, r : old = job[s] /\ r = job'[s]
  OBVIOUS
<1>2. old \in Job /\ Rec(s, old) /\ old.pc = "dedup" /\ torn' = torn /\ cards' = cards
  BY <1>1 DEF Typed, AllRec, Dedup, history
<1>3. PICK n, item, ref : n = old.next + 1 /\ item = old.page[old.next] /\ ref = <<s, item.url>>
  OBVIOUS
<1>4. PICK j : j = [old EXCEPT !.next = n]
  OBVIOUS
<1>5. /\ old.next \in Nat /\ n \in Nat /\ old.page \in Seq(Record)
      /\ old.canonical \in Seq(Canonical)
  BY <1>2, <1>3 DEF Job
<1>6. /\ j \in Job /\ j.pc = old.pc /\ j.existing = old.existing /\ j.merges = old.merges
      /\ j.canonical = old.canonical /\ j.next = n /\ j.page = old.page /\ j.alone = old.alone
  BY <1>2, <1>4, <1>5 DEF Job
<1>7. \E k \in Candidates(item.name, ExistingNames(s, j, item)) :
           \/ k # None /\ job' = [job EXCEPT ![s] = Merged(j, k, ref)]
           \/ /\ k = None
              /\ \E i \in Candidates(item.name, BatchNames(j, item)) :
                     job' = [job EXCEPT ![s] =
                                IF i # None THEN Folded(j, i, ref) ELSE Kept(j, item, ref)]
  <2>1. /\ j = [job[s] EXCEPT !.next = @ + 1] /\ ref = <<s, item.url>>
        /\ item = j.page[job[s].next]
    BY <1>1, <1>3, <1>4, <1>6
  <2> QED
    BY <2>1 DEF Dedup
<1>8. ASSUME /\ r.pc = j.pc /\ r.existing = j.existing /\ r.next = j.next /\ r.page = j.page
             /\ r.alone = j.alone,
             \A m \in j.merges : m \in r.merges,
             \A m \in r.merges : m \in j.merges \/ m[1] # m[2],
             \A c \in DOMAIN j.canonical :
                 c \in DOMAIN r.canonical /\ j.canonical[c].sources \subseteq r.canonical[c].sources,
             \/ \E m \in r.merges : m[2] = ref
             \/ \E c \in DOMAIN r.canonical : ref \in r.canonical[c].sources
      PROVE  Rec(s, r)'
  <2>1. Noted(s, old) /\ Away(old) /\ SnapKnown(old) /\ Fresh(old)
    BY <1>2 DEF Rec
  <2>2. ASSUME NEW i \in DOMAIN r.page, i < r.next
        PROVE  \/ \E m \in r.merges : m[2] = <<s, r.page[i].url>>
               \/ \E c \in DOMAIN r.canonical : <<s, r.page[i].url>> \in r.canonical[c].sources
    <3>1. i \in Nat /\ (i = old.next \/ i < old.next) /\ i \in DOMAIN old.page
      BY <1>3, <1>5, <1>6, <1>8, <2>2
    <3>2. CASE i = old.next
      BY <1>3, <1>6, <1>8, <3>2
    <3>3. CASE i < old.next
      <4>1. \/ \E m \in old.merges : m[2] = <<s, old.page[i].url>>
            \/ \E c \in DOMAIN old.canonical : <<s, old.page[i].url>> \in old.canonical[c].sources
        BY <2>1, <3>1, <3>3 DEF Noted
      <4> QED
        BY <1>6, <1>8, <4>1
    <3> QED
      BY <3>1, <3>2, <3>3
  <2>3. Noted(s, r) /\ Away(r)
    BY <1>6, <1>8, <2>1, <2>2 DEF Noted, Away
  <2>4. \A x : Known(x)' = Known(x)
    BY <1>2, SameGrows
  <2>5. SnapKnown(r)' /\ Fresh(r)'
    BY <1>2, <1>6, <1>8, <2>1, <2>4 DEF SnapKnown, Fresh
  <2> QED
    BY <1>2, <1>6, <1>8, <2>3, <2>5 DEF Rec, Noted, Away
<1>9. ASSUME NEW k \in Candidates(item.name, ExistingNames(s, j, item)), k # None,
             job' = [job EXCEPT ![s] = Merged(j, k, ref)]
      PROVE  Rec(s, r)'
  <2>1. k[2] # item.url
    BY <1>9, CandidatesAreKeys DEF ExistingNames, OfOtherUrl, SameBlock
  <2>2. k # ref
    BY <1>3, <2>1
  <2>3. PICK ms : ms = j.merges \cup {<<k, ref>>}
    OBVIOUS
  <2>4. r = [j EXCEPT !.merges = ms]
    BY <1>1, <1>9, <2>3 DEF Merged, Typed
  <2>5. /\ r.pc = j.pc /\ r.existing = j.existing /\ r.next = j.next /\ r.page = j.page
        /\ r.alone = j.alone /\ r.merges = ms /\ r.canonical = j.canonical
    BY <1>6, <2>4 DEF Job
  <2>6. <<k, ref>> \in r.merges /\ <<k, ref>>[1] = k /\ <<k, ref>>[2] = ref
    BY <2>3, <2>5
  <2>7. /\ \A m \in j.merges : m \in r.merges
        /\ \A m \in r.merges : m \in j.merges \/ m[1] # m[2]
        /\ \E m \in r.merges : m[2] = ref
    BY <2>2, <2>3, <2>5, <2>6
  <2>8. \A c \in DOMAIN j.canonical :
            c \in DOMAIN r.canonical /\ j.canonical[c].sources \subseteq r.canonical[c].sources
    BY <2>5
  <2> QED
    BY <1>8, <2>5, <2>7, <2>8
<1>10. ASSUME NEW cs, r = [j EXCEPT !.canonical = cs],
              \A c \in DOMAIN j.canonical :
                  c \in DOMAIN cs /\ j.canonical[c].sources \subseteq cs[c].sources,
              \E c \in DOMAIN cs : ref \in cs[c].sources
       PROVE  Rec(s, r)'
  <2>1. /\ r.pc = j.pc /\ r.existing = j.existing /\ r.next = j.next /\ r.page = j.page
        /\ r.alone = j.alone /\ r.merges = j.merges /\ r.canonical = cs
    BY <1>6, <1>10 DEF Job
  <2> QED
    BY <1>8, <1>10, <2>1
<1>11. ASSUME job' = [job EXCEPT ![s] = Kept(j, item, ref)]
       PROVE  Rec(s, r)'
  <2>1. PICK c : c = [item |-> item, sources |-> {ref}, vec |-> None]
    OBVIOUS
  <2>2. PICK cs : cs = Append(j.canonical, c)
    OBVIOUS
  <2>3. /\ DOMAIN cs = 1..Len(j.canonical) + 1 /\ DOMAIN j.canonical = 1..Len(j.canonical)
        /\ Len(j.canonical) \in Nat /\ cs[Len(j.canonical) + 1] = c
        /\ \A i \in 1..Len(j.canonical) : cs[i] = j.canonical[i]
    BY <1>5, <1>6, <2>2
  <2>4. r = [j EXCEPT !.canonical = cs]
    BY <1>1, <1>11, <2>1, <2>2 DEF Kept, Typed
  <2>5. \E i \in DOMAIN cs : ref \in cs[i].sources
    <3>1. Len(j.canonical) + 1 \in DOMAIN cs /\ ref \in c.sources
      BY <2>1, <2>3
    <3> QED
      BY <2>3, <3>1
  <2>6. \A i \in DOMAIN j.canonical :
            i \in DOMAIN cs /\ j.canonical[i].sources \subseteq cs[i].sources
    BY <2>3
  <2> QED
    BY <1>10, <2>4, <2>5, <2>6
<1>12. ASSUME NEW i \in Candidates(item.name, BatchNames(j, item)), i # None,
              job' = [job EXCEPT ![s] = Folded(j, i, ref)]
       PROVE  Rec(s, r)'
  <2>1. i \in DOMAIN j.canonical
    BY <1>12, CandidatesAreKeys DEF BatchNames
  <2>2. PICK l : l = j.canonical[i].sources \cup {ref}
    OBVIOUS
  <2>3. PICK c : c = [j.canonical[i] EXCEPT !.sources = l]
    OBVIOUS
  <2>4. j.canonical[i] \in Canonical
    BY <1>5, <1>6, <2>1
  <2>5. c.sources = l
    BY <2>3, <2>4 DEF Canonical
  <2>6. PICK cs : cs = [j.canonical EXCEPT ![i] = c]
    OBVIOUS
  <2>7. /\ DOMAIN cs = DOMAIN j.canonical
        /\ \A k \in DOMAIN cs : cs[k] = IF k = i THEN c ELSE j.canonical[k]
    BY <1>5, <1>6, <2>1, <2>6
  <2>8. r = [j EXCEPT !.canonical = cs]
    BY <1>1, <1>12, <2>2, <2>3, <2>6 DEF Folded, Typed
  <2> QED
    BY <1>10, <2>1, <2>2, <2>5, <2>7, <2>8
<1>13. Rec(s, r)'
  BY <1>7, <1>9, <1>11, <1>12
<1> QED
  BY <1>1, <1>13, RecIsOfTheJob

(* A commit of merges writes over refs only from a catalogue that another  *)
(* job has changed since, and then it is noted in torn.                    *)
LEMMA CommitRec ==
    ASSUME Typed, AllJobs, AllRec, NEW s \in Sources, CommitMerges(s)
    PROVE  Rec(s, job[s])' /\ Grows
<1>1. PICK old, r : old = job[s] /\ r = job'[s]
  OBVIOUS
<1>2. /\ old \in Job /\ JobOK(s, old, cards, runs) /\ old.pc = "dedup"
      /\ Noted(s, old) /\ Away(old) /\ SnapKnown(old) /\ Fresh(old)
  BY <1>1 DEF Typed, AllJobs, AllRec, Rec, CommitMerges
<1>3. /\ r.pc = "embed" /\ r.page = old.page /\ r.canonical = old.canonical
  <2>1. PICK j : j = [old EXCEPT !.pc = "embed", !.next = 1, !.existing = NoCatalogue, !.merges = {}]
    OBVIOUS
  <2>2. r = j
    BY <1>1, <2>1 DEF CommitMerges, Commits, Typed
  <2> QED
    BY <1>2, <2>1, <2>2 DEF Job
<1>4. /\ cards' = MergedCards(old)
      /\ torn' = (torn \ Held(old)) \cup (IF old.alone THEN {} ELSE Overwritten(old))
  BY <1>1 DEF CommitMerges
<1>5. \A k \in Keys : cards[k] # None => cards'[k] # None /\ cards'[k].rev = cards[k].rev
  BY <1>2, <1>4, MergedOne
<1>6. ASSUME NEW k \in Keys, cards[k] # None
      PROVE  \/ (\A m \in old.merges : m[1] # k) /\ cards'[k] = cards[k]
             \/ /\ old.existing[k] # None
                /\ cards'[k].sources = MergeSources(old, k)
  <2>1. CASE \A m \in old.merges : m[1] # k
    BY <1>4, <2>1 DEF MergedCards
  <2>2. CASE \E m \in old.merges : m[1] = k
    <3>1. old.existing[k] # None /\ cards[k] \in Card
      BY <1>2, <1>6, <2>2 DEF JobOK, Typed
    <3>2. PICK l : l = MergeSources(old, k)
      OBVIOUS
    <3>3. cards'[k] = [cards[k] EXCEPT !.sources = l]
      BY <1>4, <2>2, <3>2 DEF MergedCards
    <3>4. cards'[k].sources = l
      BY <3>1, <3>3 DEF Card
    <3> QED
      BY <3>1, <3>2, <3>4
  <2> QED
    BY <2>1, <2>2
<1>7. ASSUME NEW x \in Keys, Known(x) PROVE Known(x)'
  <2>1. CASE x \in torn
    <3>1. CASE x \in Held(old)
      <4>1. PICK m \in old.merges : m[2] = x /\ x \in MergedCards(old)[m[1]].sources
        BY <3>1 DEF Held
      <4>2. m[1] \in Keys /\ cards[m[1]] # None /\ m[1] # x
        BY <1>2, <4>1 DEF JobOK, Job, Away
      <4>3. m[1] \in Stored' /\ x \in cards'[m[1]].sources
        BY <1>4, <1>5, <4>1, <4>2 DEF Stored
      <4> QED
        BY <4>2, <4>3 DEF Known
    <3>2. CASE x \notin Held(old)
      BY <1>4, <2>1, <3>2 DEF Known
    <3> QED
      BY <3>1, <3>2
  <2>2. ASSUME NEW c \in Stored \ {x}, x \in cards[c].sources PROVE Known(x)'
    <3>1. c \in Keys /\ cards[c] # None /\ c \in Stored'
      BY <1>5, <2>2 DEF Stored
    <3>2. CASE x \in cards'[c].sources
      BY <2>2, <3>1, <3>2 DEF Known
    <3>3. CASE x \notin cards'[c].sources
      <4>1. x \in Overwritten(old)
        BY <1>4, <2>2, <3>3 DEF Overwritten
      <4>2. CASE ~ old.alone
        BY <1>4, <4>1, <4>2 DEF Known
      <4>3. CASE old.alone
        <5>1. old.existing = cards
          BY <1>2, <4>3 DEF Fresh
        <5>2. x \in MergeSources(old, c)
          BY <2>2, <5>1 DEF MergeSources, Extended
        <5> QED
          BY <1>6, <2>2, <3>1, <3>3, <5>2
      <4> QED
        BY <4>2, <4>3
    <3> QED
      BY <3>2, <3>3
  <2> QED
    BY <1>7, <2>1, <2>2 DEF Known
<1>8. Grows
  BY <1>5, <1>7, SourcesAreKeys DEF Grows, Typed
<1>9. ASSUME NEW x \in Fetched(s, old.page)
      PROVE  Known(x)' \/ \E c \in DOMAIN old.canonical : x \in old.canonical[c].sources
  <2>1. PICK i \in DOMAIN old.page : x = <<s, old.page[i].url>>
    BY <1>9 DEF Fetched
  <2>2. x \in Keys
    BY <1>2, <2>1, SourcesAreKeys DEF Keys
  <2>3. i < old.next
    <3>1. old.page \in Seq(Record) /\ old.next \in Nat /\ old.next > Len(old.page)
      BY <1>1, <1>2 DEF Job, CommitMerges
    <3> QED
      BY <3>1
  <2>4. CASE \E c \in DOMAIN old.canonical : x \in old.canonical[c].sources
    BY <2>4
  <2>5. ASSUME NEW m \in old.merges, m[2] = x PROVE Known(x)'
    <3>1. m[1] \in Keys /\ old.existing[m[1]] # None /\ cards[m[1]] # None /\ m[1] # x
      BY <1>2, <2>5 DEF JobOK, Job, Away
    <3>2. PICK c, refs : c = m[1] /\ refs = {n[2] : n \in {n \in old.merges : n[1] = c}}
      OBVIOUS
    <3>3. x \in refs /\ c \in Stored' /\ c # x
      BY <1>5, <2>5, <3>1, <3>2 DEF Stored
    <3>4. cards'[c].sources = MergeSources(old, c)
      BY <1>6, <3>1, <3>2
    <3>5. CASE refs \subseteq old.existing[c].sources
      BY <1>2, <1>7, <2>2, <3>1, <3>2, <3>3, <3>5 DEF SnapKnown
    <3>6. CASE ~ refs \subseteq old.existing[c].sources
      <4>1. x \in MergeSources(old, c)
        BY <3>2, <3>3, <3>6 DEF MergeSources, Extended
      <4> QED
        BY <3>3, <3>4, <4>1 DEF Known
    <3> QED
      BY <3>5, <3>6
  <2> QED
    BY <1>2, <2>1, <2>3, <2>4, <2>5 DEF Noted
<1>10. Covered(s, r)'
  BY <1>3, <1>9 DEF Covered, Fetched
<1>11. Rec(s, r)'
  BY <1>3, <1>10 DEF Rec
<1> QED
  BY <1>1, <1>8, <1>11, RecIsOfTheJob

(* A statement of the upsert stores the card of each of its records, and   *)
(* the refs of a record but for those that are counted as unsaved.         *)
LEMMA WriteGrows ==
    ASSUME Typed, AllJobs, NEW s \in Sources, NEW j, j = job[s], j.pc # "idle",
           NEW new, Write(s, new)
    PROVE  /\ Grows
           /\ \A i \in Rows(j) :
                  /\ cards'[KeyOf(s, j, i)] # None /\ cards'[KeyOf(s, j, i)].rev = j.rev
                  /\ \A x \in j.canonical[i].sources :
                         x = KeyOf(s, j, i) \/ x \in Unstored(s, j) \/ Known(x)'
<1>1. /\ j \in Job /\ JobOK(s, j, cards, runs) /\ ~ Repeats(j)
      /\ cards' = UpsertedCards(s, j) /\ torn' = torn
  BY DEF Typed, AllJobs, Write
<1>2. Rows(j) \subseteq DOMAIN j.canonical
  BY DEF Rows, Embedded
<1>3. ASSUME NEW i \in Rows(j), NEW k, k = KeyOf(s, j, i)
      PROVE  /\ k \in Keys /\ cards'[k] = Upserted(j, cards[k], j.canonical[i])
  <2>1. k = <<s, j.canonical[i].item.url>> /\ k \in Keys
    BY <1>1, <1>2, <1>3, SourcesAreKeys DEF KeyOf, Keys
  <2>2. PICK c : c = CHOOSE d \in Rows(j) : KeyOf(s, j, d) = k
    OBVIOUS
  <2>3. c \in Rows(j) /\ KeyOf(s, j, c) = k
    BY <1>3, <2>2
  <2>4. j.canonical[c].item.url = j.canonical[i].item.url
    BY <2>1, <2>3 DEF KeyOf
  <2>5. c = i
    BY <1>1, <1>3, <2>3, <2>4 DEF Repeats
  <2> QED
    BY <1>1, <1>3, <2>1, <2>2, <2>5 DEF UpsertedCards
<1>4. ASSUME NEW i \in Rows(j), NEW k, k = KeyOf(s, j, i), NEW c, c = cards'[k]
      PROVE  /\ c # None /\ c.rev = j.rev
             /\ cards[k] # None => c.sources = cards[k].sources
             /\ cards[k] = None => c.sources = j.canonical[i].sources
  <2>1. k \in Keys /\ c = Upserted(j, cards[k], j.canonical[i])
    BY <1>3, <1>4
  <2>2. CASE cards[k] = None
    <3>1. PICK e : e = j.canonical[i]
      OBVIOUS
    <3>2. /\ e \in Canonical /\ e.item \in Record
      <4>1. j.canonical \in Seq(Canonical) /\ i \in DOMAIN j.canonical
        BY <1>1, <1>2, <1>4, SourcesAreKeys
      <4>2. e \in Canonical
        BY <3>1, <4>1
      <4> QED
        BY <4>2 DEF Canonical
    <3>3. j.rev \in 1..MaxRuns
      BY <1>1, BoundsAssumption DEF JobOK, Typed
    <3>4. c = [name |-> e.item.name, block |-> e.item.block, rev |-> j.rev,
               vec |-> e.vec, sources |-> e.sources]
      BY <2>1, <2>2, <3>1 DEF Upserted
    <3>5. c.rev = j.rev /\ c.sources = e.sources
      BY <3>4
    <3>6. c \in Card
      BY <3>2, <3>3, <3>4 DEF Card, Canonical, Record
    <3> QED
      BY <2>2, <3>1, <3>5, <3>6, NoneAssumption
  <2>3. CASE cards[k] # None
    <3>1. PICK n, b, v, w : n = j.canonical[i].item.name /\ b = j.canonical[i].item.block
                            /\ v = j.rev /\ w = Vector(j, cards[k], j.canonical[i])
      OBVIOUS
    <3>2. cards[k] \in Card
      BY <2>1, <2>3 DEF Typed
    <3>3. c = [cards[k] EXCEPT !.name = n, !.block = b, !.rev = v, !.vec = w]
      BY <2>1, <2>3, <3>1 DEF Upserted
    <3>4. c.rev = j.rev /\ c.sources = cards[k].sources
      BY <3>1, <3>2, <3>3 DEF Card
    <3>5. c # None
      <4>1. j.canonical[i] \in Canonical
        <5>1. j.canonical \in Seq(Canonical) /\ i \in DOMAIN j.canonical
          BY <1>1, <1>2, <1>4, SourcesAreKeys
        <5> QED
          BY <5>1
      <4>2. n \in Names /\ b \in Blocks /\ v \in 1..MaxRuns /\ w \in Texts \cup {None}
        BY <1>1, <3>1, <3>2, <4>1, BoundsAssumption
           DEF Canonical, Record, JobOK, Typed, Vector, Card
      <4>3. c \in Card
        BY <3>2, <3>3, <4>2 DEF Card
      <4> QED
        BY <4>3, NoneAssumption
    <3> QED
      BY <2>3, <3>4, <3>5
  <2> QED
    BY <2>2, <2>3
<1>5. ASSUME NEW k \in Keys, cards[k] # None
      PROVE  /\ cards'[k] # None /\ cards'[k].rev >= cards[k].rev
             /\ cards'[k].sources = cards[k].sources
  <2>1. CASE \E i \in Rows(j) : KeyOf(s, j, i) = k
    <3>1. PICK i \in Rows(j) : KeyOf(s, j, i) = k
      BY <2>1
    <3>2. j.canonical[i].item.url \in Urls /\ k = <<s, j.canonical[i].item.url>>
      BY <1>1, <1>2, <3>1, SourcesAreKeys DEF KeyOf
    <3>3. cards[k].rev <= j.rev /\ cards[k].rev \in Nat /\ j.rev \in Nat
      BY <1>1, <1>5, <3>2, SourcesAreKeys DEF JobOK
    <3> QED
      BY <1>4, <1>5, <3>1, <3>3
  <2>2. CASE ~ \E i \in Rows(j) : KeyOf(s, j, i) = k
    <3>1. cards'[k] = cards[k]
      BY <1>1, <2>2 DEF UpsertedCards
    <3>2. cards[k].rev \in Nat
      BY <1>1, <1>5, SourcesAreKeys
    <3> QED
      BY <1>5, <3>1, <3>2
  <2> QED
    BY <2>1, <2>2
<1>6. ASSUME NEW x, Known(x) PROVE Known(x)'
  <2>1. CASE x \in torn
    BY <1>1, <2>1 DEF Known
  <2>2. ASSUME NEW c \in Stored \ {x}, x \in cards[c].sources PROVE Known(x)'
    <3>1. c \in Stored' /\ x \in cards'[c].sources
      BY <1>5, <2>2 DEF Stored
    <3> QED
      BY <2>2, <3>1 DEF Known
  <2> QED
    BY <1>6, <2>1, <2>2 DEF Known
<1>7. Grows
  BY <1>5, <1>6 DEF Grows
<1>8. ASSUME NEW i \in Rows(j), NEW k, k = KeyOf(s, j, i), NEW x \in j.canonical[i].sources, x # k
      PROVE  x \in Unstored(s, j) \/ Known(x)'
  <2>1. k \in Keys
    BY <1>3, <1>8
  <2>2. CASE cards[k] = None
    <3>1. k \in Stored' /\ x \in cards'[k].sources
      BY <1>4, <1>8, <2>1, <2>2 DEF Stored
    <3> QED
      BY <1>8, <3>1 DEF Known
  <2>3. CASE cards[k] # None /\ x \in cards[k].sources
    <3>1. Known(x)
      BY <1>8, <2>1, <2>3 DEF Known, Stored
    <3> QED
      BY <1>6, <3>1
  <2>4. CASE cards[k] # None /\ x \notin cards[k].sources
    BY <1>8, <2>4 DEF Unstored
  <2> QED
    BY <2>2, <2>3, <2>4
<1> QED
  BY <1>4, <1>7, <1>8

LEMMA UpsertEmbeddedRec ==
    ASSUME Typed, AllJobs, AllRec, NEW s \in Sources, UpsertEmbedded(s)
    PROVE  Rec(s, job[s])' /\ Grows
<1>1. PICK j, r, f : j = job[s] /\ r = job'[s] /\ f = Unstored(s, job[s])
  OBVIOUS
<1>2. j \in Job /\ j.pc = "upsert" /\ Covered(s, j)
  BY <1>1 DEF Typed, AllRec, Rec, UpsertEmbedded
<1>3. PICK new : new = [j EXCEPT !.pc = "finish", !.folds = f]
  OBVIOUS
<1>4. Write(s, new) /\ r = new
  BY <1>1, <1>3 DEF UpsertEmbedded, Write, Commits, Typed
<1>5. /\ r.pc = "finish" /\ r.folds = Unstored(s, j) /\ r.page = j.page
      /\ r.canonical = j.canonical /\ r.rev = j.rev
  BY <1>1, <1>2, <1>3, <1>4 DEF Job
<1>6. /\ Grows
      /\ \A i \in Rows(j) :
             /\ cards'[KeyOf(s, j, i)] # None /\ cards'[KeyOf(s, j, i)].rev = j.rev
             /\ \A x \in j.canonical[i].sources :
                    x = KeyOf(s, j, i) \/ x \in Unstored(s, j) \/ Known(x)'
  BY <1>1, <1>2, <1>4, WriteGrows
<1>7. Embedded(r) = Rows(j) /\ \A i : KeyOf(s, r, i) = KeyOf(s, j, i)
  BY <1>2, <1>5 DEF Embedded, Rows, KeyOf
<1>8. j.rev \in Nat /\ Fetched(s, j.page) \subseteq Keys
  BY <1>2, SourcesAreKeys DEF Fetched, Keys
<1>9. Covered(s, r)'
  BY <1>2, <1>5, <1>6, <1>8 DEF Covered, Grows, Fetched
<1>10. ASSUME NEW i \in Embedded(r)
       PROVE  /\ cards'[KeyOf(s, r, i)] # None /\ cards'[KeyOf(s, r, i)].rev >= r.rev
              /\ \A x \in r.canonical[i].sources :
                     x = KeyOf(s, r, i) \/ x \in r.folds \/ Known(x)'
  BY <1>5, <1>6, <1>7, <1>8
<1>11. Rec(s, r)'
  BY <1>5, <1>9, <1>10 DEF Rec, Settled, Embedded, KeyOf
<1> QED
  BY <1>1, <1>6, <1>11, RecIsOfTheJob

LEMMA UpsertRestRec ==
    ASSUME Typed, Typed', AllJobs, AllRec, Reports, NEW s \in Sources, UpsertRest(s)
    PROVE  Rec(s, job[s])' /\ Grows /\ Reports'
<1>1. PICK j : j = job[s]
  OBVIOUS
<1>2. j \in Job /\ j.pc = "finish" /\ Write(s, Idle) /\ Covered(s, j) /\ Settled(s, j)
  BY <1>1 DEF Typed, AllRec, Rec, UpsertRest
<1>3. Rec(s, job[s])'
  BY <1>2, EndRec DEF Write
<1>4. /\ Grows
      /\ \A i \in Rows(j) :
             /\ cards'[KeyOf(s, j, i)] # None /\ cards'[KeyOf(s, j, i)].rev = j.rev
             /\ \A x \in j.canonical[i].sources :
                    x = KeyOf(s, j, i) \/ x \in Unstored(s, j) \/ Known(x)'
  BY <1>1, <1>2, WriteGrows
<1>5. PICK F : F = Fetched(s, j.page)
  OBVIOUS
<1>6. /\ F \subseteq Keys /\ j.rev \in 0..MaxRuns /\ j.rev \in Nat
      /\ \A k \in F : k[1] = s
  <2>1. F \subseteq Keys
    BY <1>2, <1>5, SourcesAreKeys DEF Fetched, Keys
  <2>2. \A k \in F : k[1] = s
    BY <1>5 DEF Fetched
  <2> QED
    BY <1>2, <2>1, <2>2, SourcesAreKeys DEF Job
<1>7. /\ report' = [report EXCEPT ![s] = [keys |-> F, rev |-> j.rev]]
      /\ unsaved' = (unsaved \ F) \cup j.folds \cup Unstored(s, j)
  BY <1>1, <1>5 DEF UpsertRest
<1>8. PICK e : e = [keys |-> F, rev |-> j.rev]
  OBVIOUS
<1>9. /\ e \in [keys: SUBSET Keys, rev: 0..MaxRuns] /\ e.keys = F /\ e.rev = j.rev
      /\ report' = [report EXCEPT ![s] = e]
  BY <1>6, <1>7, <1>8
<1>10. /\ report' \in [Sources -> [keys: SUBSET Keys, rev: 0..MaxRuns]]
       /\ report'[s] = e /\ \A t \in Sources : t # s => report'[t] = report[t]
  BY <1>9 DEF Reports
<1>11. ASSUME NEW k \in F
       PROVE  Known(k)' \/ k \in unsaved' \/ (cards'[k] # None /\ cards'[k].rev >= j.rev)
  <2>1. CASE Known(k)
    BY <1>4, <1>6, <2>1 DEF Grows
  <2>2. ASSUME NEW i \in DOMAIN j.canonical, k \in j.canonical[i].sources
        PROVE  Known(k)' \/ k \in unsaved' \/ (cards'[k] # None /\ cards'[k].rev >= j.rev)
    <3>1. CASE i \in Embedded(j)
      <4>1. /\ cards[KeyOf(s, j, i)] # None /\ cards[KeyOf(s, j, i)].rev >= j.rev
            /\ k = KeyOf(s, j, i) \/ k \in j.folds \/ Known(k)
        BY <1>2, <2>2, <3>1 DEF Settled
      <4>2. CASE k = KeyOf(s, j, i)
        <5>1. cards'[k] # None /\ cards'[k].rev >= cards[k].rev
          BY <1>4, <1>6, <4>1, <4>2 DEF Grows
        <5>2. cards[k].rev \in Nat /\ cards'[k].rev \in Nat
          BY <1>6, <4>1, <4>2, <5>1, BoundsAssumption DEF Typed, Card
        <5> QED
          BY <1>6, <4>1, <4>2, <5>1, <5>2
      <4>3. CASE k \in j.folds
        BY <1>7, <4>3
      <4>4. CASE Known(k)
        BY <1>4, <1>6, <4>4 DEF Grows
      <4> QED
        BY <4>1, <4>2, <4>3, <4>4
    <3>2. CASE i \notin Embedded(j)
      <4>1. i \in Rows(j)
        BY <1>2, <2>2, <3>2 DEF Rows
      <4>2. /\ cards'[KeyOf(s, j, i)] # None /\ cards'[KeyOf(s, j, i)].rev = j.rev
            /\ k = KeyOf(s, j, i) \/ k \in Unstored(s, j) \/ Known(k)'
        BY <1>4, <2>2, <4>1
      <4> QED
        BY <1>6, <1>7, <4>2
    <3> QED
      BY <3>1, <3>2
  <2> QED
    BY <1>2, <1>5, <2>1, <2>2 DEF Covered
<1>12. ASSUME NEW t \in Sources, t # s, NEW k \in report[t].keys
       PROVE  Known(k)' \/ k \in unsaved' \/ (cards'[k] # None /\ cards'[k].rev >= report[t].rev)
  <2>1. k \in Keys /\ k[1] = t /\ k \notin F /\ report[t].rev \in Nat
    BY <1>6, <1>12, BoundsAssumption DEF Reports
  <2>2. CASE Known(k) \/ k \in unsaved
    BY <1>4, <1>7, <2>1, <2>2 DEF Grows
  <2>3. CASE cards[k] # None /\ cards[k].rev >= report[t].rev
    <3>1. cards'[k] # None /\ cards'[k].rev >= cards[k].rev
      BY <1>4, <2>1, <2>3 DEF Grows
    <3>2. cards[k].rev \in Nat /\ cards'[k].rev \in Nat
      BY <2>1, <2>3, <3>1, BoundsAssumption DEF Typed, Card
    <3> QED
      BY <2>1, <2>3, <3>1, <3>2
  <2> QED
    BY <1>12, <2>2, <2>3 DEF Reports
<1>13. ASSUME NEW t \in Sources, NEW k \in report'[t].keys
       PROVE  /\ k[1] = t
              /\ Known(k)' \/ k \in unsaved' \/ (cards'[k] # None /\ cards'[k].rev >= report'[t].rev)
  <2>1. CASE t = s
    BY <1>6, <1>9, <1>10, <1>11, <1>13, <2>1
  <2>2. CASE t # s
    BY <1>10, <1>12, <1>13, <2>2 DEF Reports
  <2> QED
    BY <2>1, <2>2
<1>14. Reports'
  BY <1>10, <1>13 DEF Reports
<1> QED
  BY <1>3, <1>4, <1>14

----------------------------------------------------------------------------
LEMMA InitAll == Init => Typed /\ AllCards /\ AllJobs
<1> SUFFICES ASSUME Init PROVE Typed /\ AllCards /\ AllJobs
  OBVIOUS
<1>1. cards \in [Keys -> Card \cup {None}] /\ \A k \in Keys : cards[k] = None
  BY DEF Init, NoCatalogue
<1>2. job \in [Sources -> Job] /\ \A s \in Sources : JobOK(s, job[s], cards, runs)
  BY IdleIsOK DEF Init
<1>3. runs \in 0..MaxRuns
  BY BoundsAssumption DEF Init
<1> QED
  BY <1>1, <1>2, <1>3 DEF Typed, AllCards, AllJobs, CardOK

LEMMA StepAll ==
    ASSUME Typed, AllCards, AllJobs, [Next]_vars
    PROVE  /\ Typed' /\ AllCards' /\ AllJobs'
           /\ \A k \in Keys : cards[k] # None =>
                  cards'[k] # None /\ (cards[k].vec # None => cards'[k].vec # None)
<1>1. ASSUME NEW s \in Sources, \/ Start(s) \/ Dedup(s) \/ Embed(s) \/ EndEmbed(s)
                                \/ Refused(s) \/ Crash(s)
      PROVE  Typed' /\ AllCards' /\ AllJobs' /\ cards' = cards
  BY <1>1, StartMoves, DedupMoves, EmbedMoves, EndEmbedMoves, EndMoves
<1>2. ASSUME NEW s \in Sources, CommitMerges(s)
      PROVE  /\ Typed' /\ AllCards' /\ AllJobs'
             /\ \A k \in Keys : cards[k] # None => cards'[k] # None /\ cards'[k].vec = cards[k].vec
  BY <1>2, CommitMoves
<1>3. ASSUME NEW s \in Sources, UpsertEmbedded(s) \/ UpsertRest(s)
      PROVE  /\ Typed' /\ AllCards' /\ AllJobs'
             /\ \A k \in Keys : cards[k] # None =>
                    cards'[k] # None /\ (cards[k].vec # None => cards'[k].vec # None)
  BY <1>3, UpsertMoves
<1>4. CASE UNCHANGED vars
  <2>1. cards' = cards /\ job' = job /\ runs' = runs
    BY <1>4 DEF vars
  <2> QED
    BY <2>1 DEF Typed, AllCards, AllJobs, CardOK
<1> QED
  BY <1>1, <1>2, <1>3, <1>4 DEF Next, Step

(* A vector on a card is of that card's own text, as of this run or an     *)
(* earlier one, whatever the embedding service left out.                   *)
THEOREM VectorsAreOwn == Spec => []OwnVector
<1>1. Typed /\ AllCards => OwnVector
  BY DEF OwnVector, Stored, AllCards, CardOK
<1> QED
  BY <1>1, InitAll, StepAll, PTL DEF Spec

(* A card is never deleted, and never loses the vector it can be found by. *)
THEOREM VectorsAreKept == Spec => VectorKept
<1>1. ASSUME Typed, AllCards, AllJobs, [Next]_vars
      PROVE  [\A k \in Stored : cards'[k] # None /\ (cards[k].vec # None => cards'[k].vec # None)]_vars
  BY <1>1, StepAll DEF Stored
<1> QED
  BY <1>1, InitAll, StepAll, PTL DEF Spec, VectorKept

----------------------------------------------------------------------------
LEMMA InitRec == Init => AllRec /\ Reports
<1> SUFFICES ASSUME Init PROVE AllRec /\ Reports
  OBVIOUS
<1>1. \A s \in Sources : job[s].pc = "idle"
  BY DEF Init, Idle
<1>2. PICK e : e = [keys |-> {}, rev |-> 0]
  OBVIOUS
<1>3. e \in [keys: SUBSET Keys, rev: 0..MaxRuns] /\ e.keys = {}
  BY <1>2, BoundsAssumption
<1>4. report = [s \in Sources |-> e]
  BY <1>2 DEF Init
<1> QED
  BY <1>1, <1>3, <1>4 DEF AllRec, Rec, Reports

LEMMA StepRec ==
    ASSUME Typed, AllCards, AllJobs, AllRec, Reports, [Next]_vars
    PROVE  AllRec' /\ Reports'
<1>0. Typed'
  BY StepAll
<1>1. ASSUME NEW s \in Sources, NEW j \in Job,
             \/ job' = [job EXCEPT ![s] = j] /\ cards' = cards
             \/ Commits(s, j),
             Rec(s, job[s])', Grows
      PROVE  AllRec'
  BY <1>0, <1>1, OthersRec DEF AllRec
<1>2. ASSUME NEW s \in Sources, cards' = cards, torn' = torn, report' = report,
             unsaved' = unsaved, job' = [job EXCEPT ![s] = job'[s]], Rec(s, job[s])'
      PROVE  AllRec' /\ Reports'
  <2>1. Grows
    BY <1>2, SameGrows
  <2>2. job'[s] \in Job
    BY <1>0 DEF Typed
  <2> QED
    BY <1>0, <1>1, <1>2, <2>1, <2>2, ReportsKept
<1>3. ASSUME NEW s \in Sources, NEW j, job' = [job EXCEPT ![s] = j]
      PROVE  job' = [job EXCEPT ![s] = job'[s]]
  BY <1>3 DEF Typed
<1>4. ASSUME NEW s \in Sources, Start(s) PROVE AllRec' /\ Reports'
  BY <1>2, <1>3, <1>4, StartRec DEF Start, history
<1>5. ASSUME NEW s \in Sources, Dedup(s) PROVE AllRec' /\ Reports'
  <2>1. cards' = cards /\ torn' = torn /\ report' = report /\ unsaved' = unsaved
    BY <1>5 DEF Dedup, history
  <2>2. \E j : job' = [job EXCEPT ![s] = j]
    BY <1>5 DEF Dedup
  <2> QED
    BY <1>2, <1>3, <1>5, <2>1, <2>2, DedupRec
<1>6. ASSUME NEW s \in Sources, Embed(s) \/ EndEmbed(s) PROVE AllRec' /\ Reports'
  <2>1. cards' = cards /\ torn' = torn /\ report' = report /\ unsaved' = unsaved
    BY <1>6 DEF Embed, EndEmbed, history
  <2>2. \E j : job' = [job EXCEPT ![s] = j]
    BY <1>6 DEF Embed, EndEmbed
  <2> QED
    BY <1>2, <1>3, <1>6, <2>1, <2>2, EmbedRec
<1>7. ASSUME NEW s \in Sources, Refused(s) \/ Crash(s) PROVE AllRec' /\ Reports'
  <2>1. /\ cards' = cards /\ torn' = torn /\ report' = report /\ unsaved' = unsaved
        /\ job' = [job EXCEPT ![s] = Idle]
    BY <1>7 DEF Refused, Crash, history
  <2> QED
    BY <1>2, <1>3, <2>1, EndRec
<1>8. ASSUME NEW s \in Sources, CommitMerges(s) PROVE AllRec' /\ Reports'
  <2>1. PICK j : j = [job[s] EXCEPT !.pc = "embed", !.next = 1, !.existing = NoCatalogue,
                                    !.merges = {}]
    OBVIOUS
  <2>2. /\ report' = report /\ unsaved' = unsaved
        /\ \/ job' = [job EXCEPT ![s] = j] /\ cards' = cards
           \/ Commits(s, j)
    BY <1>8, <2>1 DEF CommitMerges
  <2>3. j \in Job
    BY <1>0, <2>2 DEF Commits, Typed
  <2> QED
    BY <1>0, <1>1, <1>8, <2>2, <2>3, CommitRec, ReportsKept
<1>9. ASSUME NEW s \in Sources, NEW j, Write(s, j)
      PROVE  \/ job' = [job EXCEPT ![s] = j] /\ cards' = cards
             \/ Commits(s, j)
  <2>1. CASE Rows(job[s]) = {}
    <3>1. cards' = [k \in Keys |-> cards[k]] /\ job' = [job EXCEPT ![s] = j]
      BY <1>9, <2>1 DEF Write, UpsertedCards
    <3> QED
      BY <3>1 DEF Typed
  <2>2. CASE Rows(job[s]) # {}
    BY <1>9, <2>2 DEF Write
  <2> QED
    BY <2>1, <2>2
<1>10. ASSUME NEW s \in Sources, UpsertEmbedded(s) PROVE AllRec' /\ Reports'
  <2>1. PICK j : j = [job[s] EXCEPT !.pc = "finish", !.folds = Unstored(s, job[s])]
    OBVIOUS
  <2>2. Write(s, j) /\ report' = report /\ unsaved' = unsaved
    BY <1>10, <2>1 DEF UpsertEmbedded
  <2>3. \/ job' = [job EXCEPT ![s] = j] /\ cards' = cards
        \/ Commits(s, j)
    BY <1>9, <2>2
  <2>4. j \in Job
    BY <1>0, <2>3 DEF Commits, Typed
  <2> QED
    BY <1>0, <1>1, <1>10, <2>2, <2>3, <2>4, UpsertEmbeddedRec, ReportsKept
<1>11. ASSUME NEW s \in Sources, UpsertRest(s) PROVE AllRec' /\ Reports'
  <2>1. Write(s, Idle) /\ Idle \in Job
    BY <1>11, IdleIsOK DEF UpsertRest
  <2>2. \/ job' = [job EXCEPT ![s] = Idle] /\ cards' = cards
        \/ Commits(s, Idle)
    BY <1>9, <2>1
  <2> QED
    BY <1>0, <1>1, <1>11, <2>1, <2>2, UpsertRestRec
<1>12. CASE UNCHANGED vars
  <2>1. /\ cards' = cards /\ job' = job /\ torn' = torn /\ report' = report
        /\ unsaved' = unsaved
    BY <1>12 DEF vars, history
  <2>2. Grows /\ \A r : Known(r)' = Known(r)
    BY <2>1, SameGrows
  <2>3. AllRec'
    <3>1. ASSUME NEW s \in Sources, NEW j, Rec(s, j) PROVE Rec(s, j)'
      <4>1. (SnapKnown(j) => SnapKnown(j)') /\ (Covered(s, j) => Covered(s, j)')
        BY <2>2 DEF SnapKnown, Covered, Fetched
      <4>2. (Fresh(j) => Fresh(j)') /\ (Settled(s, j) => Settled(s, j)')
        BY <2>1, <2>2 DEF Fresh, Settled, Embedded, KeyOf
      <4>3. (Noted(s, j) => Noted(s, j)') /\ (Away(j) => Away(j)')
        BY DEF Noted, Away
      <4> QED
        BY <3>1, <4>1, <4>2, <4>3 DEF Rec
    <3> QED
      BY <2>1, <3>1 DEF AllRec
  <2> QED
    BY <1>0, <2>1, <2>2, <2>3, ReportsKept
<1> QED
  BY <1>4, <1>5, <1>6, <1>7, <1>8, <1>10, <1>11, <1>12 DEF Next, Step

(* What a completed run fetched is in the catalogue, but for the two ways  *)
(* a ref is lost, however many runs of however many sources overlap, fail  *)
(* and start again.                                                        *)
THEOREM FetchedIsRecorded == Spec => []Recorded
<1>1. Typed /\ Reports => Recorded
  BY DEF Reports, Recorded, Known, Stored
<1> QED
  BY <1>1, InitAll, InitRec, StepAll, StepRec, PTL DEF Spec

----------------------------------------------------------------------------
(* No two cards alike.  The records a job keeps are unlike each other, and *)
(* as long as it is alone, unlike every card they will not replace.        *)
Pairwise(j) ==
    \A i, l \in DOMAIN j.canonical :
        i # l /\ j.canonical[i].item.block = j.canonical[l].item.block =>
            Score[j.canonical[i].item.name, j.canonical[l].item.name] < AutoMatch
Clear(j, c) ==
    \A i \in DOMAIN j.canonical, k \in Keys :
        /\ c[k] # None /\ k[2] # j.canonical[i].item.url
        /\ c[k].block = j.canonical[i].item.block
        => Score[j.canonical[i].item.name, c[k].name] < AutoMatch
Apart(j, c) == Pairwise(j) /\ (j.alone => Clear(j, c))
AllApart == \A s \in Sources : Apart(job[s], cards)

(* There is a highest score, found by halving: scores are at most 100.     *)
LEMMA Halve ==
    ASSUME NEW V \in SUBSET Int, NEW d \in Nat,
           \E lo, hi \in Int : /\ \E v \in V : v >= lo
                               /\ \A v \in V : v < hi
                               /\ hi <= lo + (d + d)
    PROVE  \E lo, hi \in Int : /\ \E v \in V : v >= lo
                               /\ \A v \in V : v < hi
                               /\ hi <= lo + d
<1>1. PICK lo \in Int, hi \in Int : /\ \E v \in V : v >= lo
                                    /\ \A v \in V : v < hi
                                    /\ hi <= lo + (d + d)
  OBVIOUS
<1>2. CASE \E v \in V : v >= lo + d
  <2>1. lo + d \in Int /\ hi <= (lo + d) + d
    BY <1>1
  <2> QED
    BY <1>1, <1>2, <2>1
<1>3. CASE \A v \in V : v < lo + d
  <2>1. lo + d \in Int /\ lo + d <= lo + d
    BY <1>1
  <2> QED
    BY <1>1, <1>3, <2>1
<1> QED
  BY <1>1, <1>2, <1>3

LEMMA Highest ==
    ASSUME NEW V \in SUBSET (0..100), V # {}
    PROVE  \E h \in V : \A v \in V : v <= h
<1> DEFINE In(d) == \E lo, hi \in Int : /\ \E v \in V : v >= lo
                                        /\ \A v \in V : v < hi
                                        /\ hi <= lo + d
<1>1. V \in SUBSET Int /\ \A v \in V : v >= 0 /\ v < 101
  OBVIOUS
<1>2. In(128)
  <2>1. 0 \in Int /\ 101 \in Int /\ 101 <= 0 + 128
    OBVIOUS
  <2> QED
    BY <1>1, <2>1
<1> HIDE DEF In
<1>3. ASSUME NEW d \in Nat, In(d + d) PROVE In(d)
  BY <1>1, <1>3, Halve DEF In
<1>4. /\ 64 + 64 = 128 /\ 32 + 32 = 64 /\ 16 + 16 = 32 /\ 8 + 8 = 16
      /\ 4 + 4 = 8 /\ 2 + 2 = 4 /\ 1 + 1 = 2
  OBVIOUS
<1>5. In(64)
  BY <1>2, <1>3, <1>4
<1>6. In(32)
  BY <1>3, <1>4, <1>5
<1>7. In(16)
  BY <1>3, <1>4, <1>6
<1>8. In(8)
  BY <1>3, <1>4, <1>7
<1>9. In(4)
  BY <1>3, <1>4, <1>8
<1>10. In(2)
  BY <1>3, <1>4, <1>9
<1>11. In(1)
  BY <1>3, <1>4, <1>10
<1> QED
  BY <1>1, <1>11 DEF In

(* A record with no match is unlike all it was compared with.              *)
LEMMA NotAlike ==
    ASSUME NEW name \in Names, NEW like, \A c \in DOMAIN like : like[c] \in Names,
           None \notin DOMAIN like, None \in Candidates(name, like)
    PROVE  \A c \in DOMAIN like :
               Score[name, like[c]] < AutoMatch /\ Score[like[c], name] < AutoMatch
<1>1. PICK sc : sc = [c \in DOMAIN like |-> Score[name, like[c]]]
  OBVIOUS
<1>2. \A c \in DOMAIN like :
          /\ sc[c] = Score[name, like[c]] /\ sc[c] = Score[like[c], name] /\ sc[c] \in 0..100
          /\ name = Blank => sc[c] = 0
  BY <1>1, ScoreAssumption
<1>3. AutoMatch \in Nat /\ Ambiguous \in Nat /\ 0 < Ambiguous /\ Ambiguous <= AutoMatch
  BY ThresholdAssumption
<1>4. SUFFICES ASSUME NEW c \in DOMAIN like, ~ (sc[c] < AutoMatch) PROVE FALSE
  BY <1>2
<1>5. name # Blank /\ sc[c] >= AutoMatch
  <2>1. sc[c] \in 0..100
    BY <1>2
  <2>2. sc[c] >= AutoMatch
    BY <1>3, <1>4, <2>1
  <2>3. name = Blank => sc[c] = 0
    BY <1>2
  <2>4. sc[c] # 0
    BY <1>3, <2>1, <2>2
  <2> QED
    BY <2>2, <2>3, <2>4
<1>6. PICK V : V = {sc[d] : d \in DOMAIN like}
  OBVIOUS
<1>7. V \in SUBSET (0..100) /\ V # {}
  BY <1>2, <1>6
<1>8. PICK h \in V : \A v \in V : v <= h
  BY <1>7, Highest
<1>9. PICK b \in DOMAIN like : h = sc[b]
  BY <1>6, <1>8
<1>10. \A d \in DOMAIN like : sc[d] <= sc[b]
  BY <1>6, <1>8, <1>9
<1>11. sc[b] >= AutoMatch /\ sc[b] >= Ambiguous
  <2>1. sc[b] \in 0..100 /\ sc[c] \in 0..100 /\ sc[c] <= sc[b]
    BY <1>2, <1>10
  <2> QED
    BY <1>3, <1>5, <2>1
<1>12. None \in Matches(name, like)
  BY <1>5 DEF Candidates
<1>13. PICK best : best = {d \in DOMAIN like : Score[name, like[d]] >= Ambiguous
                              /\ \A e \in DOMAIN like : Score[name, like[e]] <= Score[name, like[d]]}
  OBVIOUS
<1>14. ~ \E d \in best : Score[name, like[d]] >= AutoMatch
  <2>1. None \notin best
    BY <1>13
  <2> QED
    BY <1>12, <1>13, <2>1 DEF Matches
<1>15. b \in best
  BY <1>2, <1>10, <1>11, <1>13
<1> QED
  BY <1>2, <1>11, <1>14, <1>15

LEMMA Items ==
    ASSUME NEW j \in Job
    PROVE  /\ j.canonical \in Seq(Canonical)
           /\ \A i \in DOMAIN j.canonical :
                  /\ j.canonical[i].item \in Record /\ j.canonical[i].item.url \in Urls
                  /\ j.canonical[i].item.name \in Names /\ j.canonical[i].item.block \in Blocks
<1>1. j.canonical \in Seq(Canonical)
  BY DEF Job
<1>2. \A i \in DOMAIN j.canonical : j.canonical[i] \in Canonical
  BY <1>1
<1> QED
  BY <1>1, <1>2 DEF Canonical, Record

(* A step that changes neither the items a job keeps nor names and blocks. *)
LEMMA StaysApart ==
    ASSUME NEW j, NEW r, NEW c, NEW d, Apart(j, c),
           DOMAIN r.canonical = DOMAIN j.canonical,
           \A i \in DOMAIN j.canonical : r.canonical[i].item = j.canonical[i].item,
           r.alone => j.alone,
           \A k \in Keys : d[k] # None =>
               c[k] # None /\ d[k].name = c[k].name /\ d[k].block = c[k].block
    PROVE  Apart(r, d)
<1>1. Pairwise(r)
  BY DEF Apart, Pairwise
<1>2. ASSUME r.alone PROVE Clear(r, d)
  BY <1>2 DEF Apart, Clear
<1> QED
  BY <1>1, <1>2 DEF Apart

LEMMA NothingKept == \A c : Apart(Idle, c)
BY DEF Apart, Pairwise, Clear, Idle

(* A step of one job that writes no card.                                  *)
LEMMA OnlyJobApart ==
    ASSUME Typed, AllApart, NoTwins, NEW s \in Sources, NEW r, Apart(r, cards),
           job' = [job EXCEPT ![s] = r], cards' = cards, blind' = blind
    PROVE  AllApart' /\ NoTwins'
<1>1. \A t \in Sources : job'[t] = IF t = s THEN r ELSE job[t]
  BY DEF Typed
<1>2. \A t \in Sources : Apart(job'[t], cards')
  BY <1>1 DEF AllApart
<1>3. NoTwins'
  BY DEF NoTwins, Twins, Stored
<1> QED
  BY <1>2, <1>3 DEF AllApart

(* A step of one job after which no other that runs is alone.              *)
LEMMA CommitsApart ==
    ASSUME Typed, AllApart, NEW s \in Sources, NEW r, Commits(s, r), Apart(r, cards')
    PROVE  AllApart'
<1> SUFFICES ASSUME NEW t \in Sources PROVE Apart(job'[t], cards')
  BY DEF AllApart
<1>1. CASE t = s
  BY <1>1 DEF Commits
<1>2. CASE t # s
  <2>1. PICK b : b = (job[t] = Idle)
    OBVIOUS
  <2>2. PICK j, q : j = job[t] /\ q = [j EXCEPT !.alone = b]
    OBVIOUS
  <2>3. job'[t] = q
    BY <1>2, <2>1, <2>2 DEF Commits
  <2>4. j \in Job /\ Apart(j, cards)
    BY <2>2 DEF Typed, AllApart
  <2>5. q.canonical = j.canonical /\ q.alone = b
    BY <2>2, <2>4 DEF Job
  <2>6. Pairwise(q)
    BY <2>4, <2>5 DEF Apart, Pairwise
  <2>7. b => Clear(q, cards')
    <3>1. b => j = Idle
      BY <2>1, <2>2, Zenon
    <3>2. Idle.canonical = <<>> /\ DOMAIN <<>> = {}
      BY DEF Idle
    <3>3. b => DOMAIN q.canonical = {}
      BY <2>5, <3>1, <3>2
    <3> QED
      BY <3>3 DEF Clear
  <2> QED
    BY <2>3, <2>5, <2>6, <2>7 DEF Apart
<1> QED
  BY <1>1, <1>2

LEMMA DedupApart ==
    ASSUME Typed, AllCards, AllJobs, AllRec, AllApart, NoTwins, NEW s \in Sources, Dedup(s)
    PROVE  AllApart' /\ NoTwins'
<1>1. PICK old : old = job[s]
  OBVIOUS
<1>2. /\ old \in Job /\ JobOK(s, old, cards, runs) /\ Fresh(old) /\ Apart(old, cards)
      /\ old.next <= Len(old.page)
  BY <1>1 DEF Typed, AllJobs, AllRec, Rec, AllApart, Dedup
<1>3. PICK n, item, ref : n = old.next + 1 /\ item = old.page[old.next] /\ ref = <<s, item.url>>
  OBVIOUS
<1>4. PICK j : j = [old EXCEPT !.next = n]
  OBVIOUS
<1>5. item \in Record /\ item.name \in Names /\ item.block \in Blocks
  <2>1. old.next \in Nat /\ old.next >= 1 /\ old.page \in Seq(Record)
    BY <1>2 DEF Job, JobOK
  <2>2. item \in Record
    BY <1>2, <1>3, <2>1
  <2> QED
    BY <2>2 DEF Record
<1>6. /\ j.existing = old.existing /\ j.canonical = old.canonical /\ j.alone = old.alone
      /\ j.canonical \in Seq(Canonical)
  BY <1>2, <1>4 DEF Job
<1>7. cards' = cards /\ blind' = blind
  BY DEF Dedup, history
<1>8. \E k \in Candidates(item.name, ExistingNames(s, j, item)) :
          \/ k # None /\ job' = [job EXCEPT ![s] = Merged(j, k, ref)]
          \/ /\ k = None
             /\ \E i \in Candidates(item.name, BatchNames(j, item)) :
                    job' = [job EXCEPT ![s] =
                               IF i # None THEN Folded(j, i, ref) ELSE Kept(j, item, ref)]
  <2>1. /\ j = [job[s] EXCEPT !.next = @ + 1] /\ ref = <<s, item.url>>
        /\ item = j.page[job[s].next]
    BY <1>1, <1>3, <1>4, <1>6
  <2> QED
    BY <2>1 DEF Dedup
<1>9. /\ DOMAIN j.canonical = 1..Len(j.canonical) /\ Len(j.canonical) \in Nat
      /\ j = [old EXCEPT !.next = n] /\ old.canonical \in Seq(Canonical)
  BY <1>2, <1>4, <1>6 DEF Job
<1>10. ASSUME NEW k, job' = [job EXCEPT ![s] = Merged(j, k, ref)] PROVE AllApart' /\ NoTwins'
  <2>1. PICK r : r = Merged(j, k, ref)
    OBVIOUS
  <2>2. r.canonical = old.canonical /\ r.alone = old.alone
    BY <1>2, <1>4, <2>1 DEF Merged, Job
  <2>3. Apart(r, cards)
    BY <1>2, <2>2 DEF Apart, Pairwise, Clear
  <2> QED
    BY <1>7, <1>10, <2>1, <2>3, OnlyJobApart
<1>11. ASSUME NEW i \in Candidates(item.name, BatchNames(j, item)), i # None,
              job' = [job EXCEPT ![s] = Folded(j, i, ref)]
       PROVE  AllApart' /\ NoTwins'
  <2>1. i \in DOMAIN j.canonical
    BY <1>11, CandidatesAreKeys DEF BatchNames
  <2>2. PICK c : c = [j.canonical[i] EXCEPT !.sources = @ \cup {ref}]
    OBVIOUS
  <2>3. j.canonical[i] \in Canonical
    BY <1>6, <2>1
  <2>4. c.item = j.canonical[i].item
    BY <2>2, <2>3 DEF Canonical
  <2>5. PICK cs : cs = [j.canonical EXCEPT ![i] = c]
    OBVIOUS
  <2>6. /\ DOMAIN cs = DOMAIN j.canonical
        /\ \A l \in DOMAIN cs : cs[l].item = j.canonical[l].item
    BY <2>1, <2>4, <2>5
  <2>7. PICK r : r = [j EXCEPT !.canonical = cs]
    OBVIOUS
  <2>8. r.canonical = cs /\ r.alone = old.alone
    BY <1>2, <1>4, <2>7 DEF Job
  <2>9. Apart(r, cards)
    BY <1>2, <1>6, <2>6, <2>8, StaysApart
  <2>10. job' = [job EXCEPT ![s] = r]
    BY <1>11, <2>2, <2>5, <2>7 DEF Folded
  <2> QED
    BY <1>7, <2>9, <2>10, OnlyJobApart
<1>12. ASSUME None \in Candidates(item.name, ExistingNames(s, j, item)),
              None \in Candidates(item.name, BatchNames(j, item)),
              job' = [job EXCEPT ![s] = Kept(j, item, ref)]
       PROVE  AllApart' /\ NoTwins'
  <2>1. PICK c : c = [item |-> item, sources |-> {ref}, vec |-> None]
    OBVIOUS
  <2>2. PICK cs : cs = Append(j.canonical, c)
    OBVIOUS
  <2>3. PICK r : r = [j EXCEPT !.canonical = cs]
    OBVIOUS
  <2>4. r.canonical = cs /\ r.alone = old.alone
    BY <1>2, <1>4, <2>3 DEF Job
  <2>5. PICK m : m = Len(j.canonical) + 1
    OBVIOUS
  <2>6. /\ DOMAIN cs = DOMAIN j.canonical \cup {m} /\ m \notin DOMAIN j.canonical
        /\ cs[m].item = item /\ \A i \in DOMAIN j.canonical : cs[i] = j.canonical[i]
    BY <1>6, <1>9, <2>1, <2>2, <2>5
  <2>7. ASSUME NEW i \in DOMAIN j.canonical, j.canonical[i].item.block = item.block
        PROVE  /\ Score[item.name, j.canonical[i].item.name] < AutoMatch
               /\ Score[j.canonical[i].item.name, item.name] < AutoMatch
    <3>1. PICK like : like = BatchNames(j, item)
      OBVIOUS
    <3>2. /\ DOMAIN like = {l \in DOMAIN j.canonical : j.canonical[l].item.block = item.block}
          /\ \A l \in DOMAIN like : like[l] = j.canonical[l].item.name
      BY <3>1 DEF BatchNames
    <3>3. \A l \in DOMAIN like : like[l] \in Names
      BY <1>2, <1>6, <3>2, Items
    <3>4. None \notin DOMAIN like
      BY <1>9, <3>2, NoneAssumption
    <3>5. i \in DOMAIN like
      BY <2>7, <3>2
    <3>6. None \in Candidates(item.name, like)
      BY <1>12, <3>1
    <3>7. \A l \in DOMAIN like : /\ Score[item.name, like[l]] < AutoMatch
                                 /\ Score[like[l], item.name] < AutoMatch
      BY <1>5, <3>3, <3>4, <3>6, NotAlike
    <3> QED
      BY <3>2, <3>5, <3>7
  <2>8. ASSUME old.alone, NEW k \in Keys, cards[k] # None, k[2] # item.url,
               cards[k].block = item.block
        PROVE  Score[item.name, cards[k].name] < AutoMatch
    <3>1. PICK like : like = ExistingNames(s, j, item)
      OBVIOUS
    <3>2. j.existing = cards
      BY <1>2, <1>6, <2>8 DEF Fresh
    <3>3. /\ DOMAIN like = {l \in Keys : /\ cards[l] # None /\ cards[l].block = item.block
                                         /\ l[2] # item.url}
          /\ \A l \in DOMAIN like : like[l] = cards[l].name
      BY <3>1, <3>2 DEF ExistingNames, OfOtherUrl, SameBlock
    <3>4. \A l \in DOMAIN like : like[l] \in Names
      BY <3>3 DEF Typed, Card
    <3>5. None \notin DOMAIN like
      BY <3>3, NoneAssumption
    <3>6. k \in DOMAIN like
      BY <2>8, <3>3
    <3>7. None \in Candidates(item.name, like)
      BY <1>12, <3>1
    <3>8. \A l \in DOMAIN like : Score[item.name, like[l]] < AutoMatch
      BY <1>5, <3>4, <3>5, <3>7, NotAlike
    <3> QED
      BY <3>3, <3>6, <3>8
  <2>9. Pairwise(r)
    <3>1. SUFFICES ASSUME NEW i \in DOMAIN cs, NEW l \in DOMAIN cs, i # l,
                          cs[i].item.block = cs[l].item.block
                   PROVE  Score[cs[i].item.name, cs[l].item.name] < AutoMatch
      BY <2>4 DEF Pairwise
    <3>2. CASE i \in DOMAIN j.canonical /\ l \in DOMAIN j.canonical
      <4>1. cs[i] = old.canonical[i] /\ cs[l] = old.canonical[l]
        BY <1>6, <2>6, <3>2
      <4> QED
        BY <1>2, <1>6, <3>1, <3>2, <4>1 DEF Apart, Pairwise
    <3>3. CASE i = m /\ l \in DOMAIN j.canonical
      <4>1. cs[i].item = item /\ cs[l] = j.canonical[l]
        BY <2>6, <3>3
      <4> QED
        BY <2>7, <3>1, <3>3, <4>1
    <3>4. CASE l = m /\ i \in DOMAIN j.canonical
      <4>1. cs[l].item = item /\ cs[i] = j.canonical[i]
        BY <2>6, <3>4
      <4> QED
        BY <2>7, <3>1, <3>4, <4>1
    <3> QED
      BY <2>6, <3>1, <3>2, <3>3, <3>4
  <2>10. ASSUME r.alone PROVE Clear(r, cards)
    <3>1. SUFFICES ASSUME NEW i \in DOMAIN cs, NEW k \in Keys, cards[k] # None,
                          k[2] # cs[i].item.url, cards[k].block = cs[i].item.block
                   PROVE  Score[cs[i].item.name, cards[k].name] < AutoMatch
      BY <2>4 DEF Clear
    <3>2. CASE i \in DOMAIN j.canonical
      <4>1. cs[i] = old.canonical[i] /\ i \in DOMAIN old.canonical
        BY <1>6, <2>6, <3>2
      <4>2. Clear(old, cards)
        BY <1>2, <2>4, <2>10 DEF Apart
      <4> QED
        BY <3>1, <4>1, <4>2 DEF Clear
    <3>3. CASE i = m
      <4>1. cs[i].item = item
        BY <2>6, <3>3
      <4> QED
        BY <2>4, <2>8, <2>10, <3>1, <4>1
    <3> QED
      BY <2>6, <3>2, <3>3
  <2>11. Apart(r, cards)
    BY <2>9, <2>10 DEF Apart
  <2>12. job' = [job EXCEPT ![s] = r]
    BY <1>12, <2>1, <2>2, <2>3 DEF Kept
  <2> QED
    BY <1>7, <2>11, <2>12, OnlyJobApart
<1> QED
  BY <1>8, <1>10, <1>11, <1>12

(* The merges change no name and no block.                                 *)
LEMMA CommitApart ==
    ASSUME Typed, AllCards, AllJobs, AllApart, NoTwins, NEW s \in Sources, CommitMerges(s)
    PROVE  AllApart' /\ NoTwins'
<1>1. PICK old : old = job[s]
  OBVIOUS
<1>2. old \in Job /\ JobOK(s, old, cards, runs) /\ Apart(old, cards)
  BY <1>1 DEF Typed, AllJobs, AllApart
<1>3. PICK j : j = [old EXCEPT !.pc = "embed", !.next = 1, !.existing = NoCatalogue, !.merges = {}]
  OBVIOUS
<1>4. j.canonical = old.canonical /\ j.alone = old.alone
  BY <1>2, <1>3 DEF Job
<1>5. cards' = MergedCards(old) /\ blind' = blind
  BY <1>1 DEF CommitMerges
<1>6. \A k \in Keys : /\ cards'[k] # None <=> cards[k] # None
                      /\ cards[k] # None => /\ cards'[k].name = cards[k].name
                                            /\ cards'[k].block = cards[k].block
  BY <1>2, <1>5, MergedOne
<1>7. Apart(j, cards')
  BY <1>2, <1>4, <1>6, StaysApart
<1>8. AllApart'
  <2>1. CASE MergedCards(old) = cards
    <3>1. cards' = cards /\ job' = [job EXCEPT ![s] = j]
      BY <1>1, <1>3, <1>5, <2>1 DEF CommitMerges
    <3> QED
      BY <1>5, <1>7, <3>1, OnlyJobApart
  <2>2. CASE MergedCards(old) # cards
    <3>1. Commits(s, j)
      BY <1>1, <1>3, <2>2 DEF CommitMerges
    <3> QED
      BY <1>7, <3>1, CommitsApart
  <2> QED
    BY <2>1, <2>2
<1>9. NoTwins'
  <2>1. \A k \in Keys : k \in Stored' => k \in Stored
    BY <1>6 DEF Stored
  <2>2. Stored' \subseteq Keys
    BY DEF Stored
  <2>3. ASSUME NEW k \in Stored' \ blind, NEW l \in Stored' \ blind PROVE ~ Twins(k, l)'
    BY <1>6, <2>1, <2>2 DEF NoTwins, Twins, Stored
  <2> QED
    BY <1>5, <2>3 DEF NoTwins
<1> QED
  BY <1>8, <1>9

(* A card after a statement of a job: of one of its records, or as it was. *)
LEMMA AfterWrite ==
    ASSUME Typed, NEW s \in Sources, NEW old \in Job, cards' = UpsertedCards(s, old),
           NEW k \in Keys
    PROVE  \/ k \notin Written(s, old) /\ cards'[k] = cards[k]
           \/ \E i \in DOMAIN old.canonical :
                  /\ k \in Written(s, old) /\ k[2] = old.canonical[i].item.url
                  /\ cards'[k].name = old.canonical[i].item.name
                  /\ cards'[k].block = old.canonical[i].item.block
<1>1. Written(s, old) = {KeyOf(s, old, i) : i \in Rows(old)}
  BY DEF Written
<1>2. CASE \E i \in Rows(old) : KeyOf(s, old, i) = k
  <2>1. PICK i : i = CHOOSE h \in Rows(old) : KeyOf(s, old, h) = k
    OBVIOUS
  <2>2. i \in Rows(old) /\ KeyOf(s, old, i) = k
    BY <1>2, <2>1
  <2>3. cards'[k] = Upserted(old, cards[k], old.canonical[i])
    BY <1>2, <2>1 DEF UpsertedCards
  <2>4. i \in DOMAIN old.canonical /\ k[2] = old.canonical[i].item.url
    BY <2>2 DEF Rows, Embedded, KeyOf
  <2>5. PICK c : c = old.canonical[i]
    OBVIOUS
  <2>6. CASE cards[k] = None
    <3>1. cards'[k] = [name |-> c.item.name, block |-> c.item.block, rev |-> old.rev,
                       vec |-> c.vec, sources |-> c.sources]
      BY <2>3, <2>5, <2>6 DEF Upserted
    <3> QED
      BY <1>1, <2>2, <2>4, <2>5, <3>1
  <2>7. CASE cards[k] # None
    <3>1. cards[k] \in Card
      BY <2>7 DEF Typed
    <3>2. PICK v : v = Vector(old, cards[k], c)
      OBVIOUS
    <3>3. cards'[k] = [cards[k] EXCEPT !.name = c.item.name, !.block = c.item.block,
                                       !.rev = old.rev, !.vec = v]
      BY <2>3, <2>5, <2>7, <3>2 DEF Upserted
    <3>4. cards'[k].name = c.item.name /\ cards'[k].block = c.item.block
      BY <3>1, <3>3 DEF Card
    <3> QED
      BY <1>1, <2>2, <2>4, <2>5, <3>4
  <2> QED
    BY <2>6, <2>7
<1>3. CASE ~ \E i \in Rows(old) : KeyOf(s, old, i) = k
  BY <1>1, <1>3 DEF UpsertedCards
<1> QED
  BY <1>2, <1>3

(* A score is below the threshold of a match or it is not.                  *)
LEMMA BelowOrNot ==
    ASSUME NEW x \in 0..100
    PROVE  x < AutoMatch <=> ~ (x >= AutoMatch)
<1> QED
  BY ThresholdAssumption

LEMMA WriteApart ==
    ASSUME Typed, AllApart, NoTwins, NEW s \in Sources, NEW j, Write(s, j),
           \/ j = Idle
           \/ j.canonical = job[s].canonical /\ j.alone = job[s].alone
    PROVE  AllApart' /\ NoTwins'
<1>1. PICK old, W : old = job[s] /\ W = Written(s, old)
  OBVIOUS
<1>2. /\ old \in Job /\ Apart(old, cards) /\ cards' = UpsertedCards(s, old)
      /\ blind' = IF old.alone THEN blind \ W ELSE blind \cup W
  BY <1>1 DEF Typed, AllApart, Write
<1>3. \A i \in DOMAIN old.canonical : old.canonical[i].item.name \in Names
  BY <1>2, Items
<1>4. \A k \in Keys :
          \/ k \notin W /\ cards'[k] = cards[k]
          \/ \E i \in DOMAIN old.canonical :
                 /\ k \in W /\ k[2] = old.canonical[i].item.url
                 /\ cards'[k].name = old.canonical[i].item.name
                 /\ cards'[k].block = old.canonical[i].item.block
  BY <1>1, <1>2, AfterWrite
<1>5. ASSUME old.alone, NEW i \in DOMAIN old.canonical, NEW k \in Keys, cards'[k] # None,
             k[2] # old.canonical[i].item.url, cards'[k].block = old.canonical[i].item.block
      PROVE  Score[old.canonical[i].item.name, cards'[k].name] < AutoMatch
  <2>1. CASE cards'[k] = cards[k]
    BY <1>2, <1>5, <2>1 DEF Apart, Clear
  <2>2. CASE cards'[k] # cards[k]
    <3>1. PICK h \in DOMAIN old.canonical :
              /\ k[2] = old.canonical[h].item.url
              /\ cards'[k].name = old.canonical[h].item.name
              /\ cards'[k].block = old.canonical[h].item.block
      BY <1>4, <2>2
    <3>2. i # h
      BY <1>5, <3>1
    <3> QED
      BY <1>2, <1>5, <3>1, <3>2 DEF Apart, Pairwise
  <2> QED
    BY <2>1, <2>2
<1>6. Apart(j, cards')
  <2>1. CASE j = Idle
    BY <2>1, NothingKept
  <2>2. CASE j.canonical = old.canonical /\ j.alone = old.alone
    <3>1. Pairwise(j)
      BY <1>2, <2>2 DEF Apart, Pairwise
    <3>2. ASSUME j.alone PROVE Clear(j, cards')
      BY <1>5, <2>2, <3>2 DEF Clear
    <3> QED
      BY <3>1, <3>2 DEF Apart
  <2> QED
    BY <1>1, <2>1, <2>2
<1>7. AllApart'
  <2>1. CASE Rows(old) = {}
    <3>1. cards' = [k \in Keys |-> cards[k]] /\ job' = [job EXCEPT ![s] = j]
      BY <1>1, <1>2, <2>1 DEF Write, UpsertedCards
    <3>2. cards' = cards
      BY <3>1 DEF Typed
    <3>3. \A t \in Sources : job'[t] = IF t = s THEN j ELSE job[t]
      BY <3>1 DEF Typed
    <3> QED
      BY <1>6, <3>2, <3>3 DEF AllApart
  <2>2. CASE Rows(old) # {}
    <3>1. Commits(s, j)
      BY <1>1, <2>2 DEF Write
    <3> QED
      BY <1>6, <3>1, CommitsApart
  <2> QED
    BY <2>1, <2>2
<1>8. ASSUME NEW k \in Keys, NEW l \in Keys, cards'[k] # None, cards'[l] # None,
             k \notin blind', l \notin blind', k[2] # l[2], cards'[k].block = cards'[l].block
      PROVE  Score[cards'[k].name, cards'[l].name] < AutoMatch
  <2>1. CASE k \notin W /\ l \notin W
    <3>1. cards'[k] = cards[k] /\ cards'[l] = cards[l]
      BY <1>4, <2>1
    <3>2. k \in Stored \ blind /\ l \in Stored \ blind
      BY <1>2, <1>8, <2>1, <3>1 DEF Stored
    <3>3. ~ (Score[cards[k].name, cards[l].name] >= AutoMatch)
      BY <1>8, <3>1, <3>2 DEF NoTwins, Twins
    <3>4. Score[cards[k].name, cards[l].name] \in 0..100
      <4>1. cards[k].name \in Names /\ cards[l].name \in Names
        BY <3>2 DEF Typed, Stored, Card
      <4> QED
        BY <4>1, ScoreAssumption
    <3>5. Score[cards[k].name, cards[l].name] < AutoMatch
      BY <3>3, <3>4, BelowOrNot
    <3> QED
      BY <3>1, <3>5
  <2>2. ASSUME NEW m \in Keys, NEW o \in Keys, m \in W, m[2] # o[2], cards'[o] # None,
               cards'[m].block = cards'[o].block, old.alone
        PROVE  Score[cards'[m].name, cards'[o].name] < AutoMatch
    <3>1. PICK i \in DOMAIN old.canonical :
              /\ m[2] = old.canonical[i].item.url
              /\ cards'[m].name = old.canonical[i].item.name
              /\ cards'[m].block = old.canonical[i].item.block
      BY <1>4, <2>2
    <3>2. o[2] # old.canonical[i].item.url /\ cards'[o].block = old.canonical[i].item.block
      BY <2>2, <3>1
    <3> QED
      BY <1>5, <2>2, <3>1, <3>2
  <2>3. CASE k \in W \/ l \in W
    <3>1. old.alone
      BY <1>2, <1>8, <2>3
    <3>2. CASE k \in W
      BY <1>8, <2>2, <3>1, <3>2
    <3>3. CASE l \in W
      <4>1. Score[cards'[l].name, cards'[k].name] < AutoMatch
        BY <1>8, <2>2, <3>1, <3>3
      <4>2. \A m \in Keys : cards'[m] # None => cards'[m].name \in Names
        <5>1. ASSUME NEW m \in Keys, cards'[m] # None PROVE cards'[m].name \in Names
          <6>1. CASE cards'[m] = cards[m]
            BY <5>1, <6>1 DEF Typed, Card
          <6>2. CASE cards'[m] # cards[m]
            BY <1>3, <1>4, <6>2
          <6> QED
            BY <6>1, <6>2
        <5> QED
          BY <5>1
      <4> QED
        BY <1>8, <4>1, <4>2, ScoreAssumption
    <3> QED
      BY <2>3, <3>2, <3>3
  <2> QED
    BY <2>1, <2>3
<1>9. NoTwins'
  <2>1. SUFFICES ASSUME NEW k \in Stored' \ blind', NEW l \in Stored' \ blind', Twins(k, l)'
                 PROVE  FALSE
    BY DEF NoTwins
  <2>2. /\ k \in Keys /\ cards'[k] # None /\ l \in Keys /\ cards'[l] # None
        /\ k[2] # l[2] /\ cards'[k].block = cards'[l].block
        /\ Score[cards'[k].name, cards'[l].name] >= AutoMatch
    BY <2>1 DEF Stored, Twins
  <2>3. Score[cards'[k].name, cards'[l].name] < AutoMatch
    BY <1>8, <2>1, <2>2
  <2>4. cards'[k].name \in Names /\ cards'[l].name \in Names
    <3>1. ASSUME NEW m \in Keys, cards'[m] # None PROVE cards'[m].name \in Names
      <4>1. CASE cards'[m] = cards[m]
        BY <3>1, <4>1 DEF Typed, Card
      <4>2. CASE cards'[m] # cards[m]
        BY <1>3, <1>4, <4>2
      <4> QED
        BY <4>1, <4>2
    <3> QED
      BY <2>2, <3>1
  <2>5. Score[cards'[k].name, cards'[l].name] \in 0..100
    BY <2>4, ScoreAssumption
  <2> QED
    BY <2>2, <2>3, <2>5, BelowOrNot
<1> QED
  BY <1>7, <1>9

LEMMA InitApart == Init => AllApart /\ NoTwins
<1> SUFFICES ASSUME Init PROVE AllApart /\ NoTwins
  OBVIOUS
<1>1. Stored = {}
  BY DEF Init, Stored, NoCatalogue
<1> QED
  BY <1>1, NothingKept DEF Init, AllApart, NoTwins

LEMMA StepApart ==
    ASSUME Typed, AllCards, AllJobs, AllRec, AllApart, NoTwins, [Next]_vars
    PROVE  AllApart' /\ NoTwins'
<1>1. ASSUME NEW s \in Sources, Start(s) PROVE AllApart' /\ NoTwins'
  <2>1. PICK page \in Pages[s] :
            job' = [job EXCEPT ![s] = [Idle EXCEPT
                       !.pc = "dedup", !.rev = runs + 1, !.page = page, !.existing = cards]]
    BY <1>1 DEF Start
  <2>2. PICK d, n : d = Idle /\ n = runs + 1
    OBVIOUS
  <2>3. d \in Job /\ d.canonical = <<>>
    BY <2>2, IdleIsOK DEF Idle
  <2>4. PICK j : j = [d EXCEPT !.pc = "dedup", !.rev = n, !.page = page, !.existing = cards]
    OBVIOUS
  <2>5. j.canonical = <<>>
    BY <2>3, <2>4 DEF Job
  <2>6. Apart(j, cards)
    BY <2>5 DEF Apart, Pairwise, Clear
  <2>7. job' = [job EXCEPT ![s] = j]
    BY <2>1, <2>2, <2>4
  <2> QED
    BY <1>1, <2>6, <2>7, OnlyJobApart DEF Start, history
<1>2. ASSUME NEW s \in Sources, Embed(s) \/ EndEmbed(s) PROVE AllApart' /\ NoTwins'
  <2>1. PICK j : j = job[s]
    OBVIOUS
  <2>2. j \in Job /\ Apart(j, cards)
    BY <2>1 DEF Typed, AllApart
  <2>3. CASE EndEmbed(s)
    <3>1. PICK r : r = [j EXCEPT !.pc = "upsert"]
      OBVIOUS
    <3>2. r.canonical = j.canonical /\ r.alone = j.alone
      BY <2>2, <3>1 DEF Job
    <3>3. Apart(r, cards)
      BY <2>2, <3>2 DEF Apart, Pairwise, Clear
    <3>4. job' = [job EXCEPT ![s] = r] /\ cards' = cards /\ blind' = blind
      BY <2>1, <2>3, <3>1 DEF EndEmbed, history
    <3> QED
      BY <3>3, <3>4, OnlyJobApart
  <2>4. CASE Embed(s)
    <3>1. PICK answered \in SUBSET Batch(j) : job' = [job EXCEPT ![s] = Answer(s, j, answered)]
      BY <2>1, <2>4 DEF Embed
    <3>2. PICK cs : cs = [i \in DOMAIN j.canonical |->
                             IF i \in Batch(j) /\ HasKey /\ Accepts(Batch(j), answered)
                             THEN [j.canonical[i] EXCEPT !.vec = Zipped(j, s, answered, i)]
                             ELSE j.canonical[i]]
      OBVIOUS
    <3>3. PICK n : n = j.next + BatchSize
      OBVIOUS
    <3>4. PICK r : r = [j EXCEPT !.next = n, !.canonical = cs]
      OBVIOUS
    <3>5. r = Answer(s, j, answered)
      BY <3>2, <3>3, <3>4 DEF Answer
    <3>6. r.canonical = cs /\ r.alone = j.alone
      BY <2>2, <3>4 DEF Job
    <3>7. DOMAIN cs = DOMAIN j.canonical
      BY <3>2
    <3>8. \A i \in DOMAIN j.canonical : cs[i].item = j.canonical[i].item
      <4>1. ASSUME NEW i \in DOMAIN j.canonical PROVE cs[i].item = j.canonical[i].item
        <5>1. j.canonical[i] \in Canonical
          BY <2>2, Items
        <5>2. PICK v : v = Zipped(j, s, answered, i)
          OBVIOUS
        <5>3. cs[i] = j.canonical[i] \/ cs[i] = [j.canonical[i] EXCEPT !.vec = v]
          BY <3>2, <5>2
        <5> QED
          BY <5>1, <5>3 DEF Canonical
      <4> QED
        BY <4>1
    <3>9. Apart(r, cards)
      BY <2>2, <3>6, <3>7, <3>8, StaysApart
    <3> QED
      BY <2>4, <3>1, <3>5, <3>9, OnlyJobApart DEF Embed, history
  <2> QED
    BY <1>2, <2>3, <2>4
<1>3. ASSUME NEW s \in Sources, Refused(s) \/ Crash(s) PROVE AllApart' /\ NoTwins'
  BY <1>3, NothingKept, OnlyJobApart DEF Refused, Crash, history
<1>4. ASSUME NEW s \in Sources, UpsertEmbedded(s) PROVE AllApart' /\ NoTwins'
  <2>1. PICK f : f = Unstored(s, job[s])
    OBVIOUS
  <2>2. PICK j : j = [job[s] EXCEPT !.pc = "finish", !.folds = f]
    OBVIOUS
  <2>3. Write(s, j)
    BY <1>4, <2>1, <2>2 DEF UpsertEmbedded
  <2>4. j.canonical = job[s].canonical /\ j.alone = job[s].alone
    BY <2>2 DEF Typed, Job
  <2> QED
    BY <2>3, <2>4, WriteApart
<1>5. ASSUME NEW s \in Sources, UpsertRest(s) PROVE AllApart' /\ NoTwins'
  BY <1>5, WriteApart DEF UpsertRest
<1>6. CASE UNCHANGED vars
  BY <1>6 DEF vars, history, AllApart, NoTwins, Twins, Stored
<1> QED
  BY <1>1, <1>2, <1>3, <1>4, <1>5, <1>6, DedupApart, CommitApart DEF Next, Step

(* A run that no other run of the catalogue overlaps leaves no two cards   *)
(* of one block that the fuzzy match takes for the same.                   *)
THEOREM TwinsNeedOverlap == Spec => []NoTwins
BY InitAll, InitRec, InitApart, StepAll, StepRec, StepApart, PTL DEF Spec
==============================================================================
