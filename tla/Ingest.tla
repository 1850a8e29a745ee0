------------------------------- MODULE Ingest --------------------------------
(***************************************************************************)
(* The ingestion pipeline: backend/app/ingestion/pipeline.py and dedup.py. *)
(*                                                                         *)
(* One CronJob per source fetches a page of records, compares them with a  *)
(* snapshot of the catalogue, writes the merges, embeds the rest in        *)
(* batches and upserts it in two statements.  Jobs of two sources overlap  *)
(* freely, one of a source does not (concurrencyPolicy Forbid); a job that *)
(* fails is started again from the top.  Cards are never deleted.          *)
(***************************************************************************)
EXTENDS Integers, Sequences, FiniteSets

CONSTANTS
    Sources,
    Urls,        \* source_url values
    Names,       \* normalised names
    Blank,       \* the name of which normalize_name leaves nothing
    Blocks,      \* block keys: a day, a map cell or a prefix
    Score,       \* token_set_ratio of two names
    Pages,       \* source -> the pages it may serve: sequences of records
    None,
    AutoMatch, Ambiguous,   \* the two thresholds of dedup.py
    BatchSize,   \* texts per embedding request
    HasKey,      \* VOYAGE_API_KEY is set
    MaxRuns      \* bound: runs in a behaviour

Record == [url: Urls, name: Names, block: Blocks]

ASSUME NamesAssumption == Blank \in Names
ASSUME ScoreAssumption ==
    /\ Score \in [Names \X Names -> 0..100]
    /\ \A n, m \in Names : Score[n, m] = Score[m, n]
    /\ \A n \in Names : Score[n, Blank] = 0
ASSUME PagesAssumption == Pages \in [Sources -> SUBSET Seq(Record)]
ASSUME ThresholdAssumption ==
    AutoMatch \in Nat /\ Ambiguous \in Nat /\ 0 < Ambiguous /\ Ambiguous <= AutoMatch
ASSUME BoundsAssumption == BatchSize \in Nat \ {0} /\ MaxRuns \in Nat
ASSUME KeyAssumption == HasKey \in BOOLEAN

VARIABLES
    cards,      \* <<source, source_url>> -> the row of `items`, or None
    job,        \* source -> its running job
    runs,       \* runs started
    report,     \* history: source -> what its last completed run fetched
    blind,      \* history: cards last written by a run that saw an old catalogue
    torn,       \* history: refs written over from an old copy of a sources list
    unsaved     \* history: refs folded into a record whose card was stored already

history == <<report, blind, torn, unsaved>>
vars == <<cards, job, runs, history>>

(* A card is known by its unique key.  `rev` is the run whose text it has, *)
(* `vec` the key and the run of the text its vector was computed from.     *)
Keys == Sources \X Urls
Texts == Keys \X (1..MaxRuns)
Card == [name: Names, block: Blocks, rev: 1..MaxRuns,
         vec: Texts \cup {None}, sources: SUBSET Keys]
ASSUME NoneAssumption == None \notin Card \cup Texts \cup Keys \cup Nat

(* A record kept as canonical: its place on the page, the refs folded into *)
(* it, and the text whose vector it got.                                   *)
Canonical == [item: Record, sources: SUBSET Keys, vec: Texts \cup {None}]

Steps == {"idle", "dedup", "embed", "upsert", "finish"}
NoCatalogue == [k \in Keys |-> None]
Idle == [pc |-> "idle", rev |-> 0, page |-> <<>>, next |-> 1, existing |-> NoCatalogue,
         merges |-> {}, canonical |-> <<>>, alone |-> TRUE, folds |-> {}]

Init ==
    /\ cards = NoCatalogue
    /\ job = [s \in Sources |-> Idle]
    /\ runs = 0
    /\ report = [s \in Sources |-> [keys |-> {}, rev |-> 0]]
    /\ blind = {} /\ torn = {} /\ unsaved = {}

Stored == {k \in Keys : cards[k] # None}

(* Job s goes on as j; the jobs of the other sources, if any are running,  *)
(* no longer see the catalogue as it is.                                   *)
Commits(s, j) ==
    job' = [t \in Sources |-> IF t = s THEN j ELSE [job[t] EXCEPT !.alone = job[t] = Idle]]

----------------------------------------------------------------------------
(* fetch() and the snapshot of the catalogue, without its vectors.  A      *)
(* source that is down ends the run before it changes anything, and        *)
(* records that cannot be normalised are not on the page.                  *)
Start(s) ==
    /\ job[s] = Idle /\ runs < MaxRuns
    /\ runs' = runs + 1
    /\ \E page \in Pages[s] :
           job' = [job EXCEPT ![s] = [Idle EXCEPT
                      !.pc = "dedup", !.rev = runs + 1, !.page = page, !.existing = cards]]
    /\ UNCHANGED <<cards, history>>

(* _best_match: the candidate of the highest score matches from AutoMatch  *)
(* on, and from Ambiguous on if the adjudicator says so, which it may not  *)
(* when it is not configured or fails.  `like` maps candidates to names.   *)
Matches(name, like) ==
    LET score(c) == Score[name, like[c]]
        best == {c \in DOMAIN like :
                    score(c) >= Ambiguous /\ \A d \in DOMAIN like : score(d) <= score(c)}
    IN  best \cup IF \E c \in best : score(c) >= AutoMatch THEN {} ELSE {None}
Candidates(name, like) == IF name = Blank THEN {None} ELSE Matches(name, like)

(* The block of a stored card is computed from its start as it is read     *)
(* back; it is the record's for starts in UTC, which the feeds give.  The  *)
(* fixtures are in local time: a start soon after midnight moves a day.    *)
SameBlock(j, item) == {k \in Keys : j.existing[k] # None /\ j.existing[k].block = item.block}
OfOtherSource(s, j, item) == {k \in SameBlock(j, item) : k[1] # s}
OfOtherUrl(s, j, item) == {k \in SameBlock(j, item) : k[2] # item.url}
ExistingNames(s, j, item) == [k \in OfOtherUrl(s, j, item) |-> j.existing[k].name]
BatchNames(j, item) ==
    [i \in {i \in DOMAIN j.canonical : j.canonical[i].item.block = item.block} |->
        j.canonical[i].item.name]

(* One turn of the loop of deduplicate(): a match in the catalogue, else a *)
(* twin in the batch, else a new canonical record.                         *)
Merged(j, k, ref) == [j EXCEPT !.merges = @ \cup {<<k, ref>>}]
Folded(j, i, ref) == [j EXCEPT !.canonical[i].sources = @ \cup {ref}]
Kept(j, item, ref) ==
    [j EXCEPT !.canonical = Append(@, [item |-> item, sources |-> {ref}, vec |-> None])]
Dedup(s) ==
    LET j == [job[s] EXCEPT !.next = @ + 1]
        item == j.page[job[s].next]
        ref == <<s, item.url>>
    IN  /\ job[s].pc = "dedup" /\ job[s].next <= Len(job[s].page)
        /\ \E k \in Candidates(item.name, ExistingNames(s, j, item)) :
               \/ k # None /\ job' = [job EXCEPT ![s] = Merged(j, k, ref)]
               \/ /\ k = None
                  /\ \E i \in Candidates(item.name, BatchNames(j, item)) :
                         job' = [job EXCEPT ![s] =
                                    IF i # None THEN Folded(j, i, ref) ELSE Kept(j, item, ref)]
        /\ UNCHANGED <<cards, runs, history>>

(* _apply_merges and COMMIT: each list is written back whole, from the     *)
(* snapshot's copy, if one of the refs is new to it.                       *)
OnlyNew(old, new) == new
Extended(old, new) == old \cup new
MergeSources(j, k) ==
    LET refs == {m[2] : m \in {m \in j.merges : m[1] = k}} IN
    IF refs \subseteq j.existing[k].sources THEN cards[k].sources
    ELSE Extended(j.existing[k].sources, refs)
MergedCards(j) ==
    [k \in Keys |-> IF \E m \in j.merges : m[1] = k
                    THEN [cards[k] EXCEPT !.sources = MergeSources(j, k)] ELSE cards[k]]
Overwritten(j) == UNION {cards[k].sources \ MergedCards(j)[k].sources : k \in Stored}
Held(j) == {m[2] : m \in {m \in j.merges : m[2] \in MergedCards(j)[m[1]].sources}}
CommitMerges(s) ==
    LET j == job[s]
        done == [j EXCEPT !.pc = "embed", !.next = 1, !.existing = NoCatalogue,
                          !.merges = {}]
    IN  /\ j.pc = "dedup" /\ j.next > Len(j.page)
        /\ cards' = MergedCards(j)
        /\ IF MergedCards(j) = cards THEN job' = [job EXCEPT ![s] = done] ELSE Commits(s, done)
        /\ torn' = (torn \ Held(j)) \cup (IF j.alone THEN {} ELSE Overwritten(j))
        /\ UNCHANGED <<runs, report, blind, unsaved>>

(* One batch: the answer has vectors for some of its texts, in order.  A   *)
(* short answer or a failed request leaves the whole batch as it was.      *)
AcceptsShort(batch, answered) == TRUE
Accepts(batch, answered) == answered = batch
Zipped(j, s, answered, i) ==
    LET first == j.next
        match == {c \in answered : Cardinality({d \in answered : d < c}) = i - first}
    IN  IF match = {} THEN None
        ELSE <<<<s, j.canonical[CHOOSE c \in match : TRUE].item.url>>, j.rev>>
Batch(j) == {i \in DOMAIN j.canonical : i \in j.next .. j.next + BatchSize - 1}
Answer(s, j, answered) ==
    [j EXCEPT !.next = @ + BatchSize,
              !.canonical = [i \in DOMAIN @ |->
                  IF i \in Batch(j) /\ HasKey /\ Accepts(Batch(j), answered)
                  THEN [@[i] EXCEPT !.vec = Zipped(j, s, answered, i)] ELSE @[i]]]
Embed(s) ==
    /\ job[s].pc = "embed" /\ Batch(job[s]) # {}
    /\ \E answered \in SUBSET Batch(job[s]) :
           job' = [job EXCEPT ![s] = Answer(s, job[s], answered)]
    /\ UNCHANGED <<cards, runs, history>>
EndEmbed(s) ==
    /\ job[s].pc = "embed" /\ job[s].next > Len(job[s].canonical)
    /\ job' = [job EXCEPT ![s].pc = "upsert"]
    /\ UNCHANGED <<cards, runs, history>>

----------------------------------------------------------------------------
(* upsert(embedded, True), then upsert(not_embedded, False).               *)
Fetched(s, page) == {<<s, page[i].url>> : i \in DOMAIN page}
Embedded(j) == {i \in DOMAIN j.canonical : j.canonical[i].vec # None}
Rows(j) == IF j.pc = "upsert" THEN Embedded(j) ELSE DOMAIN j.canonical \ Embedded(j)
KeyOf(s, j, i) == <<s, j.canonical[i].item.url>>
Repeats(j) == \E i, k \in Rows(j) : i # k /\ j.canonical[i].item.url = j.canonical[k].item.url

(* INSERT ... ON CONFLICT DO UPDATE of one record: a stored card keeps its *)
(* sources, and its vector unless this run computed one.                   *)
AlwaysFresh(j, old, c) == c.vec
Vector(j, old, c) == IF j.pc = "upsert" THEN c.vec ELSE old.vec
Upserted(j, old, c) ==
    IF old = None
    THEN [name |-> c.item.name, block |-> c.item.block, rev |-> j.rev,
          vec |-> c.vec, sources |-> c.sources]
    ELSE [old EXCEPT !.name = c.item.name, !.block = c.item.block, !.rev = j.rev,
                     !.vec = Vector(j, old, c)]
UpsertedCards(s, j) ==
    [k \in Keys |-> IF \E i \in Rows(j) : KeyOf(s, j, i) = k
                    THEN Upserted(j, cards[k],
                             j.canonical[CHOOSE i \in Rows(j) : KeyOf(s, j, i) = k])
                    ELSE cards[k]]
Written(s, j) == {KeyOf(s, j, i) : i \in Rows(j)}
Unstored(s, j) ==
    UNION {j.canonical[i].sources \ cards[KeyOf(s, j, i)].sources :
              i \in {i \in Rows(j) : cards[KeyOf(s, j, i)] # None}}

(* One statement and its COMMIT; the job goes on as j.  Nothing is sent    *)
(* when there are no records, and two records of one key are refused.      *)
Write(s, j) ==
    LET old == job[s] IN
    /\ ~ Repeats(old)
    /\ cards' = UpsertedCards(s, old)
    /\ IF Rows(old) = {} THEN job' = [job EXCEPT ![s] = j] ELSE Commits(s, j)
    /\ blind' = IF old.alone THEN blind \ Written(s, old) ELSE blind \cup Written(s, old)
    /\ UNCHANGED <<runs, torn>>
UpsertEmbedded(s) ==
    /\ job[s].pc = "upsert"
    /\ Write(s, [job[s] EXCEPT !.pc = "finish", !.folds = Unstored(s, job[s])])
    /\ UNCHANGED <<report, unsaved>>
UpsertRest(s) ==
    LET j == job[s] IN
    /\ j.pc = "finish"
    /\ Write(s, Idle)
    /\ report' = [report EXCEPT ![s] = [keys |-> Fetched(s, j.page), rev |-> j.rev]]
    /\ unsaved' = (unsaved \ Fetched(s, j.page)) \cup j.folds \cup Unstored(s, j)
Refused(s) ==
    /\ job[s].pc \in {"upsert", "finish"} /\ Repeats(job[s])
    /\ job' = [job EXCEPT ![s] = Idle]
    /\ UNCHANGED <<cards, runs, history>>

(* The job dies, or a statement of it fails; what it committed stays.      *)
Crash(s) ==
    /\ job[s] # Idle
    /\ job' = [job EXCEPT ![s] = Idle]
    /\ UNCHANGED <<cards, runs, history>>

Step(s) ==
    \/ Dedup(s) \/ CommitMerges(s) \/ Embed(s) \/ EndEmbed(s)
    \/ UpsertEmbedded(s) \/ UpsertRest(s) \/ Refused(s)

Next == \E s \in Sources : Start(s) \/ Step(s) \/ Crash(s)

Spec == Init /\ [][Next]_vars
----------------------------------------------------------------------------
Job == [pc: Steps, rev: 0..MaxRuns, page: Seq(Record), next: Nat,
        existing: [Keys -> Card \cup {None}], merges: SUBSET (Keys \X Keys),
        canonical: Seq(Canonical), alone: BOOLEAN, folds: SUBSET Keys]
TypeOK ==
    /\ cards \in [Keys -> Card \cup {None}]
    /\ job \in [Sources -> Job]
    /\ runs \in 0..MaxRuns
    /\ report \in [Sources -> [keys: SUBSET Keys, rev: 0..MaxRuns]]
    /\ blind \subseteq Keys /\ torn \subseteq Keys /\ unsaved \subseteq Keys

(* A vector on a card is of that card's own text, as of this run or an     *)
(* earlier one: a short answer of the embedding service never shifts the   *)
(* vectors onto other records (embeddings.py:45-50, pipeline.py:71-73).    *)
OwnVector ==
    \A k \in Stored : LET v == cards[k].vec IN
        v # None => v[1] = k /\ v[2] <= cards[k].rev

(* Once a card can be found by its vector it stays so, whatever fails in a *)
(* later run (pipeline.py:80-81, 100-101, 148-154).                        *)
VectorKept ==
    [][\A k \in Stored : cards'[k] # None /\ (cards[k].vec # None => cards'[k].vec # None)]_vars

(* What a completed run fetched is in the catalogue: as a card with its    *)
(* text or a newer one, or as a ref on another card.  Two things lose a    *)
(* ref: a run of another source that writes the list back from an old copy *)
(* (pipeline.py:117-120), and a fold into a record whose card is stored    *)
(* already, as the upsert leaves sources alone (dedup.py:166, 86-105).     *)
Recorded ==
    \A s \in Sources : \A k \in report[s].keys \ (torn \cup unsaved) :
        \/ k \in Stored /\ cards[k].rev >= report[s].rev
        \/ \E c \in Stored \ {k} : k \in cards[c].sources

(* Two cards of one block and of names alike are left only by runs that    *)
(* overlapped: a run that is alone merges, folds or updates every record,  *)
(* however earlier runs were cut off (dedup.py:147-172, pipeline.py:143).  *)
Twins(k, l) ==
    /\ k[2] # l[2]
    /\ cards[k].block = cards[l].block
    /\ Score[cards[k].name, cards[l].name] >= AutoMatch
NoTwins == \A k, l \in Stored \ blind : ~ Twins(k, l)
=============================================================================
