------------------------------- MODULE Search -------------------------------
(***************************************************************************)
(* A search from the prompt to the cards: POST /search and its event       *)
(* stream (backend/app/api/routes.py, llm/, retrieval/), and the page that *)
(* reads it (frontend/src/lib/api.ts, app/page.tsx).                       *)
(*                                                                         *)
(* A search goes through the gate, the daily quota (Quota), two model      *)
(* calls and two short database transactions, and then streams cards while *)
(* the re-ranker writes them.  Each of those is a step: other searches, a  *)
(* failure or the reader leaving may come in between.                      *)
(***************************************************************************)
EXTENDS Retrieval

CONSTANTS
    Prompts,      \* what can be typed
    None,
    Lexical,      \* prompt -> the lexical leg of its retrieval
    Semantic,     \* prompt -> the semantic leg
    Ties,         \* orders in which the database may return equal scores
    Connections,  \* connections of the database pool
    HasKey,       \* an API key for the re-ranker is configured
    MaxSearches,  \* bound: searches made
    MaxFrames     \* bound: frames on their way in one response

ASSUME NoneAssumption == None \notin Prompts \cup Cards
ASSUME LegsAssumption == \A p \in Prompts : IsLeg(Lexical[p]) /\ IsLeg(Semantic[p])
ASSUME TiesAssumption ==
    \A t \in Ties : t \in [Cards -> Nat] /\ \A c, d \in Cards : t[c] = t[d] => c = d
ASSUME LimitsAssumption == Connections \in Nat /\ HasKey \in BOOLEAN
ASSUME BoundsAssumption == MaxSearches \in Nat /\ MaxFrames \in Nat

VARIABLES
    made,     \* searches begun
    run,      \* search -> what the server has of it
    wire,     \* search -> frames on their way to the page
    page      \* the home page

vars == <<made, run, wire, page>>

Runs == 1..MaxSearches

(* Before streaming: waiting for a connection, holding it, or in a call    *)
(* outside.  While streaming: the first event, the re-ranker's cards, the  *)
(* candidates it has not returned, the last event.                         *)
Waits == {"gate", "log", "find"}
Holds == {"gating", "logging", "finding"}
Streaming == {"open", "rerank", "rest", "finish"}
Phases == Waits \cup Holds \cup Streaming \cup
          {"unborn", "quota", "intent", "embed", "closed"}

Run == [pc: Phases, prompt: Prompts \cup {None}, onTopic: BOOLEAN, vector: BOOLEAN,
        items: Seq(Cards), sent: Seq(Cards), fell: BOOLEAN, quiet: BOOLEAN]
Unborn == [pc |-> "unborn", prompt |-> None, onTopic |-> TRUE, vector |-> FALSE,
           items |-> <<>>, sent |-> <<>>, fell |-> FALSE, quiet |-> FALSE]

Frame(e) == [event |-> e, card |-> None]
CardFrame(c) == [event |-> "card", card |-> c]
Frames == [event: {"intent", "card", "done", "limited", "error"}, card: Cards \cup {None}]

Statuses == {"idle", "loading", "streaming", "done", "error", "limited"}
Page == [cur: 0..MaxSearches, status: Statuses, last: Prompts \cup {None}, cards: Seq(Cards)]
Fresh == [cur |-> 0, status |-> "idle", last |-> None, cards |-> <<>>]
Busy == page.status \in {"loading", "streaming"}

(* Connections out of the pool.                                            *)
HoldsWhileStreaming == {n \in Runs : run[n].pc \in Holds \cup Streaming}
Holding == {n \in Runs : run[n].pc \in Holds}

Init ==
    /\ made = 0
    /\ run = [n \in Runs |-> Unborn]
    /\ wire = [n \in Runs |-> <<>>]
    /\ page = Fresh

Goto(n, pc) == run' = [run EXCEPT ![n].pc = pc]
Heard(n) == page.cur = n
Put(n, f) ==
    /\ Len(wire[n]) < MaxFrames
    /\ wire' = IF Heard(n) THEN [wire EXCEPT ![n] = Append(@, f)] ELSE wire
Elsewhere == <<made, page>>
----------------------------------------------------------------------------
(* The page: a submit is ignored while a search is in flight and for the   *)
(* prompt already shown; it aborts the search before and starts afresh.    *)
KeepsEarlier(n) == wire
Aborted(n) == IF n \in Runs THEN [wire EXCEPT ![n] = <<>>] ELSE wire
Submit(p) ==
    /\ made < MaxSearches
    /\ ~ Busy /\ p # page.last
    /\ made' = made + 1
    /\ page' = [cur |-> made', status |-> "loading", last |-> p, cards |-> <<>>]
    /\ wire' = Aborted(page.cur)
    /\ run' = [run EXCEPT ![made'] = [Unborn EXCEPT !.pc = "gate", !.prompt = p]]

(* The page is left, which aborts its search, and opened again.            *)
Leave ==
    /\ page # Fresh
    /\ page' = Fresh
    /\ wire' = Aborted(page.cur)
    /\ UNCHANGED <<made, run>>

(* The next frame of a response the page still listens to; a failure lets  *)
(* the same prompt be sent again.                                          *)
Shown(f) ==
    CASE f.event = "intent"  -> [page EXCEPT !.status = "streaming"]
      [] f.event = "card"    -> [page EXCEPT !.cards = Append(@, f.card)]
      [] f.event = "done"    -> [page EXCEPT !.status = "done"]
      [] f.event = "limited" -> [page EXCEPT !.status = "limited", !.last = None]
      [] f.event = "error"   -> [page EXCEPT !.status = "error", !.last = None]
Receive(n) ==
    /\ wire[n] # <<>>
    /\ page' = Shown(Head(wire[n]))
    /\ wire' = [wire EXCEPT ![n] = Tail(@)]
    /\ UNCHANGED <<made, run>>

----------------------------------------------------------------------------
(* SessionLocal(): a connection of the pool, for one transaction at a time.*)
Connect(n) ==
    /\ Cardinality(Holding) < Connections
    /\ \/ run[n].pc = "gate" /\ Goto(n, "gating")
       \/ run[n].pc = "log" /\ Goto(n, "logging")
       \/ run[n].pc = "find" /\ Goto(n, "finding")
    /\ UNCHANGED <<Elsewhere, wire>>

(* _require_verified_user: 401 or 403; check_search_quota: 429.            *)
Refuse(n) == Goto(n, "closed") /\ Put(n, Frame("limited"))
Gate(n) ==
    /\ run[n].pc = "gating"
    /\ Refuse(n) \/ (Goto(n, "quota") /\ UNCHANGED wire)
    /\ UNCHANGED Elsewhere
AskQuota(n) ==
    /\ run[n].pc = "quota"
    /\ Refuse(n) \/ (Goto(n, "intent") /\ UNCHANGED wire)
    /\ UNCHANGED Elsewhere

----------------------------------------------------------------------------
(* ClaudeIntentExtractor.extract: a failed call counts as on topic.        *)
ParseIntent(n) ==
    /\ run[n].pc = "intent"
    /\ \E onTopic \in BOOLEAN :
           run' = [run EXCEPT ![n].pc = IF onTopic THEN "embed" ELSE "log",
                              ![n].onTopic = onTopic]
    /\ UNCHANGED <<Elsewhere, wire>>

(* embed_query: no vector when the call fails or there is no key for it.   *)
EmbedQuery(n) ==
    /\ run[n].pc = "embed"
    /\ \E v \in BOOLEAN : run' = [run EXCEPT ![n].pc = "log", ![n].vector = v]
    /\ UNCHANGED <<Elsewhere, wire>>

(* The IntentLog row; COMMIT gives the connection back.                    *)
LogIntent(n) ==
    /\ run[n].pc = "logging"
    /\ run' = [run EXCEPT ![n].pc = IF run[n].onTopic THEN "find" ELSE "open",
                          ![n].onTopic = TRUE]
    /\ UNCHANGED <<Elsewhere, wire>>

(* search_items: the lexical leg, with the semantic one if there is a      *)
(* vector; the items outlive the session they are loaded in.               *)
Find(n) ==
    LET p == run[n].prompt
        sem == IF run[n].vector THEN Semantic[p] ELSE <<>>
    IN  /\ run[n].pc = "finding"
        /\ \E tie \in Ties :
               run' = [run EXCEPT ![n].pc = "open", ![n].vector = FALSE,
                                  ![n].items = Fused(Lexical[p], sem, tie)]
        /\ UNCHANGED <<Elsewhere, wire>>

(* event_stream: the intent, and the re-ranker if there is something to    *)
(* rank and a key to rank it with.                                         *)
OpenStream(n) ==
    /\ run[n].pc = "open"
    /\ Goto(n, IF HasKey /\ run[n].items # <<>> THEN "rerank" ELSE "rest")
    /\ Put(n, Frame("intent"))
    /\ UNCHANGED Elsewhere

SendCard(n, c) ==
    /\ run' = [run EXCEPT ![n].sent = Append(@, c)]
    /\ Put(n, CardFrame(c))

(* A line of the re-ranker: it names a candidate by number, and counts     *)
(* once; any other line is skipped.                                        *)
RepeatedPick(n, k) == k \in DOMAIN run[n].items
Pick(n, k) == k \in DOMAIN run[n].items /\ run[n].items[k] \notin Members(run[n].sent)
RerankLine(n, k) ==
    /\ run[n].pc = "rerank"
    /\ Pick(n, k)
    /\ SendCard(n, run[n].items[k])
    /\ UNCHANGED Elsewhere

(* The re-ranker's answer ends, or its stream fails half-way.              *)
FailureEndsStream(n) == run[n].pc = "rerank" /\ Goto(n, "closed") /\ UNCHANGED <<Elsewhere, wire>>
RerankEnds(n) ==
    /\ run[n].pc = "rerank" /\ Goto(n, "finish")
    /\ UNCHANGED <<Elsewhere, wire>>
RerankFails(n) ==
    /\ run[n].pc = "rerank"
    /\ run' = [run EXCEPT ![n].pc = "rest", ![n].fell = TRUE]
    /\ UNCHANGED <<Elsewhere, wire>>

(* The candidates not sent yet, in the order of retrieval.                 *)
Dropped(n) == {}
Remaining(n) == {k \in DOMAIN run[n].items : run[n].items[k] \notin Members(run[n].sent)}
SendRest(n) ==
    /\ run[n].pc = "rest"
    /\ IF Remaining(n) = {}
       THEN Goto(n, "finish") /\ UNCHANGED wire
       ELSE \E k \in Remaining(n) :
                /\ \A j \in Remaining(n) : k <= j
                /\ SendCard(n, run[n].items[k])
    /\ UNCHANGED Elsewhere

Finish(n) ==
    /\ run[n].pc = "finish"
    /\ Goto(n, "closed") /\ Put(n, Frame("done"))
    /\ UNCHANGED Elsewhere

----------------------------------------------------------------------------
(* The server notices that nobody reads the stream any more.               *)
Disconnect(n) ==
    /\ run[n].pc \in Streaming /\ ~ Heard(n)
    /\ Goto(n, "closed")
    /\ UNCHANGED <<Elsewhere, wire>>

(* The handler raises, its process dies or the connection breaks, and what *)
(* is in flight may be lost.  The reader gets an error if it can tell; if  *)
(* the response just ends there, as behind a proxy, or goes silent, it     *)
(* gets nothing: streamSearch returns, or waits for a frame for ever.      *)
Broken(n, k) == Append(SubSeq(wire[n], 1, k), Frame("error"))
CutOff(n, k) == SubSeq(wire[n], 1, k)
Break(n) ==
    /\ \/ run[n].pc \notin {"unborn", "closed"}
       \/ wire[n] # <<>> /\ wire[n][Len(wire[n])] # Frame("error")
    /\ IF Heard(n)
       THEN \E k \in 0..Len(wire[n]), quiet \in BOOLEAN :
                /\ wire' = [wire EXCEPT ![n] = IF quiet THEN CutOff(n, k) ELSE Broken(n, k)]
                /\ run' = [run EXCEPT ![n].pc = "closed", ![n].quiet = quiet]
       ELSE Goto(n, "closed") /\ UNCHANGED wire
    /\ UNCHANGED Elsewhere

Handler(n) ==
    \/ Gate(n) \/ AskQuota(n)
    \/ LogIntent(n) \/ Find(n) \/ OpenStream(n) \/ SendRest(n) \/ Finish(n)
Model(n) == ParseIntent(n) \/ EmbedQuery(n) \/ RerankEnds(n) \/ RerankFails(n)

Next ==
    \/ \E p \in Prompts : Submit(p)
    \/ Leave
    \/ \E n \in Runs :
           \/ Receive(n) \/ Connect(n) \/ Handler(n) \/ Model(n)
           \/ Disconnect(n) \/ Break(n)
           \/ \E k \in 1..Limit : RerankLine(n, k)

Spec == Init /\ [][Next]_vars

(* The server's threads run, a free connection goes to who waits for it,   *)
(* and the page handles what arrives.  Nothing is assumed of the models.   *)
Fairness ==
    \A n \in Runs : WF_vars(Connect(n)) /\ WF_vars(Handler(n)) /\ WF_vars(Receive(n))
FairSpec == Spec /\ Fairness

(* A model's answer ends: the clients give up after their timeout, and an  *)
(* answer has at most max_tokens.                                          *)
ModelsAnswer == \A n \in Runs : WF_vars(Model(n))
----------------------------------------------------------------------------
TypeOK ==
    /\ made \in 0..MaxSearches
    /\ run \in [Runs -> Run]
    /\ wire \in [Runs -> Seq(Frames)]
    /\ page \in Page

(* The page shows the cards of its own search, in the order sent and each  *)
(* once, and an error on it is that search's: one that was given up cannot *)
(* end the one that replaced it (routes.py:211-233, page.tsx:63-99).       *)
Prefix(s, t) == Len(s) <= Len(t) /\ \A k \in DOMAIN s : s[k] = t[k]
OwnCards ==
    /\ page.cur # 0 => Prefix(page.cards, run[page.cur].sent)
    /\ page.status \in {"error", "limited"} => page.cur # 0 /\ run[page.cur].pc = "closed"

(* When the page says the search is done it has all cards sent; and unless *)
(* the re-ranker chose, they are all the candidates.                       *)
Complete ==
    page.status = "done" =>
        /\ page.cards = run[page.cur].sent
        /\ run[page.cur].fell \/ ~ HasKey => Members(page.cards) = Members(run[page.cur].items)

(* Who waits for a connection gets one, even if no model ever answers: no  *)
(* connection is held across a call outside (routes.py:145-149, 189-206).  *)
ConnectionServed ==
    \A n \in Runs : run[n].pc \in Waits ~> run[n].pc \notin Waits

(* If the models' answers end, so does every search the page shows, with a *)
(* result or an error, unless its connection is cut without the page being *)
(* told: the server itself never ends a stream without a last frame, also  *)
(* when the re-ranker fails (routes.py:212-234, page.tsx:77-99).           *)
Silenced == page.cur # 0 /\ run[page.cur].quiet
PageSettles == ModelsAnswer => (Busy ~> ~ Busy \/ Silenced)

(* An exact match of the name, the first of the lexical leg, is among the  *)
(* candidates unless as many others as the list holds may go before it:    *)
(* the cards of both legs, which score higher, and the first of the        *)
(* semantic leg, which scores the same (search.py:86-87, 97-125).          *)
Rivals(lex, sem) ==
    {c \in Members(sem) : c \in Members(lex) \/ c = Head(sem)} \ {Head(lex)}
ExactNameSurvives ==
    [][\A n \in Runs : Find(n) =>
           LET lex == Lexical[run[n].prompt]
               sem == Semantic[run[n].prompt]
           IN  \/ lex = <<>> \/ Head(lex) \in Members(run'[n].items)
               \/ Cardinality(Rivals(lex, sem)) >= Limit]_vars

(* Each search is a stream of cards.                                       *)
StreamPhase(n) ==
    CASE run[n].pc \in {"rerank", "rest", "finish"} -> "open"
      [] run[n].pc = "closed" -> "over"
      [] OTHER -> "unborn"
Stream == INSTANCE CardStream WITH
    Streams <- Runs,
    phase <- [n \in Runs |-> StreamPhase(n)],
    out <- [n \in Runs |-> run[n].sent]
ImplementsCardStream == Stream!Spec
=============================================================================
