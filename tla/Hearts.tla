------------------------------- MODULE Hearts -------------------------------
(***************************************************************************)
(* The heart on a card: UserContext.tsx and saveGuard.ts in one page, and  *)
(* the endpoints of backend/app/api/saved.py.                              *)
(*                                                                         *)
(* A click flips the heart at once and sends one request.  Requests and    *)
(* answers travel separately and overtake one another; a request may be    *)
(* refused, never arrive, or be carried out while its answer is lost.  The *)
(* page guards a late answer by the session epoch and by a generation per  *)
(* card, and a late load of the saved ids by the same two.                 *)
(***************************************************************************)
EXTENDS Naturals, Sequences

CONSTANTS
    Accounts,
    Items,
    None,
    MaxTurns   \* bound: clicks on hearts and sign-ins in a behaviour

ASSUME NoneAssumption == None \notin Accounts
ASSUME BoundsAssumption == MaxTurns \in Nat

VARIABLES
    server,   \* account -> rows of `saved_items`
    live,     \* accounts that exist
    cookie,   \* the account of the session cookie
    user,     \* the account the page shows as signed in
    leaving,  \* whether logout awaits its answer
    saved,    \* savedIdsRef: the hearts the page shows
    gen,      \* saveGeneration: item -> generation, 0 when it has no entry
    epoch,    \* saveGuard's epoch
    heart,    \* n -> the request of the n-th click
    load      \* k -> the load of the saved ids of the k-th sign-in

page == <<user, leaving, saved, gen, epoch>>
vars == <<server, live, cookie, page, heart, load>>

(* A request of a heart: the cookie it carries, the heart before the click *)
(* (`was'), the two guards, what became of it, and whether its answer was  *)
(* handled.  Four flags are history: `late' (clicked while signing out),   *)
(* `crossed' (in flight together with another request on the card, or      *)
(* while a session began), `retired' (in flight when a load retired the    *)
(* generation of the card), `early' (answered while the load of its        *)
(* session was under way).                                                 *)
Heart == [item: Items, acct: Accounts \cup {None}, was: BOOLEAN,
          gen: Nat \ {0}, epoch: Nat,
          fate: {"none", "ok", "refused", "lost"}, done: BOOLEAN,
          late: BOOLEAN, crossed: BOOLEAN,
          retired: BOOLEAN, early: BOOLEAN]

Load == [acct: Accounts, epoch: Nat, start: [Items -> Nat],
         ids: SUBSET Items, pc: {"sent", "read", "done"}, ok: BOOLEAN]

Made == DOMAIN heart
Begun == DOMAIN load
Turns == Len(heart) + Len(load)
InFlight(n) == ~heart[n].done
OnItem(i) == {n \in Made : heart[n].item = i}

Init ==
    /\ server \in [Accounts -> SUBSET Items]
    /\ live = Accounts
    /\ cookie = None /\ user = None /\ leaving = FALSE
    /\ saved = {} /\ gen = [i \in Items |-> 0] /\ epoch = 0
    /\ heart = <<>> /\ load = <<>>

----------------------------------------------------------------------------
(* Sessions.                                                               *)

(* The answer of /me or of a sign-in: adopt the user, bump the epoch, send *)
(* GET /me/saved/ids.  History: a request still in flight crosses it.      *)
SignIn(a) ==
    /\ user = None /\ a \in live
    /\ Turns < MaxTurns
    /\ cookie' = a /\ user' = a
    /\ epoch' = epoch + 1
    /\ load' = Append(load, [acct |-> a, epoch |-> epoch + 1, start |-> gen,
                             ids |-> {}, pc |-> "sent", ok |-> FALSE])
    /\ heart' = [n \in Made |-> [heart[n] EXCEPT !.crossed = @ \/ InFlight(n)]]
    /\ UNCHANGED <<server, live, leaving, saved, gen>>

(* logout(): the epoch moves at once; the page forgets the user only when  *)
(* the answer is there.  The request may fail, and the cookie stays.       *)
Logout ==
    /\ user # None /\ ~leaving
    /\ leaving' = TRUE
    /\ epoch' = epoch + 1
    /\ UNCHANGED <<server, live, cookie, user, saved, gen, heart, load>>

LogoutServed ==
    /\ leaving
    /\ cookie' = None
    /\ UNCHANGED <<server, live, page, heart, load>>

LogoutReply ==
    /\ leaving
    /\ leaving' = FALSE
    /\ user' = None /\ saved' = {}
    /\ UNCHANGED <<server, live, cookie, gen, epoch, heart, load>>

(* DELETE /me, then clearUser(); a dialog covers the hearts meanwhile.     *)
DeleteAccount ==
    /\ user # None /\ ~leaving
    /\ cookie = user
    /\ live' = live \ {user}
    /\ server' = [server EXCEPT ![user] = {}]
    /\ cookie' = None
    /\ user' = None /\ saved' = {}
    /\ epoch' = epoch + 1
    /\ UNCHANGED <<leaving, gen, heart, load>>

----------------------------------------------------------------------------
(* The load of the saved ids.                                              *)

LoadServed(k) ==
    /\ load[k].pc = "sent"
    /\ load' = [load EXCEPT ![k].pc = "read", ![k].ids = server[load[k].acct],
                            ![k].ok = TRUE]
    /\ UNCHANGED <<server, live, cookie, page, heart>>

(* A dropped request rejects, and the page keeps what it shows.            *)
LoadRejected(k) ==
    /\ load[k].pc # "done"
    /\ load' = [load EXCEPT ![k].pc = "done", ![k].ok = FALSE]
    /\ UNCHANGED <<server, live, cookie, page, heart>>

(* savedIdsFromLoad: the server's ids, except on cards clicked since the   *)
(* load began; where such a click already agrees with the server its       *)
(* generation is retired.  An error answer (the load was not served) reads *)
(* as no saved ids.                                                        *)
ClickedSinceNever(l) == {}   \* mutant of ClickedSince: the load overwrites every heart
ClickedSince(l) == {i \in Items : gen[i] # 0 /\ gen[i] # l.start[i]}
LoadArrives(k) ==
    LET l == load[k]
        mine == ClickedSince(l)
        agree == {i \in mine : i \in saved <=> i \in l.ids}
    IN
    /\ l.pc # "done"
    /\ load' = [load EXCEPT ![k].pc = "done"]
    /\ IF l.epoch = epoch
       THEN /\ saved' = (l.ids \ mine) \cup (saved \cap mine)
            /\ gen' = [i \in Items |-> IF i \in agree THEN gen[i] + 1 ELSE gen[i]]
            /\ heart' = [n \in Made |-> [heart[n] EXCEPT
                 !.retired = @ \/ (InFlight(n) /\ heart[n].item \in agree)]]
       ELSE UNCHANGED <<saved, gen, heart>>
    /\ UNCHANGED <<server, live, cookie, user, leaving, epoch>>

----------------------------------------------------------------------------
(* Hearts.                                                                 *)

(* toggleSave: flip the heart, take the next generation, send the request. *)
NextGenWhileBusy(i) == IF gen[i] = 0 THEN 1 ELSE gen[i]   \* mutant of NextGen: a second click keeps the generation
NextGen(i) == gen[i] + 1
Click(i) ==
    LET busy == {n \in OnItem(i) : InFlight(n)} IN
    /\ user # None
    /\ Turns < MaxTurns
    /\ saved' = IF i \in saved THEN saved \ {i} ELSE saved \cup {i}
    /\ gen' = [gen EXCEPT ![i] = NextGen(i)]
    /\ heart' = Append([n \in Made |-> [heart[n] EXCEPT !.crossed = @ \/ n \in busy]],
                  [item |-> i, acct |-> cookie, was |-> i \in saved,
                   gen |-> NextGen(i), epoch |-> epoch, fate |-> "none", done |-> FALSE,
                   late |-> leaving, crossed |-> busy # {},
                   retired |-> FALSE, early |-> FALSE])
    /\ UNCHANGED <<server, live, cookie, user, leaving, epoch, load>>

(* POST or DELETE /me/saved/{id}: an upsert or a delete of the row, which  *)
(* is idempotent; the answer may be lost.                                  *)
AuthorisedByCookie(a) == a # None   \* mutant of Authorised: the account is not looked up
Authorised(a) == a \in live
HeartServed(n) ==
    LET r == heart[n] IN
    /\ InFlight(n) /\ r.fate = "none"
    /\ Authorised(r.acct)
    /\ server' = [server EXCEPT ![r.acct] = IF r.was THEN @ \ {r.item} ELSE @ \cup {r.item}]
    /\ \E f \in {"ok", "lost"} : heart' = [heart EXCEPT ![n].fate = f]
    /\ UNCHANGED <<live, cookie, page, load>>

(* The answer.  A request that was not carried out fails: no session, an   *)
(* unknown item, an error, no connection.  A failure puts the heart back,  *)
(* unless the session or a newer click has taken over.                     *)
CurrentIgnoresEpoch(r) == gen[r.item] = r.gen   \* mutants of Current: one guard dropped
CurrentIgnoresClicks(r) == r.epoch = epoch
Current(r) == r.epoch = epoch /\ gen[r.item] = r.gen
LoadUnderWay(e) == \E k \in Begun : load[k].epoch = e /\ load[k].pc # "done"
HeartAnswered(n) ==
    LET r == heart[n]
        fate == IF r.fate = "none" THEN "refused" ELSE r.fate
    IN
    /\ InFlight(n)
    /\ heart' = [heart EXCEPT ![n].fate = fate, ![n].done = TRUE,
                             ![n].early = LoadUnderWay(r.epoch)]
    /\ IF fate # "ok" /\ Current(r)
       THEN /\ saved' = IF r.was THEN saved \cup {r.item} ELSE saved \ {r.item}
            /\ gen' = [gen EXCEPT ![r.item] = 0]
       ELSE UNCHANGED <<saved, gen>>
    /\ UNCHANGED <<server, live, cookie, user, leaving, epoch, load>>

Next ==
    \/ \E a \in Accounts : SignIn(a)
    \/ Logout
    \/ LogoutServed
    \/ LogoutReply
    \/ DeleteAccount
    \/ \E k \in Begun : LoadServed(k) \/ LoadRejected(k) \/ LoadArrives(k)
    \/ \E i \in Items : Click(i)
    \/ \E n \in Made : HeartServed(n) \/ HeartAnswered(n)

Spec == Init /\ [][Next]_vars

----------------------------------------------------------------------------
(* Every variable keeps its type, and rows belong to accounts that exist.  *)
TypeOK ==
    /\ server \in [Accounts -> SUBSET Items]
    /\ live \subseteq Accounts
    /\ cookie \in Accounts \cup {None}
    /\ user \in Accounts \cup {None}
    /\ leaving \in BOOLEAN
    /\ saved \subseteq Items
    /\ gen \in [Items -> Nat]
    /\ epoch \in Nat
    /\ heart \in Seq(Heart)
    /\ load \in Seq(Load)
    /\ \A a \in Accounts \ live : server[a] = {}

NewerClicks(n) == {m \in OnItem(heart[n].item) : m > n}
AnswerChangesHearts(n) == InFlight(n) /\ ~InFlight(n)' /\ saved' # saved
OtherFailed(n) ==
    \E o \in OnItem(heart[n].item) \ {n} : heart[o].done /\ heart[o].fate # "ok"
Restarted(n) ==
    OtherFailed(n) /\ \E m \in NewerClicks(n) : heart[m].gen <= heart[n].gen

(* An answer changes a heart only if there was no newer click on the card  *)
(* (UserContext.tsx:138-139) and no load found the card to agree with the  *)
(* server, unless the generations of the card started again: the failure   *)
(* of another click drops the card's entry, and the next one counts from 1.*)
AnswersYieldUnlessRestarted ==
    [][\A n \in Made : AnswerChangesHearts(n) =>
         \/ NewerClicks(n) = {} /\ ~heart[n].retired
         \/ Restarted(n)]_vars

(* A page without a user shows no hearts: an answer or a load of a session *)
(* that is over brings none back (saveGuard.ts:1-3), unless the click fell *)
(* between the click on logout and its answer.                             *)
SignedOutEmpty ==
    user = None /\ (\A n \in Made : ~heart[n].late) => saved = {}

(* The two guards.  Loads and hearts that carry the current epoch belong   *)
(* to the session the page shows, or fell between the click on logout and  *)
(* its answer; the generation of a card is past every click in flight that *)
(* may not put the heart back, as long as the count did not start again.   *)
EpochInv ==
    /\ leaving => user # None
    /\ \A k \in Begun : /\ load[k].epoch <= epoch
                        /\ load[k].epoch = epoch => user # None /\ ~leaving
    /\ \A n \in Made : /\ heart[n].epoch <= epoch
                       /\ heart[n].epoch = epoch => heart[n].late \/ (user # None /\ ~leaving)
GenInv ==
    \A n \in Made : InFlight(n) =>
        LET g == gen[heart[n].item] IN
        \/ g = 0 /\ OtherFailed(n)
        \/ Restarted(n)
        \/ g > heart[n].gen
        \/ g = heart[n].gen /\ NewerClicks(n) = {} /\ ~heart[n].retired
IInv == EpochInv /\ GenInv

(* When the requests on a card are answered, the page and the server agree *)
(* about it, provided that the session's load arrived and no request on    *)
(* the card was disturbed: overlapped with another one, a sign-in or the   *)
(* retirement of its generation, clicked while signing out, carried out    *)
(* with its answer lost, or refused before the load arrived although       *)
(* another click of the session counted on the card's generation.          *)
Unguards(n) ==
    /\ heart[n].early /\ heart[n].fate = "refused"
    /\ \E m \in OnItem(heart[n].item) : m # n /\ heart[m].epoch = heart[n].epoch
Undisturbed(n) ==
    /\ heart[n].done /\ heart[n].fate # "lost"
    /\ ~heart[n].crossed /\ ~heart[n].late /\ ~heart[n].retired /\ ~Unguards(n)
Loaded == LET k == Len(load) IN k > 0 /\ load[k].pc = "done" /\ load[k].ok
Agreement ==
    user # None /\ ~leaving /\ Loaded =>
        \A i \in Items : (\A n \in OnItem(i) : Undisturbed(n)) =>
            (i \in saved <=> i \in server[user])
=============================================================================
