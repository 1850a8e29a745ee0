------------------------------ MODULE Friends -------------------------------
(***************************************************************************)
(* Friend requests, friendships and shared items: backend/app/api/social.py*)
(*                                                                         *)
(* A friendship is a directed row; each handler reads the rows between two *)
(* users in either direction and then writes.  A DELETE names its rows in  *)
(* its WHERE clause and is one step; an INSERT or an UPDATE of a row read  *)
(* before is a second step, and other requests commit in between.  Replies *)
(* that change nothing (400, 403, 404, 409) are requests that do not start.*)
(***************************************************************************)
EXTENDS Naturals, FiniteSets

CONSTANTS
    Users,        \* primary keys, never reused
    Items,        \* cards of the catalogue
    Workers,      \* threads of the API replicas, each handling one request
    None,
    MaxRows,      \* bound: friendship rows inserted in a behaviour
    MaxInFlight   \* bound: requests being handled at a time

ASSUME NoneAssumption == None \notin Users \cup Items
ASSUME BoundsAssumption == MaxRows \in Nat /\ MaxInFlight \in Nat

VARIABLES
    live,    \* users whose account exists
    edge,    \* ordered pair -> its row in `friendships`
    nextId,  \* the next fresh row id
    shares,  \* rows of `shared_events`
    req,     \* worker -> the request it is handling
    wants,   \* history: <<a, b>> when a's last word about b was yes
    unheard, \* history: <<a, b>> when it was a decline that found no request
    raced    \* history: couples with a row inserted on an outdated view

vars == <<live, edge, nextId, shares, req, wants, unheard, raced>>
history == <<wants, unheard, raced>>

(* UNIQUE (requester_id, addressee_id): a pair has at most one row.        *)
Pairs == {p \in Users \X Users : p[1] # p[2]}
NoRow == [status |-> "none", id |-> 0]
Row == [status: {"none", "pending", "accepted"}, id: 0..MaxRows]

Share == [from: Users, to: Users, item: Items]

(* A request that will write: about which pair, the rows it read in the    *)
(* two directions, and the item it will share.                             *)
Request == [pc: {"idle", "insert", "accept", "share"}, pair: Pairs \cup {None},
            view: Row \X Row, item: Items \cup {None}]
Idle == [pc |-> "idle", pair |-> None, view |-> <<NoRow, NoRow>>, item |-> None]

View(p) == <<edge[p], edge[<<p[2], p[1]>>]>>
Reading(pc, p, i) == [pc |-> pc, pair |-> p, view |-> View(p), item |-> i]

Busy == {w \in Workers : req[w].pc # "idle"}
Enter == Cardinality(Busy) < MaxInFlight
Begin(w, r) ==
    /\ Enter
    /\ req[w].pc = "idle"
    /\ req' = [req EXCEPT ![w] = r]
Done(w) == req' = [req EXCEPT ![w] = Idle]

Both(a, b) == {<<a, b>>, <<b, a>>}

(* The rows _friendship's SELECT finds.  Its scalar_one_or_none() raises,  *)
(* and the request fails, when there are two.                              *)
FoundOneWay(a, b) == {p \in {<<a, b>>} : edge[p].status # "none"}
Found(a, b) == {p \in Both(a, b) : edge[p].status # "none"}
AtMostOneRow(a, b) == Cardinality(Found(a, b)) <= 1

(* _are_friends: the row found, if any, is accepted.                       *)
AreFriends(a, b) ==
    /\ AtMostOneRow(a, b)
    /\ \E p \in Found(a, b) : edge[p].status = "accepted"

Init ==
    /\ live = Users
    /\ edge = [p \in Pairs |-> NoRow]
    /\ nextId = 1
    /\ shares = {}
    /\ req = [w \in Workers |-> Idle]
    /\ wants = {} /\ unheard = {} /\ raced = {}

----------------------------------------------------------------------------
(* POST /friends/request/{b} by a: a new request, unless b had asked       *)
(* already, which accepts b's.                                             *)
SendRequest(w, a, b) ==
    /\ {a, b} \subseteq live
    /\ \/ /\ Found(a, b) = {}
          /\ Begin(w, Reading("insert", <<a, b>>, None))
       \/ /\ Found(a, b) = {<<b, a>>}
          /\ edge[<<b, a>>].status = "pending"
          /\ Begin(w, Reading("accept", <<b, a>>, None))
    /\ UNCHANGED <<live, edge, nextId, shares, history>>

(* POST /friends/accept/{b} by a.                                          *)
AcceptRequest(w, a, b) ==
    /\ a \in live
    /\ edge[<<b, a>>].status = "pending"
    /\ Begin(w, Reading("accept", <<b, a>>, None))
    /\ UNCHANGED <<live, edge, nextId, shares, history>>

(* POST /friends/decline/{b} by a: one DELETE of b's request.  The answer  *)
(* is "declined" whatever it deletes: when b has no request pending by now *)
(* (a has accepted it, say) the decline does nothing to the row that       *)
(* stands, and the history notes that it went unheard.                     *)
Declines(a, b) == {p \in {<<b, a>>} : edge[p].status = "pending"}
DeclineRequest(a, b) ==
    /\ Enter /\ a \in live
    /\ edge' = [p \in Pairs |-> IF p \in Declines(a, b) THEN NoRow ELSE edge[p]]
    /\ wants' = wants \ {<<a, b>>}
    /\ unheard' = IF Declines(a, b) = {} /\ Found(a, b) # {}
                  THEN unheard \cup {<<a, b>>}
                  ELSE unheard \ Both(a, b)
    /\ UNCHANGED <<live, nextId, shares, req, raced>>

(* DELETE /friends/{b} by a: one DELETE of the rows in both directions.    *)
RemovesOwnRow(a, b) == {<<a, b>>}
Removes(a, b) == Both(a, b)
RemoveFriend(a, b) ==
    /\ Enter /\ a \in live
    /\ edge' = [p \in Pairs |-> IF p \in Removes(a, b) THEN NoRow ELSE edge[p]]
    /\ wants' = wants \ {<<a, b>>}
    /\ unheard' = unheard \ Both(a, b)
    /\ raced' = raced \ {{a, b}}
    /\ UNCHANGED <<live, nextId, shares, req>>

(* POST /share of item i by a with b, up to the INSERT.                    *)
MayShareWithAsked(a, b) == Found(a, b) # {}
MayShare(a, b) == AreFriends(a, b)
ShareEvent(w, a, b, i) ==
    /\ a \in live
    /\ MayShare(a, b)
    /\ Begin(w, Reading("share", <<a, b>>, i))
    /\ UNCHANGED <<live, edge, nextId, shares, history>>

(* DELETE /me/shared/{id} by its recipient: one DELETE.                    *)
DismissShared(s) ==
    /\ Enter /\ s \in shares
    /\ shares' = shares \ {s}
    /\ UNCHANGED <<live, edge, nextId, req, history>>

----------------------------------------------------------------------------
(* History: the couple, when its rows have changed since they were read.   *)
Race(r) == IF View(r.pair) # r.view THEN {{r.pair[1], r.pair[2]}} ELSE {}

(* The INSERT of a pending request: refused when the pair has a row by     *)
(* now, or one of the two accounts is gone (foreign keys).                 *)
InsertsOrphans(p) == edge[p].status = "none"
InsertAllowed(p) == edge[p].status = "none" /\ {p[1], p[2]} \subseteq live
CommitInsert(w) ==
    LET r == req[w] IN
    /\ r.pc = "insert"
    /\ IF InsertAllowed(r.pair)
       THEN /\ nextId <= MaxRows
            /\ edge' = [edge EXCEPT ![r.pair] = [status |-> "pending", id |-> nextId]]
            /\ nextId' = nextId + 1
            /\ wants' = wants \cup {r.pair}
            /\ unheard' = unheard \ {r.pair}
            /\ raced' = raced \cup Race(r)
       ELSE UNCHANGED <<edge, nextId, history>>
    /\ Done(w)
    /\ UNCHANGED <<live, shares>>

(* The UPDATE of the row read before, found again by its primary key; with *)
(* no such row the request fails.                                          *)
AcceptsAnyway(r) == TRUE
StillThere(r) == edge[r.pair].id = r.view[1].id
CommitAccept(w) ==
    LET r == req[w] IN
    /\ r.pc = "accept"
    /\ IF StillThere(r)
       THEN /\ edge' = [edge EXCEPT ![r.pair].status = "accepted"]
            /\ wants' = wants \cup {<<r.pair[2], r.pair[1]>>}
            /\ unheard' = unheard \ {<<r.pair[2], r.pair[1]>>}
       ELSE UNCHANGED <<edge, wants, unheard>>
    /\ Done(w)
    /\ UNCHANGED <<live, nextId, shares, raced>>

(* INSERT ... ON CONFLICT DO NOTHING of the share, refused when an account *)
(* is gone.                                                                *)
CommitShare(w) ==
    LET r == req[w]
        s == [from |-> r.pair[1], to |-> r.pair[2], item |-> r.item]
    IN
    /\ r.pc = "share"
    /\ IF {s.from, s.to} \subseteq live
       THEN shares' = shares \cup {s}
       ELSE UNCHANGED shares
    /\ Done(w)
    /\ UNCHANGED <<live, edge, nextId, history>>

(* DELETE /me (auth.py): the row goes, and ON DELETE CASCADE takes every   *)
(* friendship and share of the user, in both directions.                   *)
LeaveAccount(u) ==
    /\ Enter /\ u \in live
    /\ live' = live \ {u}
    /\ edge' = [p \in Pairs |-> IF u \in {p[1], p[2]} THEN NoRow ELSE edge[p]]
    /\ shares' = {s \in shares : u # s.from /\ u # s.to}
    /\ UNCHANGED <<nextId, req, history>>

(* The process dies before the commit.                                     *)
Crash(w) ==
    /\ req[w].pc # "idle"
    /\ Done(w)
    /\ UNCHANGED <<live, edge, nextId, shares, history>>

Next ==
    \/ \E w \in Workers :
         \/ \E p \in Pairs : SendRequest(w, p[1], p[2]) \/ AcceptRequest(w, p[1], p[2])
         \/ \E p \in Pairs, i \in Items : ShareEvent(w, p[1], p[2], i)
         \/ CommitInsert(w)
         \/ CommitAccept(w)
         \/ CommitShare(w)
         \/ Crash(w)
    \/ \E p \in Pairs : DeclineRequest(p[1], p[2]) \/ RemoveFriend(p[1], p[2])
    \/ \E s \in Share : DismissShared(s)
    \/ \E u \in Users : LeaveAccount(u)

Spec == Init /\ [][Next]_vars

----------------------------------------------------------------------------
(* Every variable keeps its type.                                          *)
TypeOK ==
    /\ live \subseteq Users
    /\ edge \in [Pairs -> Row]
    /\ nextId \in 1..(MaxRows + 1)
    /\ shares \subseteq Share
    /\ req \in [Workers -> Request]
    /\ wants \subseteq Pairs /\ unheard \subseteq Pairs
    /\ raced \subseteq SUBSET Users

(* Deleting an account takes every row that names it along, also rows that *)
(* requests in flight were about to write (models.py:198-203, 227-232).    *)
NoOrphans ==
    /\ \A p \in Pairs : edge[p].status # "none" => {p[1], p[2]} \subseteq live
    /\ \A s \in shares : {s.from, s.to} \subseteq live

(* The pairs that ask, and the couples that are friends, one way or other. *)
Asked == {p \in Pairs : edge[p].status = "pending"}
FriendSets == {{p[1], p[2]} : p \in {q \in Pairs : edge[q].status = "accepted"}}

Couple(p) == {p[1], p[2]}

(* There is one row between two users, in one direction or the other: who  *)
(* is asked and asks in turn accepts (EVAL_QA.md:283).                     *)
OneRow(p) == edge[p].status # "none" => edge[<<p[2], p[1]>>].status = "none"
OneRowBetween == \A p \in Pairs : OneRow(p)

(* Only an INSERT that rests on rows which have changed since they were    *)
(* read can break that, and a removal repairs it.                          *)
OneRowUnlessRaced == \A p \in Pairs : Couple(p) \notin raced => OneRow(p)

(* Friends are friends by the word of both: a removal by either one ends   *)
(* it whoever asked first (social.py:244), a decline ends the request it   *)
(* finds pending (social.py:226), and a new friendship needs a new yes.    *)
(* Whose last word was no and who is a friend all the same has declined    *)
(* what was not pending any more, and was answered "declined".             *)
Willing == wants \cup unheard
FriendsBothWant ==
    \A p \in Pairs :
        Couple(p) \in FriendSets /\ Couple(p) \notin raced => Both(p[1], p[2]) \subseteq Willing

(* An item is shared only with somebody who is a friend when the share     *)
(* appears (social.py:304), unless their rows changed after the request    *)
(* looked.                                                                 *)
SharedWithFriends ==
    [][\A s \in shares' \ shares :
         \/ {s.from, s.to} \in FriendSets
         \/ \E w \in Workers : req[w].pc = "share" /\ {s.from, s.to} \in Race(req[w])]_vars

(* What the two rest on: the row an undisturbed couple has goes with what  *)
(* they want, and an INSERT is prepared only for a pair without rows.      *)
Consistent(p) ==
    /\ OneRow(p)
    /\ edge[p].status = "pending" => p \in Willing
    /\ edge[p].status = "accepted" => Both(p[1], p[2]) \subseteq Willing
WantsInv ==
    /\ \A p \in Pairs : Couple(p) \notin raced => Consistent(p)
    /\ \A w \in Workers : req[w].pc = "insert" => req[w].view = <<NoRow, NoRow>>

(* Whatever overlaps: a row that a request is about to accept is the row   *)
(* it read, not a later one between the same users.                        *)
IdsOK ==
    /\ \A p \in Pairs : /\ edge[p].id < nextId
                        /\ edge[p].status = "none" <=> edge[p].id = 0
    /\ \A w \in Workers :
         /\ req[w].pc # "idle" => req[w].pair \in Pairs
         /\ req[w].pc = "accept" => req[w].view[1].id \in 1..(nextId - 1)
         /\ req[w].pc = "share" => req[w].item \in Items
IInv == TypeOK /\ IdsOK

(* The endpoints implement FriendLife: nobody becomes a friend of somebody *)
(* who never asked, or who took the request back meanwhile, however        *)
(* requests overlap.                                                       *)
Life == INSTANCE FriendLife WITH asked <- Asked, friends <- FriendSets
ImplementsFriendLife == Life!Spec
=============================================================================
