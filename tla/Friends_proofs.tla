--------------------------- MODULE Friends_proofs ---------------------------
(***************************************************************************)
(* Friends for any number of users, items, workers and rows.  IInv says    *)
(* that a row read before is recognised by its id, so the UPDATE of an     *)
(* accept finds the row it read or none; NoOrphans and the refinement of   *)
(* FriendLife follow from it.                                              *)
(***************************************************************************)
EXTENDS Friends, TLAPS

LEMMA PairIsTuple ==
    ASSUME NEW p \in Pairs
    PROVE  /\ p = <<p[1], p[2]>> /\ p[1] \in Users /\ p[2] \in Users /\ p[1] # p[2]
           /\ <<p[2], p[1]>> \in Pairs
BY DEF Pairs

LEMMA PairOfSet ==
    ASSUME NEW p \in Pairs, NEW q \in Pairs
    PROVE  {p[1], p[2]} = {q[1], q[2]} <=> q \in Both(p[1], p[2])
<1>1. /\ p = <<p[1], p[2]>> /\ p[1] # p[2]
      /\ q = <<q[1], q[2]>> /\ q[1] # q[2]
  BY PairIsTuple
<1>2. ASSUME {p[1], p[2]} = {q[1], q[2]} PROVE q \in Both(p[1], p[2])
  <2>1. (q[1] = p[1] /\ q[2] = p[2]) \/ (q[1] = p[2] /\ q[2] = p[1])
    BY <1>1, <1>2
  <2> QED
    BY <1>1, <2>1 DEF Both
<1>3. ASSUME q \in Both(p[1], p[2]) PROVE {p[1], p[2]} = {q[1], q[2]}
  BY <1>3 DEF Both
<1> QED
  BY <1>2, <1>3

LEMMA ZeroBound == 0 \in 0..MaxRows /\ NoRow \in Row
BY BoundsAssumption DEF NoRow, Row

LEMMA IdleRequest == Idle \in Request
<1>1. <<NoRow, NoRow>> \in Row \X Row
  BY ZeroBound
<1> QED
  BY <1>1 DEF Idle, Request

(* The request records the handlers build.                                 *)
LEMMA Requests ==
    ASSUME edge \in [Pairs -> Row], NEW p \in Pairs, NEW i \in Items \cup {None},
           NEW pc \in {"insert", "accept", "share"}
    PROVE  Reading(pc, p, i) \in Request /\ View(p)[1] = edge[p]
<1>1. View(p) \in Row \X Row /\ View(p)[1] = edge[p]
  BY PairIsTuple DEF View
<1> QED
  BY <1>1 DEF Reading, Request

(* The couple a request may mark.                                          *)
LEMMA RaceType ==
    ASSUME NEW r, r.pair \in Pairs
    PROVE  Race(r) \subseteq SUBSET Users
BY PairIsTuple DEF Race

----------------------------------------------------------------------------
LEMMA InitIInv == Init => IInv /\ NoOrphans
<1> SUFFICES ASSUME Init PROVE IInv /\ NoOrphans
  OBVIOUS
<1>1. TypeOK
  <2>1. [p \in Pairs |-> NoRow] \in [Pairs -> Row] /\ [w \in Workers |-> Idle] \in [Workers -> Request]
    BY IdleRequest, ZeroBound
  <2>2. 1 \in 1..(MaxRows + 1)
    BY BoundsAssumption
  <2> QED
    BY <2>1, <2>2 DEF Init, TypeOK
<1>2. IdsOK
  BY DEF Init, IdsOK, NoRow, Idle
<1>3. NoOrphans
  BY DEF Init, NoOrphans, NoRow
<1> QED
  BY <1>1, <1>2, <1>3 DEF IInv

(* What a request holds when it has begun, and when it is done.            *)
LEMMA BeginStep ==
    ASSUME IInv, NEW w \in Workers, NEW p \in Pairs, NEW i \in Items \cup {None},
           NEW pc \in {"insert", "accept", "share"}, Begin(w, Reading(pc, p, i)),
           pc = "accept" => edge[p].status # "none", pc = "share" => i \in Items,
           UNCHANGED <<edge, nextId>>
    PROVE  req' \in [Workers -> Request] /\ IdsOK'
<1> DEFINE r == Reading(pc, p, i)
<1>1. /\ req \in [Workers -> Request] /\ nextId \in 1..(MaxRows + 1)
      /\ edge \in [Pairs -> Row] /\ IdsOK
  BY DEF IInv, TypeOK
<1>2. r \in Request /\ View(p)[1] = edge[p]
  BY <1>1, Requests
<1>3. r.pc = pc /\ r.pair = p /\ r.item = i /\ r.view[1] = edge[p]
  BY <1>2 DEF Reading
<1>4. req' = [req EXCEPT ![w] = r]
  BY DEF Begin
<1> HIDE DEF r
<1>5. req' \in [Workers -> Request] /\ req'[w] = r
      /\ \A v \in Workers : v # w => req'[v] = req[v]
  BY <1>1, <1>2, <1>4
<1>6. pc = "accept" => edge[p].id \in 1..(nextId - 1)
  BY <1>1, BoundsAssumption DEF IdsOK, Row
<1> QED
  BY <1>1, <1>3, <1>5, <1>6 DEF IdsOK

LEMMA DoneStep ==
    ASSUME IInv, NEW w \in Workers, Done(w)
    PROVE  /\ req' \in [Workers -> Request]
           /\ \A v \in Workers : req'[v] = Idle \/ req'[v] = req[v]
BY IdleRequest DEF IInv, TypeOK, Done

LEMMA StepIInv == IInv /\ NoOrphans /\ [Next]_vars => IInv' /\ NoOrphans'
<1> SUFFICES ASSUME IInv, NoOrphans, [Next]_vars PROVE IInv' /\ NoOrphans'
  OBVIOUS
<1> USE DEF IInv
<1>0. /\ live \subseteq Users /\ edge \in [Pairs -> Row] /\ nextId \in 1..(MaxRows + 1)
      /\ shares \subseteq Share /\ req \in [Workers -> Request] /\ wants \subseteq Pairs
      /\ unheard \subseteq Pairs /\ raced \subseteq SUBSET Users
      /\ MaxRows \in Nat
  BY BoundsAssumption DEF TypeOK
<1>1. ASSUME NEW w \in Workers, NEW p \in Pairs, SendRequest(w, p[1], p[2])
      PROVE  IInv' /\ NoOrphans'
  <2> DEFINE q == <<p[2], p[1]>>
  <2>1. p = <<p[1], p[2]>> /\ q \in Pairs
    BY PairIsTuple
  <2>2. UNCHANGED <<live, edge, nextId, shares, wants, unheard, raced>>
    BY <1>1 DEF SendRequest, history
  <2>3. IdsOK' /\ req' \in [Workers -> Request]
    <3>1. CASE Begin(w, Reading("insert", p, None))
      BY <2>1, <2>2, <3>1, BeginStep
    <3>2. CASE edge[q].status = "pending" /\ Begin(w, Reading("accept", q, None))
      BY <2>1, <2>2, <3>2, BeginStep
    <3> QED
      BY <1>1, <2>1, <3>1, <3>2 DEF SendRequest
  <2> QED
    BY <1>0, <2>2, <2>3 DEF TypeOK, NoOrphans
<1>2. ASSUME NEW w \in Workers, NEW p \in Pairs, AcceptRequest(w, p[1], p[2])
      PROVE  IInv' /\ NoOrphans'
  <2> DEFINE q == <<p[2], p[1]>>
  <2>1. q \in Pairs
    BY PairIsTuple
  <2>2. UNCHANGED <<live, edge, nextId, shares, wants, unheard, raced>>
    BY <1>2 DEF AcceptRequest, history
  <2>3. edge[q].status = "pending" /\ Begin(w, Reading("accept", q, None))
    BY <1>2 DEF AcceptRequest
  <2>4. IdsOK' /\ req' \in [Workers -> Request]
    BY <2>1, <2>2, <2>3, BeginStep
  <2> QED
    BY <1>0, <2>2, <2>4 DEF TypeOK, NoOrphans
<1>3. ASSUME NEW w \in Workers, NEW p \in Pairs, NEW i \in Items,
             ShareEvent(w, p[1], p[2], i)
      PROVE  IInv' /\ NoOrphans'
  <2>1. p = <<p[1], p[2]>>
    BY PairIsTuple
  <2>2. UNCHANGED <<live, edge, nextId, shares, wants, unheard, raced>>
    BY <1>3 DEF ShareEvent, history
  <2>3. IdsOK' /\ req' \in [Workers -> Request]
    <3>1. Begin(w, Reading("share", p, i))
      BY <1>3, <2>1 DEF ShareEvent
    <3> QED
      BY <2>2, <3>1, BeginStep
  <2> QED
    BY <1>0, <2>2, <2>3 DEF TypeOK, NoOrphans
<1>4. ASSUME NEW w \in Workers, CommitInsert(w)
      PROVE  IInv' /\ NoOrphans'
  <2> DEFINE p == req[w].pair
  <2>1. p \in Pairs /\ UNCHANGED <<live, shares>>
    BY <1>4 DEF IdsOK, CommitInsert
  <2>2. req' \in [Workers -> Request] /\ \A v \in Workers : req'[v] = Idle \/ req'[v] = req[v]
    BY <1>4, DoneStep DEF CommitInsert
  <2>3. ASSUME InsertAllowed(p)
        PROVE  IInv' /\ NoOrphans'
    <3> DEFINE row == [status |-> "pending", id |-> nextId]
    <3>1. /\ nextId <= MaxRows /\ nextId' = nextId + 1 /\ wants' = wants \cup {p}
          /\ unheard' = unheard \ {p}
          /\ raced' = raced \cup Race(req[w])
          /\ edge' = [edge EXCEPT ![p] = row]
      BY <1>4, <2>3 DEF CommitInsert
    <3>2. row \in Row
      BY <1>0, <3>1 DEF Row
    <3>3. edge' \in [Pairs -> Row] /\ edge'[p] = row /\ \A q \in Pairs : q # p => edge'[q] = edge[q]
      BY <1>0, <2>1, <3>1, <3>2
    <3>4. TypeOK'
      BY <1>0, <2>1, <2>2, <3>1, <3>3, RaceType DEF TypeOK
    <3>5. IdsOK'
      BY <1>0, <2>1, <2>2, <3>1, <3>3 DEF IdsOK, Idle, Row
    <3>6. NoOrphans'
      BY <2>1, <2>3, <3>3 DEF NoOrphans, InsertAllowed
    <3> QED
      BY <3>4, <3>5, <3>6
  <2>4. ASSUME ~InsertAllowed(p)
        PROVE  IInv' /\ NoOrphans'
    <3>1. UNCHANGED <<edge, nextId, wants, unheard, raced>>
      BY <1>4, <2>4 DEF CommitInsert, history
    <3> QED
      BY <1>0, <2>1, <2>2, <3>1 DEF TypeOK, IdsOK, NoOrphans, Idle
  <2> QED
    BY <2>3, <2>4
<1>5. ASSUME NEW w \in Workers, CommitAccept(w)
      PROVE  IInv' /\ NoOrphans'
  <2> DEFINE p == req[w].pair
  <2>1. p \in Pairs /\ req[w].view[1].id \in 1..(nextId - 1)
        /\ UNCHANGED <<live, nextId, shares, raced>>
    BY <1>5 DEF IdsOK, CommitAccept
  <2>2. req' \in [Workers -> Request] /\ \A v \in Workers : req'[v] = Idle \/ req'[v] = req[v]
    BY <1>5, DoneStep DEF CommitAccept
  <2>3. ASSUME StillThere(req[w])
        PROVE  IInv' /\ NoOrphans'
    <3>1. /\ edge' = [edge EXCEPT ![p].status = "accepted"]
          /\ wants' = wants \cup {<<p[2], p[1]>>} /\ unheard' \subseteq unheard
      BY <1>5, <2>3 DEF CommitAccept
    <3>2. edge[p] \in Row /\ edge[p].id # 0 /\ edge[p].status # "none"
      BY <1>0, <2>1, <2>3 DEF StillThere, IdsOK
    <3>3. [edge[p] EXCEPT !.status = "accepted"] \in Row
      BY <3>2 DEF Row
    <3>4. /\ edge' \in [Pairs -> Row]
          /\ edge'[p].id = edge[p].id /\ edge'[p].status = "accepted"
          /\ \A q \in Pairs : q # p => edge'[q] = edge[q]
      BY <1>0, <2>1, <3>1, <3>2, <3>3 DEF Row
    <3>5. TypeOK'
      BY <1>0, <2>1, <2>2, <3>1, <3>4, PairIsTuple DEF TypeOK
    <3>6. IdsOK'
      BY <1>0, <2>1, <2>2, <3>2, <3>4 DEF IdsOK, Idle
    <3>7. NoOrphans'
      BY <2>1, <3>2, <3>4 DEF NoOrphans
    <3> QED
      BY <3>5, <3>6, <3>7
  <2>4. ASSUME ~StillThere(req[w])
        PROVE  IInv' /\ NoOrphans'
    <3>1. UNCHANGED <<edge, wants, unheard>>
      BY <1>5, <2>4 DEF CommitAccept
    <3> QED
      BY <1>0, <2>1, <2>2, <3>1 DEF TypeOK, IdsOK, NoOrphans, Idle
  <2> QED
    BY <2>3, <2>4
<1>6. ASSUME NEW w \in Workers, CommitShare(w)
      PROVE  IInv' /\ NoOrphans'
  <2> DEFINE r == req[w]
             s == [from |-> r.pair[1], to |-> r.pair[2], item |-> r.item]
  <2>1. r \in Request /\ r.pair \in Pairs /\ UNCHANGED <<live, edge, nextId, wants, unheard, raced>>
    BY <1>0, <1>6 DEF IdsOK, CommitShare, history
  <2>2. req' \in [Workers -> Request] /\ \A v \in Workers : req'[v] = Idle \/ req'[v] = req[v]
    BY <1>6, DoneStep DEF CommitShare
  <2>3. shares' = IF {s.from, s.to} \subseteq live THEN shares \cup {s} ELSE shares
    BY <1>6 DEF CommitShare
  <2>4. s.from = r.pair[1] /\ s.to = r.pair[2]
    OBVIOUS
  <2>5. r.pair[1] \in Users /\ r.pair[2] \in Users
    BY <2>1, PairIsTuple
  <2>6. r.item \in Items
    BY <1>6 DEF IdsOK, CommitShare
  <2>7. TypeOK'
    BY <1>0, <2>1, <2>2, <2>3, <2>5, <2>6 DEF TypeOK, Share
  <2>8. IdsOK'
    BY <1>0, <2>1, <2>2 DEF IdsOK, Idle
  <2>9. NoOrphans'
    BY <2>1, <2>3, <2>4 DEF NoOrphans
  <2> QED
    BY <2>7, <2>8, <2>9
<1>7. ASSUME NEW p \in Pairs, DeclineRequest(p[1], p[2])
      PROVE  IInv' /\ NoOrphans'
  <2>1. p = <<p[1], p[2]>>
    BY PairIsTuple
  <2>2. /\ edge' = [q \in Pairs |-> IF q \in Declines(p[1], p[2]) THEN NoRow ELSE edge[q]]
        /\ wants' \subseteq wants /\ unheard' \subseteq unheard \cup {p}
        /\ UNCHANGED <<live, nextId, shares, req, raced>>
    BY <1>7, <2>1 DEF DeclineRequest
  <2>3. edge' \in [Pairs -> Row] /\ \A q \in Pairs : edge'[q] \in {NoRow, edge[q]}
    BY <1>0, <2>2, ZeroBound
  <2> QED
    BY <1>0, <2>2, <2>3 DEF TypeOK, IdsOK, NoOrphans, NoRow
<1>8. ASSUME NEW p \in Pairs, RemoveFriend(p[1], p[2])
      PROVE  IInv' /\ NoOrphans'
  <2>1. /\ wants' \subseteq wants /\ unheard' \subseteq unheard /\ raced' \subseteq raced
        /\ UNCHANGED <<live, nextId, shares, req>>
        /\ edge' = [q \in Pairs |-> IF q \in Removes(p[1], p[2]) THEN NoRow ELSE edge[q]]
    BY <1>8 DEF RemoveFriend
  <2>2. edge' \in [Pairs -> Row] /\ \A q \in Pairs : edge'[q] \in {NoRow, edge[q]}
    BY <1>0, <2>1, ZeroBound
  <2> QED
    BY <1>0, <2>1, <2>2 DEF TypeOK, IdsOK, NoOrphans, NoRow
<1>9. ASSUME NEW s \in Share, DismissShared(s)
      PROVE  IInv' /\ NoOrphans'
  BY <1>0, <1>9 DEF DismissShared, history, TypeOK, IdsOK, NoOrphans
<1>10. ASSUME NEW u \in Users, LeaveAccount(u)
       PROVE  IInv' /\ NoOrphans'
  <2>1. /\ live' = live \ {u} /\ shares' = {s \in shares : u # s.from /\ u # s.to}
        /\ edge' = [q \in Pairs |-> IF u \in {q[1], q[2]} THEN NoRow ELSE edge[q]]
        /\ UNCHANGED <<nextId, req, wants, unheard, raced>>
    BY <1>10 DEF LeaveAccount, history
  <2>2. edge' \in [Pairs -> Row] /\ \A q \in Pairs : edge'[q] \in {NoRow, edge[q]}
    BY <1>0, <2>1, ZeroBound
  <2>3. TypeOK' /\ IdsOK'
    BY <1>0, <2>1, <2>2 DEF TypeOK, IdsOK, NoRow
  <2>4. NoOrphans'
    BY <2>1 DEF NoOrphans, NoRow
  <2> QED
    BY <2>3, <2>4
<1>11. ASSUME NEW w \in Workers, Crash(w)
       PROVE  IInv' /\ NoOrphans'
  <2>1. req' \in [Workers -> Request] /\ \A v \in Workers : req'[v] = Idle \/ req'[v] = req[v]
    BY <1>11, DoneStep DEF Crash
  <2> QED
    BY <1>0, <1>11, <2>1 DEF Crash, history, TypeOK, IdsOK, NoOrphans, Idle
<1>12. CASE UNCHANGED vars
  BY <1>0, <1>12 DEF vars, history, TypeOK, IdsOK, NoOrphans
<1> QED
  BY <1>1, <1>2, <1>3, <1>4, <1>5, <1>6, <1>7, <1>8, <1>9, <1>10, <1>11, <1>12 DEF Next

LEMMA AlwaysIInv == Spec => [](IInv /\ NoOrphans)
<1>1. Init => IInv /\ NoOrphans
  BY InitIInv
<1>2. (IInv /\ NoOrphans) /\ [Next]_vars => (IInv /\ NoOrphans)'
  BY StepIInv
<1> QED
  BY <1>1, <1>2, PTL DEF Spec

(* A request in flight knows the row it will accept by an id that no later *)
(* row of the same two users has.                                          *)
THEOREM AcceptsTheRowRead == Spec => []IInv
BY AlwaysIInv, PTL

(* Rows and shares join live accounts only, whatever commits while an      *)
(* account is deleted.                                                     *)
THEOREM NoRowOutlivesItsUsers == Spec => []NoOrphans
BY AlwaysIInv, PTL
----------------------------------------------------------------------------
(* One row between two users, and friends by the word of both.             *)
(* A couple is the same for a pair and its reverse.                        *)
LEMMA CoupleOfPair ==
    ASSUME NEW p \in Pairs, NEW q \in Pairs
    PROVE  Couple(p) = Couple(q) <=> q \in Both(p[1], p[2])
BY PairOfSet DEF Couple

(* A step that only removes rows, keeps the wishes that remaining rows     *)
(* rest on, and pardons no couple that still has one.                      *)
LEMMA RemovalKeeps ==
    ASSUME WantsInv, NEW gone,
           \A p \in Pairs : edge'[p] = (IF p \in gone THEN NoRow ELSE edge[p]),
           \A p \in Pairs : Couple(p) \notin raced' /\ p \notin gone => Couple(p) \notin raced,
           \A p \in Pairs : Couple(p) \notin raced' /\ p \notin gone /\ edge[p].status # "none"
                              => Both(p[1], p[2]) \cap Willing \subseteq Willing',
           req' = req
    PROVE  WantsInv'
<1>1. ASSUME NEW p \in Pairs, Couple(p) \notin raced' PROVE Consistent(p)'
  <2>1. <<p[2], p[1]>> \in Pairs
    BY PairIsTuple
  <2>2. CASE p \in gone
    BY <2>2 DEF Consistent, OneRow, NoRow
  <2>3. CASE p \notin gone
    <3>1. Consistent(p)
      BY <1>1, <2>3 DEF WantsInv
    <3>2. edge'[p] = edge[p]
      BY <2>3
    <3>3. OneRow(p)'
      BY <2>1, <3>1, <3>2 DEF Consistent, OneRow, NoRow
    <3>4. p \in Both(p[1], p[2])
      BY PairIsTuple DEF Both
    <3>5. edge[p].status # "none" => Both(p[1], p[2]) \cap Willing \subseteq Willing'
      BY <1>1, <2>3
    <3>6. Both(p[1], p[2])' = Both(p[1], p[2])
      BY DEF Both
    <3> QED
      BY <3>1, <3>2, <3>3, <3>4, <3>5, <3>6 DEF Consistent
  <2> QED
    BY <2>2, <2>3
<1> QED
  BY <1>1 DEF WantsInv

(* A step that writes no row and no wish.                                  *)
LEMMA ReadingKeeps ==
    ASSUME WantsInv, UNCHANGED <<edge, wants, unheard, raced>>,
           \A w \in Workers : req'[w].pc = "insert" =>
              req'[w].view = <<NoRow, NoRow>>
    PROVE  WantsInv'
BY DEF WantsInv, Consistent, OneRow, Willing

LEMMA BeginKeeps ==
    ASSUME IInv, WantsInv, NEW w \in Workers, NEW r, Begin(w, r),
           r.pc = "insert" => r.view = <<NoRow, NoRow>>,
           UNCHANGED <<edge, wants, unheard, raced>>
    PROVE  WantsInv'
<1>1. /\ req' = [req EXCEPT ![w] = r]
      /\ req \in [Workers -> Request]
  BY DEF Begin, IInv, TypeOK
<1>2. \A v \in Workers : req'[v] = IF v = w THEN r ELSE req[v]
  BY <1>1
<1>3. \A v \in Workers : req'[v].pc = "insert" => req'[v].view = <<NoRow, NoRow>>
  BY <1>2 DEF WantsInv
<1> QED
  BY <1>3, ReadingKeeps

LEMMA DoneKeeps ==
    ASSUME IInv, WantsInv, NEW w \in Workers, Done(w)
    PROVE  \A v \in Workers : req'[v].pc = "insert" => req'[v].view = <<NoRow, NoRow>>
<1>1. Idle.pc # "insert"
  BY DEF Idle
<1> QED
  BY <1>1, DoneStep DEF WantsInv

LEMMA StepWants == IInv /\ WantsInv /\ [Next]_vars => WantsInv'
<1> SUFFICES ASSUME IInv, WantsInv, [Next]_vars PROVE WantsInv'
  OBVIOUS
<1>0. edge \in [Pairs -> Row] /\ req \in [Workers -> Request] /\ nextId \in Nat
  BY DEF IInv, TypeOK
<1>1. ASSUME NEW w \in Workers, NEW p \in Pairs, SendRequest(w, p[1], p[2])
      PROVE  WantsInv'
  <2> DEFINE q == <<p[2], p[1]>>
  <2>1. p = <<p[1], p[2]>> /\ q \in Pairs /\ UNCHANGED <<edge, wants, unheard, raced>>
    BY <1>1, PairIsTuple DEF SendRequest, history
  <2>2. CASE Found(p[1], p[2]) = {} /\ Begin(w, Reading("insert", p, None))
    <3>1. edge[p].status = "none" /\ edge[q].status = "none"
      BY <2>1, <2>2 DEF Found, Both
    <3>2. edge[p] = NoRow /\ edge[q] = NoRow
      BY <1>0, <2>1, <3>1 DEF IInv, IdsOK, Row, NoRow
    <3>3. Reading("insert", p, None).view = <<NoRow, NoRow>>
      BY <3>2 DEF Reading, View
    <3> QED
      BY <2>1, <2>2, <3>3, BeginKeeps
  <2>3. CASE Begin(w, Reading("accept", q, None))
    <3>1. Reading("accept", q, None).pc # "insert"
      BY DEF Reading
    <3> QED
      BY <2>1, <2>3, <3>1, BeginKeeps
  <2> QED
    BY <1>1, <2>1, <2>2, <2>3 DEF SendRequest
<1>2. ASSUME NEW w \in Workers, NEW p \in Pairs, AcceptRequest(w, p[1], p[2])
      PROVE  WantsInv'
  <2>1. /\ Begin(w, Reading("accept", <<p[2], p[1]>>, None))
        /\ UNCHANGED <<edge, wants, unheard, raced>>
    BY <1>2 DEF AcceptRequest, history
  <2>2. Reading("accept", <<p[2], p[1]>>, None).pc # "insert"
    BY DEF Reading
  <2> QED
    BY <2>1, <2>2, BeginKeeps
<1>3. ASSUME NEW w \in Workers, NEW p \in Pairs, NEW i \in Items,
             ShareEvent(w, p[1], p[2], i)
      PROVE  WantsInv'
  <2>1. /\ Begin(w, Reading("share", <<p[1], p[2]>>, i))
        /\ UNCHANGED <<edge, wants, unheard, raced>>
    BY <1>3 DEF ShareEvent, history
  <2>2. Reading("share", <<p[1], p[2]>>, i).pc # "insert"
    BY DEF Reading
  <2> QED
    BY <2>1, <2>2, BeginKeeps
<1>4. ASSUME NEW w \in Workers, CommitInsert(w)
      PROVE  WantsInv'
  <2> DEFINE r == req[w]
             p == r.pair
             rev == <<p[2], p[1]>>
  <2>1. \A v \in Workers : req'[v].pc = "insert" => req'[v].view = <<NoRow, NoRow>>
    BY <1>4, DoneKeeps DEF CommitInsert
  <2>2. CASE UNCHANGED <<edge, wants, unheard, raced>>
    BY <2>1, <2>2, ReadingKeeps
  <2>3. ASSUME InsertAllowed(p)
        PROVE  WantsInv'
    <3>1. p \in Pairs /\ r.view = <<NoRow, NoRow>>
      BY <1>4 DEF CommitInsert, IInv, IdsOK, WantsInv
    <3>2. /\ rev \in Pairs /\ rev # p /\ p = <<p[1], p[2]>> /\ <<rev[2], rev[1]>> = p
          /\ rev = <<p[2], p[1]>>
          /\ Both(p[1], p[2]) = {p, rev}
      BY <3>1, PairIsTuple DEF Both
    <3>3. /\ wants' = wants \cup {p} /\ unheard' = unheard \ {p} /\ raced' = raced \cup Race(r)
          /\ edge' = [edge EXCEPT ![p] = [status |-> "pending", id |-> nextId]]
      BY <1>4, <2>3 DEF CommitInsert
    <3>4. edge'[p].status = "pending" /\ \A q \in Pairs : q # p => edge'[q] = edge[q]
      BY <1>0, <3>1, <3>3
    <3>5. ASSUME NEW q \in Pairs, Couple(q) \notin raced' PROVE Consistent(q)'
      <4>1. CASE q \in {p, rev}
        <5>1. Couple(q) = Couple(p)
          BY <3>1, <3>2, <4>1, CoupleOfPair
        <5>2. Race(r) # {Couple(p)}
          BY <3>3, <3>5, <5>1
        <5>3. View(p) = r.view
          BY <5>2 DEF Race, Couple
        <5>4. edge[rev] = NoRow
          BY <3>1, <5>3 DEF View
        <5>5. edge'[rev].status = "none"
          BY <3>2, <3>4, <5>4 DEF NoRow
        <5> HIDE DEF p, rev
        <5> QED
          BY <3>2, <3>3, <3>4, <4>1, <5>5 DEF Consistent, OneRow, Willing
      <4>2. CASE q \notin {p, rev}
        <5>1. <<q[2], q[1]>> \in Pairs /\ <<q[2], q[1]>> # p /\ q # p
          BY <3>1, <3>2, <4>2, PairIsTuple
        <5>2. edge'[q] = edge[q] /\ edge'[<<q[2], q[1]>>] = edge[<<q[2], q[1]>>]
          BY <3>4, <5>1
        <5>3. Consistent(q)
          BY <3>3, <3>5 DEF WantsInv
        <5> HIDE DEF p, rev
        <5> QED
          BY <3>3, <5>2, <5>3 DEF Consistent, OneRow, Willing
      <4> QED
        BY <4>1, <4>2
    <3> QED
      BY <2>1, <3>5 DEF WantsInv
  <2> QED
    BY <1>4, <2>2, <2>3 DEF CommitInsert, history
<1>5. ASSUME NEW w \in Workers, CommitAccept(w)
      PROVE  WantsInv'
  <2> DEFINE p == req[w].pair
             rev == <<p[2], p[1]>>
  <2>1. \A v \in Workers : req'[v].pc = "insert" => req'[v].view = <<NoRow, NoRow>>
    BY <1>5, DoneKeeps DEF CommitAccept
  <2>2. CASE UNCHANGED <<edge, wants, unheard, raced>>
    BY <2>1, <2>2, ReadingKeeps
  <2>3. ASSUME StillThere(req[w])
        PROVE  WantsInv'
    <3>1. p \in Pairs /\ req[w].view[1].id \in 1..(nextId - 1)
      BY <1>5 DEF CommitAccept, IInv, IdsOK
    <3>2. /\ rev \in Pairs /\ rev # p /\ p = <<p[1], p[2]>> /\ <<rev[2], rev[1]>> = p
          /\ rev = <<p[2], p[1]>>
          /\ Both(p[1], p[2]) = {p, rev}
      BY <3>1, PairIsTuple DEF Both
    <3>3. /\ wants' = wants \cup {rev} /\ unheard' = unheard \ {rev} /\ raced' = raced
          /\ edge' = [edge EXCEPT ![p].status = "accepted"]
      BY <1>5, <2>3 DEF CommitAccept
    <3>4. edge[p].id # 0
      BY <1>0, <2>3, <3>1 DEF StillThere
    <3>5. edge[p].status \in {"pending", "accepted"}
      BY <1>0, <3>1, <3>4 DEF IInv, IdsOK, Row
    <3>6. edge'[p].status = "accepted" /\ \A q \in Pairs : q # p => edge'[q] = edge[q]
      BY <1>0, <3>1, <3>3 DEF Row
    <3>7. ASSUME NEW q \in Pairs, Couple(q) \notin raced' PROVE Consistent(q)'
      <4>1. CASE q \in {p, rev}
        <5>1. Consistent(p)
          BY <3>1, <3>2, <3>3, <3>7, <4>1, CoupleOfPair DEF WantsInv
        <5>2. p \in Willing /\ edge[rev].status = "none"
          BY <3>2, <3>5, <5>1 DEF Consistent, OneRow
        <5>3. edge'[rev].status = "none"
          BY <3>2, <3>6, <5>2
        <5> HIDE DEF p, rev
        <5> QED
          BY <3>2, <3>3, <3>6, <4>1, <5>2, <5>3 DEF Consistent, OneRow, Willing
      <4>2. CASE q \notin {p, rev}
        <5>1. <<q[2], q[1]>> \in Pairs /\ <<q[2], q[1]>> # p /\ q # p
          BY <3>1, <3>2, <4>2, PairIsTuple
        <5>2. edge'[q] = edge[q] /\ edge'[<<q[2], q[1]>>] = edge[<<q[2], q[1]>>]
          BY <3>6, <5>1
        <5>3. Consistent(q)
          BY <3>3, <3>7 DEF WantsInv
        <5> HIDE DEF p, rev
        <5> QED
          BY <3>3, <5>2, <5>3 DEF Consistent, OneRow, Willing
      <4> QED
        BY <4>1, <4>2
    <3> QED
      BY <2>1, <3>7 DEF WantsInv
  <2> QED
    BY <1>5, <2>2, <2>3 DEF CommitAccept
<1>6. ASSUME NEW w \in Workers, CommitShare(w) \/ Crash(w)
      PROVE  WantsInv'
  <2>1. Done(w) /\ UNCHANGED <<edge, wants, unheard, raced>>
    BY <1>6 DEF CommitShare, Crash, history
  <2> QED
    BY <2>1, DoneKeeps, ReadingKeeps
<1>7. ASSUME NEW p \in Pairs, DeclineRequest(p[1], p[2])
      PROVE  WantsInv'
  <2> DEFINE q == <<p[2], p[1]>>
             gone == Declines(p[1], p[2])
  <2>1. q \in Pairs /\ p = <<p[1], p[2]>> /\ p # q /\ Both(p[1], p[2]) = {p, q}
    BY PairIsTuple DEF Both
  <2>2. /\ \A x \in Pairs : edge'[x] = (IF x \in gone THEN NoRow ELSE edge[x])
        /\ wants' = wants \ {p} /\ raced' = raced /\ req' = req
        /\ unheard' = IF gone = {} /\ Found(p[1], p[2]) # {}
                      THEN unheard \cup {p} ELSE unheard \ {p, q}
    BY <1>7, <2>1 DEF DeclineRequest
  <2>3. \A x : x \in gone <=> x = q /\ edge[q].status = "pending"
    BY DEF Declines
  <2>4. \A x : x \in Found(p[1], p[2]) <=> x \in {p, q} /\ edge[x].status # "none"
    BY <2>1 DEF Found
  <2> HIDE DEF q, gone
  <2>5. ASSUME NEW x \in Pairs, Couple(x) \notin raced', x \notin gone, edge[x].status # "none"
        PROVE  Both(x[1], x[2]) \cap Willing \subseteq Willing'
    <3>1. OneRow(x) /\ x = <<x[1], x[2]>>
      BY <2>2, <2>5, PairIsTuple DEF WantsInv, Consistent
    <3>2. CASE x \in {p, q}
      <4>1. CASE gone = {}
        BY <2>2, <2>4, <2>5, <3>2, <4>1 DEF Willing
      <4>2. CASE gone # {}
        <5>1. edge[q].status = "pending" /\ x = p
          BY <2>3, <2>5, <3>2, <4>2
        <5> QED
          BY <2>5, <3>1, <5>1 DEF OneRow, q
      <4> QED
        BY <4>1, <4>2
    <3>3. CASE x \notin {p, q}
      <4>1. p \notin Both(x[1], x[2]) /\ q \notin Both(x[1], x[2])
        BY <2>1, <3>1, <3>3 DEF Both, q
      <4> QED
        BY <2>2, <4>1 DEF Willing
    <3> QED
      BY <3>2, <3>3
  <2> QED
    BY <2>2, <2>5, RemovalKeeps
<1>8. ASSUME NEW p \in Pairs, RemoveFriend(p[1], p[2])
      PROVE  WantsInv'
  <2> DEFINE gone == Both(p[1], p[2])
  <2>1. p = <<p[1], p[2]>> /\ p \in gone
    BY PairIsTuple DEF Both
  <2>2. /\ \A x \in Pairs : edge'[x] = (IF x \in gone THEN NoRow ELSE edge[x])
        /\ wants' = wants \ {p} /\ unheard' = unheard \ gone
        /\ raced' = raced \ {Couple(p)} /\ req' = req
    BY <1>8, <2>1 DEF RemoveFriend, Removes, Couple
  <2>3. ASSUME NEW x \in Pairs, x \notin gone
        PROVE  Couple(x) # Couple(p) /\ Both(x[1], x[2]) \cap Willing \subseteq Willing'
    <3>1. Couple(x) # Couple(p)
      BY <2>3, CoupleOfPair
    <3>2. \A y \in gone : y \notin Both(x[1], x[2])
      <4>1. x = <<x[1], x[2]>> /\ x # <<p[1], p[2]>> /\ x # <<p[2], p[1]>>
        BY <2>3, PairIsTuple DEF Both
      <4>2. x # <<p[1], p[2]>> => <<p[2], p[1]>> # <<x[2], x[1]>>
        BY <4>1
      <4>3. x # <<p[2], p[1]>> => <<p[1], p[2]>> # <<x[2], x[1]>>
        BY <4>1
      <4> QED
        BY <4>1, <4>2, <4>3 DEF Both
    <3> HIDE DEF gone
    <3> QED
      BY <2>1, <2>2, <3>1, <3>2 DEF Willing
  <2> HIDE DEF gone
  <2> QED
    BY <2>2, <2>3, RemovalKeeps
<1>9. ASSUME NEW u \in Users, LeaveAccount(u)
      PROVE  WantsInv'
  <2> DEFINE gone == {x \in Pairs : u \in {x[1], x[2]}}
  <2>1. /\ \A x \in Pairs : edge'[x] = (IF x \in gone THEN NoRow ELSE edge[x])
        /\ wants' = wants /\ unheard' = unheard /\ raced' = raced /\ req' = req
    BY <1>9 DEF LeaveAccount, history
  <2> HIDE DEF gone
  <2> QED
    BY <2>1, RemovalKeeps DEF Willing
<1>10. ASSUME NEW s \in Share, DismissShared(s)
       PROVE  WantsInv'
  BY <1>10, ReadingKeeps DEF DismissShared, history, WantsInv
<1>11. CASE UNCHANGED vars
  BY <1>11, ReadingKeeps DEF vars, WantsInv
<1> QED
  BY <1>1, <1>2, <1>3, <1>4, <1>5, <1>6, <1>7, <1>8, <1>9, <1>10, <1>11 DEF Next

LEMMA AlwaysWants == Spec => []WantsInv
<1>1. Init => WantsInv
  <2>1. ASSUME Init, NEW p \in Pairs PROVE Consistent(p)
    BY <2>1, PairIsTuple DEF Init, Consistent, OneRow, NoRow
  <2>2. ASSUME Init, NEW w \in Workers PROVE req[w].pc # "insert"
    BY <2>2 DEF Init, Idle
  <2> QED
    BY <2>1, <2>2 DEF WantsInv
<1>2. IInv /\ WantsInv /\ [Next]_vars => WantsInv'
  BY StepWants
<1> QED
  BY <1>1, <1>2, AlwaysIInv, PTL DEF Spec

(* Between two users there is one row, until an INSERT rests on rows that  *)
(* have changed since they were read.                                      *)
THEOREM OneRowPerCouple == Spec => []OneRowUnlessRaced
<1>1. WantsInv => OneRowUnlessRaced
  BY DEF WantsInv, Consistent, OneRowUnlessRaced
<1> QED
  BY <1>1, AlwaysWants, PTL

(* Friends are friends by the word of both, under the same condition: each *)
(* has said yes since the two were last apart, and whichever said no after *)
(* that declined when no request was pending.                              *)
THEOREM FriendshipIsMutual == Spec => []FriendsBothWant
<1>1. WantsInv => FriendsBothWant
  <2> SUFFICES ASSUME WantsInv, NEW p \in Pairs, Couple(p) \in FriendSets, Couple(p) \notin raced
               PROVE  Both(p[1], p[2]) \subseteq Willing
    BY DEF FriendsBothWant
  <2>1. PICK q \in Pairs : edge[q].status = "accepted" /\ Couple(q) = Couple(p)
    BY DEF FriendSets, Couple
  <2>2. Both(q[1], q[2]) \subseteq Willing
    BY <2>1 DEF WantsInv, Consistent
  <2>3. p \in Both(q[1], q[2]) /\ p = <<p[1], p[2]>>
    BY <2>1, CoupleOfPair, PairIsTuple
  <2>4. Both(p[1], p[2]) = Both(q[1], q[2])
    BY <2>3 DEF Both
  <2> QED
    BY <2>2, <2>4
<1> QED
  BY <1>1, AlwaysWants, PTL

----------------------------------------------------------------------------
(* The refinement of FriendLife.                                           *)
(* A step that keeps the status of every row is a stutter.                 *)
LEMMA SameRelations ==
    ASSUME \A p \in Pairs : edge'[p].status = edge[p].status
    PROVE  UNCHANGED <<Asked, FriendSets>>
BY DEF Asked, FriendSets

LEMMA StepLife ==
    ASSUME IInv, [Next]_vars
    PROVE  [Life!Next]_<<Asked, FriendSets>>
<1>0. edge \in [Pairs -> Row]
  BY DEF IInv, TypeOK
<1>1. CASE UNCHANGED edge
  BY <1>1 DEF Asked, FriendSets
<1>2. ASSUME NEW w \in Workers, CommitInsert(w), ~UNCHANGED edge
      PROVE  Life!Next
  <2> DEFINE p == req[w].pair
  <2>1. p \in Pairs /\ p = <<p[1], p[2]>> /\ p[1] \in Users /\ p[2] \in Users /\ p[1] # p[2]
    BY <1>2, PairIsTuple DEF IInv, IdsOK, CommitInsert
  <2>2. /\ edge[p].status = "none" /\ edge'[p].status = "pending"
        /\ \A q \in Pairs : q # p => edge'[q] = edge[q]
    BY <1>0, <1>2, <2>1 DEF CommitInsert, InsertAllowed
  <2>3. Asked' = Asked \cup {p}
    BY <2>1, <2>2 DEF Asked
  <2>4. {q \in Pairs : edge'[q].status = "accepted"} = {q \in Pairs : edge[q].status = "accepted"}
    BY <2>1, <2>2
  <2>5. FriendSets' = FriendSets
    BY <2>4 DEF FriendSets
  <2>6. Life!Ask(p[1], p[2])
    BY <2>1, <2>3, <2>5 DEF Life!Ask
  <2> QED
    BY <2>1, <2>6 DEF Life!Next
<1>3. ASSUME NEW w \in Workers, CommitAccept(w), ~UNCHANGED edge
      PROVE  Life!Next \/ UNCHANGED <<Asked, FriendSets>>
  <2> DEFINE p == req[w].pair
  <2>1. /\ p \in Pairs /\ p = <<p[1], p[2]>> /\ p[1] \in Users /\ p[2] \in Users /\ p[1] # p[2]
        /\ edge[p].id # 0
    <3>1. p \in Pairs /\ req[w].view[1].id \in 1..(nextId - 1) /\ nextId \in Nat
      BY <1>3 DEF IInv, TypeOK, IdsOK, CommitAccept
    <3>2. edge[p].id = req[w].view[1].id
      BY <1>3 DEF CommitAccept, StillThere
    <3>3. edge[p].id # 0
      BY <3>1, <3>2
    <3> HIDE DEF p
    <3> QED
      BY <3>1, <3>3, PairIsTuple
  <2>2. /\ edge[p].status \in {"pending", "accepted"} /\ edge'[p].status = "accepted"
        /\ \A q \in Pairs : q # p => edge'[q] = edge[q]
    BY <1>0, <1>3, <2>1 DEF CommitAccept, IInv, IdsOK, Row
  <2>3. CASE edge[p].status = "accepted"
    BY <2>2, <2>3, SameRelations
  <2>4. CASE edge[p].status = "pending"
    <3>1. Asked' = Asked \ {p} /\ p \in Asked
      BY <2>1, <2>2, <2>4 DEF Asked
    <3>2. {q \in Pairs : edge'[q].status = "accepted"} = {q \in Pairs : edge[q].status = "accepted"} \cup {p}
      BY <2>1, <2>2
    <3>3. FriendSets' = FriendSets \cup {{p[2], p[1]}}
      <4>1. {p[2], p[1]} = {p[1], p[2]}
        OBVIOUS
      <4> QED
        BY <3>2, <4>1 DEF FriendSets
    <3>4. Life!Agree(p[2], p[1])
      BY <2>1, <3>1, <3>3 DEF Life!Agree
    <3> QED
      BY <2>1, <3>4 DEF Life!Next
  <2> QED
    BY <2>2, <2>3, <2>4
<1>4. ASSUME NEW p \in Pairs, DeclineRequest(p[1], p[2]), ~UNCHANGED edge
      PROVE  Life!Next
  <2> DEFINE q == <<p[2], p[1]>>
  <2>1. q \in Pairs /\ p[1] \in Users /\ p[2] \in Users /\ p[1] # p[2]
    BY PairIsTuple
  <2>2. edge' = [x \in Pairs |-> IF x = q /\ edge[q].status = "pending" THEN NoRow ELSE edge[x]]
    BY <1>4 DEF DeclineRequest, Declines
  <2>3. edge[q].status = "pending"
    BY <1>0, <1>4, <2>2
  <2>4. edge'[q].status = "none" /\ \A x \in Pairs : x # q => edge'[x] = edge[x]
    BY <2>1, <2>2, <2>3 DEF NoRow
  <2>5. Asked' = Asked \ {q}
    BY <2>1, <2>3, <2>4 DEF Asked
  <2>6. {x \in Pairs : edge'[x].status = "accepted"} = {x \in Pairs : edge[x].status = "accepted"}
    BY <2>1, <2>3, <2>4
  <2>7. FriendSets' = FriendSets
    BY <2>6 DEF FriendSets
  <2>8. Life!Decline(p[1], p[2])
    BY <2>5, <2>7 DEF Life!Decline
  <2> QED
    BY <2>1, <2>8 DEF Life!Next
<1>5. ASSUME NEW p \in Pairs, RemoveFriend(p[1], p[2])
      PROVE  Life!Next
  <2> DEFINE gone == Both(p[1], p[2])
  <2>1. p[1] \in Users /\ p[2] \in Users /\ p[1] # p[2]
    BY PairIsTuple
  <2>2. \A q \in Pairs : IF q \in gone THEN edge'[q].status = "none" ELSE edge'[q] = edge[q]
    BY <1>5 DEF RemoveFriend, Removes, NoRow
  <2>3. Asked' = Asked \ gone
    BY <2>2 DEF Asked
  <2>4. {q \in Pairs : edge'[q].status = "accepted"} = {q \in Pairs : edge[q].status = "accepted"} \ gone
    BY <2>2
  <2>5. FriendSets' = FriendSets \ {{p[1], p[2]}}
    <3>1. \A q \in Pairs : {p[1], p[2]} = {q[1], q[2]} <=> q \in gone
      BY PairOfSet
    <3>2. ASSUME NEW f PROVE f \in FriendSets' <=> f \in FriendSets /\ f # {p[1], p[2]}
      <4>1. f \in FriendSets' <=> \E q \in Pairs : edge'[q].status = "accepted" /\ f = {q[1], q[2]}
        BY DEF FriendSets
      <4>2. f \in FriendSets <=> \E q \in Pairs : edge[q].status = "accepted" /\ f = {q[1], q[2]}
        BY DEF FriendSets
      <4>3. \A q \in Pairs : edge'[q].status = "accepted" <=>
                              edge[q].status = "accepted" /\ q \notin gone
        BY <2>2
      <4> HIDE DEF gone
      <4> QED
        BY <3>1, <4>1, <4>2, <4>3
    <3> QED
      BY <3>2
  <2>6. Life!End(p[1], p[2])
    BY <2>3, <2>5 DEF Life!End, Both
  <2> QED
    BY <2>1, <2>6 DEF Life!Next
<1>6. ASSUME NEW u \in Users, LeaveAccount(u)
      PROVE  Life!Next
  <2>1. \A q \in Pairs : IF u \in {q[1], q[2]} THEN edge'[q].status = "none" ELSE edge'[q] = edge[q]
    BY <1>6 DEF LeaveAccount, NoRow
  <2>2. Asked' = {q \in Asked : u # q[1] /\ u # q[2]}
    BY <2>1 DEF Asked
  <2>3. \A q \in Pairs : edge'[q].status = "accepted" <=>
                          edge[q].status = "accepted" /\ u \notin {q[1], q[2]}
    BY <2>1
  <2>4. FriendSets' = {f \in FriendSets : u \notin f}
    BY <2>3 DEF FriendSets
  <2>5. Life!Leave(u)
    BY <2>2, <2>4 DEF Life!Leave
  <2> QED
    BY <2>5 DEF Life!Next
<1>7. ASSUME NEW w \in Workers, NEW p \in Pairs,
             SendRequest(w, p[1], p[2]) \/ AcceptRequest(w, p[1], p[2])
      PROVE  UNCHANGED edge
  BY <1>7 DEF SendRequest, AcceptRequest
<1>8. ASSUME NEW w \in Workers, NEW p \in Pairs, NEW i \in Items, ShareEvent(w, p[1], p[2], i)
      PROVE  UNCHANGED edge
  BY <1>8 DEF ShareEvent, history
<1>9. ASSUME NEW w \in Workers, CommitShare(w) \/ Crash(w)
      PROVE  UNCHANGED edge
  BY <1>9 DEF CommitShare, Crash
<1>10. ASSUME NEW s \in Share, DismissShared(s)
       PROVE  UNCHANGED edge
  BY <1>10 DEF DismissShared
<1>11. CASE UNCHANGED vars
  BY <1>1, <1>11 DEF vars
<1> QED
  BY <1>1, <1>2, <1>3, <1>4, <1>5, <1>6, <1>7, <1>8, <1>9, <1>10, <1>11 DEF Next

(* The endpoints implement FriendLife, however requests overlap.           *)
THEOREM EndpointsImplementFriendLife == Spec => ImplementsFriendLife
<1>1. Init => Life!Init
  BY DEF Init, Life!Init, Asked, FriendSets, NoRow
<1>2. IInv /\ [Next]_vars => [Life!Next]_<<Asked, FriendSets>>
  BY StepLife
<1>3. Spec => Life!Spec
  BY <1>1, <1>2, AlwaysIInv, PTL DEF Spec, Life!Spec
<1> QED
  BY <1>3 DEF ImplementsFriendLife

(* A friendship begins only when a request one of the two has made, and    *)
(* not taken back, is used up by it; whatever overlaps, none comes of a    *)
(* request that was declined, removed or answered already                  *)
(* (social.py:205-215).                                                    *)
AgreedTo(f) == \E p \in Asked : f = {p[1], p[2]} /\ p \notin Asked'
OnlyByAgreement == [][\A f \in FriendSets' \ FriendSets : AgreedTo(f)]_vars

LEMMA LifeAsksFirst ==
    ASSUME [Life!Next]_<<Asked, FriendSets>>, NEW f \in FriendSets' \ FriendSets
    PROVE  AgreedTo(f)
<1>1. PICK a \in Users, b \in Users : Life!Agree(a, b)
  BY DEF Life!Next, Life!Ask, Life!Decline, Life!End, Life!Leave
<1>2. <<b, a>> \in Asked /\ <<b, a>> \notin Asked' /\ f = {a, b}
  BY <1>1 DEF Life!Agree
<1> QED
  BY <1>2 DEF AgreedTo

THEOREM FriendshipIsAgreed == Spec => OnlyByAgreement
<1>1. IInv /\ [Next]_vars => [\A f \in FriendSets' \ FriendSets : AgreedTo(f)]_vars
  BY StepLife, LifeAsksFirst
<1> QED
  BY <1>1, AlwaysIInv, PTL DEF Spec, OnlyByAgreement

----------------------------------------------------------------------------
(* A request to share has read the row of a friendship, one way or other.  *)
SharesOnFriends ==
    \A w \in Workers : req[w].pc = "share" =>
        req[w].view[1].status = "accepted" \/ req[w].view[2].status = "accepted"

LEMMA StepShares ==
    ASSUME IInv, SharesOnFriends, [Next]_vars
    PROVE  SharesOnFriends'
<1>1. req \in [Workers -> Request]
  BY DEF IInv, TypeOK
<1>2. ASSUME NEW w \in Workers, NEW r, req' = [req EXCEPT ![w] = r],
             r.pc = "share" => r.view[1].status = "accepted" \/ r.view[2].status = "accepted"
      PROVE  SharesOnFriends'
  BY <1>1, <1>2 DEF SharesOnFriends
<1>3. ASSUME NEW w \in Workers, Done(w) PROVE SharesOnFriends'
  <2>1. PICK r : r = Idle
    OBVIOUS
  <2>2. r.pc # "share" /\ req' = [req EXCEPT ![w] = r]
    BY <1>3, <2>1 DEF Done, Idle
  <2> QED
    BY <1>2, <2>2
<1>4. ASSUME NEW w \in Workers, NEW p, NEW pc \in {"insert", "accept"},
             Begin(w, Reading(pc, p, None))
      PROVE  SharesOnFriends'
  <2>1. PICK r : r = Reading(pc, p, None)
    OBVIOUS
  <2>2. r.pc # "share" /\ req' = [req EXCEPT ![w] = r]
    BY <1>4, <2>1 DEF Begin, Reading
  <2> QED
    BY <1>2, <2>2
<1>5. ASSUME NEW w \in Workers, NEW p \in Pairs, NEW i \in Items, ShareEvent(w, p[1], p[2], i)
      PROVE  SharesOnFriends'
  <2>1. p = <<p[1], p[2]>>
    BY PairIsTuple
  <2>2. PICK q \in Found(p[1], p[2]) : edge[q].status = "accepted"
    BY <1>5 DEF ShareEvent, MayShare, AreFriends
  <2>3. View(p)[1].status = "accepted" \/ View(p)[2].status = "accepted"
    BY <2>1, <2>2 DEF Found, Both, View
  <2>4. PICK r : r = Reading("share", p, i)
    OBVIOUS
  <2>5. r.view = View(p) /\ req' = [req EXCEPT ![w] = r]
    BY <1>5, <2>1, <2>4 DEF ShareEvent, Begin, Reading
  <2> QED
    BY <1>2, <2>3, <2>5
<1>6. ASSUME NEW w \in Workers, NEW p \in Pairs,
             SendRequest(w, p[1], p[2]) \/ AcceptRequest(w, p[1], p[2])
      PROVE  SharesOnFriends'
  BY <1>4, <1>6 DEF SendRequest, AcceptRequest
<1>7. ASSUME NEW w \in Workers,
             CommitInsert(w) \/ CommitAccept(w) \/ CommitShare(w) \/ Crash(w)
      PROVE  SharesOnFriends'
  BY <1>3, <1>7 DEF CommitInsert, CommitAccept, CommitShare, Crash
<1>8. ASSUME req' = req PROVE SharesOnFriends'
  BY <1>8 DEF SharesOnFriends
<1> QED
  BY <1>5, <1>6, <1>7, <1>8 DEF Next, vars, DeclineRequest, RemoveFriend, DismissShared,
     LeaveAccount

(* The share that a step adds.                                             *)
LEMMA NewShare ==
    ASSUME IInv, SharesOnFriends, [Next]_vars, NEW s \in shares', s \notin shares
    PROVE  \/ {s.from, s.to} \in FriendSets
           \/ \E w \in Workers : req[w].pc = "share" /\ {s.from, s.to} \in Race(req[w])
<1>1. PICK w \in Workers : CommitShare(w)
  BY DEF Next, vars, SendRequest, AcceptRequest, ShareEvent, CommitInsert, CommitAccept, Crash,
     DeclineRequest, RemoveFriend, DismissShared, LeaveAccount
<1>2. PICK r : r = req[w]
  OBVIOUS
<1>3. r.pc = "share" /\ r.pair \in Pairs
  BY <1>1, <1>2 DEF CommitShare, IInv, IdsOK
<1>4. PICK p \in Pairs : p = r.pair
  BY <1>3
<1>5. s.from = p[1] /\ s.to = p[2]
  BY <1>1, <1>2, <1>4 DEF CommitShare
<1>6. CASE View(p) # r.view
  <2>1. {p[1], p[2]} \in Race(r)
    BY <1>4, <1>6 DEF Race
  <2> QED
    BY <1>2, <1>3, <1>5, <2>1
<1>7. CASE View(p) = r.view
  <2>1. View(p)[1].status = "accepted" \/ View(p)[2].status = "accepted"
    BY <1>2, <1>3, <1>7 DEF SharesOnFriends
  <2>2. PICK q \in Pairs : q \in Both(p[1], p[2]) /\ edge[q].status = "accepted"
    BY <2>1, PairIsTuple DEF View, Both
  <2>3. {q[1], q[2]} = {p[1], p[2]}
    BY <2>2, PairOfSet
  <2>4. {p[1], p[2]} \in FriendSets
    BY <2>2, <2>3 DEF FriendSets
  <2> QED
    BY <1>5, <2>4
<1> QED
  BY <1>6, <1>7

(* An item reaches only a friend, or somebody whose rows with the sender   *)
(* changed between the look at them and the INSERT (social.py:304).        *)
THEOREM OnlyFriendsReceive == Spec => SharedWithFriends
<1> DEFINE Step == \A s \in shares' \ shares :
                     \/ {s.from, s.to} \in FriendSets
                     \/ \E w \in Workers : req[w].pc = "share" /\ {s.from, s.to} \in Race(req[w])
<1>1. Init => SharesOnFriends
  BY DEF Init, SharesOnFriends, Idle
<1>2. IInv /\ SharesOnFriends /\ [Next]_vars => SharesOnFriends'
  BY StepShares
<1>3. IInv /\ SharesOnFriends /\ [Next]_vars => [Step]_vars
  BY NewShare
<1>4. SharedWithFriends <=> [][Step]_vars
  BY DEF SharedWithFriends
<1> HIDE DEF Step
<1> QED
  BY <1>1, <1>2, <1>3, <1>4, AlwaysIInv, PTL DEF Spec
==============================================================================
