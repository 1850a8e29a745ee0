--------------------------- MODULE Hearts_proofs ---------------------------
(***************************************************************************)
(* Hearts for any number of accounts, cards, clicks and sign-ins.          *)
(* EpochInv says whose epoch a late answer can still carry, GenInv which   *)
(* generation; SignedOutEmpty and AnswersYieldUnlessRestarted follow.      *)
(* PageInv follows each card through a session, which gives Agreement.     *)
(***************************************************************************)
EXTENDS Hearts, SequenceTheorems, TLAPS

LEMMA SeqIsFunction ==
    ASSUME NEW S, NEW s \in Seq(S)
    PROVE  Len(s) \in Nat /\ DOMAIN s = 1..Len(s) /\ \A n \in DOMAIN s : s[n] \in S
OBVIOUS

LEMMA FunctionIsSeq ==
    ASSUME NEW S, NEW n \in Nat, NEW f \in [1..n -> S]
    PROVE  f \in Seq(S) /\ Len(f) = n
OBVIOUS

(* What no step changes in a request of a heart.                           *)
Kept(n) ==
    /\ n \in Made'
    /\ heart'[n].item = heart[n].item /\ heart'[n].gen = heart[n].gen
    /\ heart'[n].epoch = heart[n].epoch /\ heart'[n].late = heart[n].late
    /\ heart[n].done => heart'[n].done /\ heart'[n].fate = heart[n].fate

LEMMA InitType == Init => TypeOK
<1> SUFFICES ASSUME Init PROVE TypeOK
  OBVIOUS
<1>1. heart \in Seq(Heart) /\ load \in Seq(Load)
  BY EmptySeq DEF Init
<1>2. gen \in [Items -> Nat]
  BY DEF Init
<1> QED
  BY <1>1, <1>2 DEF Init, TypeOK

(* Sequences of records that a step updates in place.                      *)
LEMMA HeartsRecords ==
    ASSUME TypeOK
    PROVE  /\ Len(heart) \in Nat /\ Made = 1..Len(heart) /\ heart \in [Made -> Heart]
           /\ Len(load) \in Nat /\ Begun = 1..Len(load) /\ load \in [Begun -> Load]
BY SeqIsFunction DEF TypeOK, Made, Begun

LEMMA HeartsUpdated ==
    ASSUME TypeOK, heart' \in [Made -> Heart]
    PROVE  heart' \in Seq(Heart) /\ Len(heart') = Len(heart) /\ Made' = Made
<1>1. Len(heart) \in Nat /\ Made = 1..Len(heart)
  BY HeartsRecords
<1>2. heart' \in Seq(Heart) /\ Len(heart') = Len(heart)
  BY <1>1, FunctionIsSeq
<1> QED
  BY <1>2 DEF Made

LEMMA LoadUpdated ==
    ASSUME TypeOK, NEW k \in Begun, NEW l \in Load, load' = [load EXCEPT ![k] = l]
    PROVE  /\ load' \in Seq(Load) /\ Begun' = Begun
           /\ \A j \in Begun : load'[j] = IF j = k THEN l ELSE load[j]
<1>1. Len(load) \in Nat /\ Begun = 1..Len(load) /\ load \in [Begun -> Load]
  BY HeartsRecords
<1>2. load' \in [Begun -> Load]
  BY <1>1
<1>3. load' \in Seq(Load) /\ Len(load') = Len(load)
  BY <1>1, <1>2, FunctionIsSeq
<1> QED
  BY <1>1, <1>2, <1>3 DEF Begun

LEMMA HeartsAppended ==
    ASSUME TypeOK, NEW f \in [Made -> Heart], NEW h \in Heart, heart' = Append(f, h)
    PROVE  /\ heart' \in Seq(Heart)
           /\ Made' = Made \cup {Len(heart) + 1} /\ Len(heart) + 1 \notin Made
           /\ \A n \in Made : heart'[n] = f[n]
           /\ heart'[Len(heart) + 1] = h
<1>1. Len(heart) \in Nat /\ Made = 1..Len(heart)
  BY HeartsRecords
<1>2. f \in Seq(Heart) /\ Len(f) = Len(heart)
  BY <1>1, FunctionIsSeq
<1>3. /\ heart' \in Seq(Heart) /\ Len(heart') = Len(heart) + 1
      /\ \A n \in 1..Len(heart) : heart'[n] = f[n]
      /\ heart'[Len(heart) + 1] = h
  BY <1>2, AppendProperties
<1>4. Made' = 1..(Len(heart) + 1)
  BY <1>3, SeqIsFunction DEF Made
<1> QED
  BY <1>1, <1>3, <1>4

(* An append to the loads, as a sign-in makes it.                          *)
LEMMA LoadAppended ==
    ASSUME TypeOK, NEW l \in Load, load' = Append(load, l)
    PROVE  /\ load' \in Seq(Load)
           /\ Begun' = Begun \cup {Len(load) + 1} /\ Len(load) + 1 \notin Begun
           /\ \A k \in Begun : load'[k] = load[k]
           /\ load'[Len(load) + 1] = l
<1>1. Len(load) \in Nat /\ Begun = 1..Len(load) /\ load \in Seq(Load)
  BY HeartsRecords DEF TypeOK
<1>2. /\ load' \in Seq(Load) /\ Len(load') = Len(load) + 1
      /\ \A k \in 1..Len(load) : load'[k] = load[k]
      /\ load'[Len(load) + 1] = l
  BY <1>1, AppendProperties
<1>3. Begun' = 1..(Len(load) + 1)
  BY <1>2, SeqIsFunction DEF Begun
<1> QED
  BY <1>1, <1>2, <1>3

----------------------------------------------------------------------------
(* What each action does to the two sequences.                             *)

LEMMA CrossedOnly ==
    ASSUME NEW h \in Heart, NEW b \in BOOLEAN, NEW r, r = [h EXCEPT !.crossed = b]
    PROVE  /\ r \in Heart
           /\ r.item = h.item /\ r.gen = h.gen /\ r.epoch = h.epoch /\ r.late = h.late
           /\ r.done = h.done /\ r.fate = h.fate /\ r.retired = h.retired
BY DEF Heart

LEMMA RetiredOnly ==
    ASSUME NEW h \in Heart, NEW b \in BOOLEAN, NEW r, r = [h EXCEPT !.retired = b]
    PROVE  /\ r \in Heart
           /\ r.item = h.item /\ r.gen = h.gen /\ r.epoch = h.epoch /\ r.late = h.late
           /\ r.done = h.done /\ r.fate = h.fate
BY DEF Heart

LEMMA SignInSteps ==
    ASSUME TypeOK, NEW a \in Accounts, SignIn(a)
    PROVE  /\ heart' \in [Made -> Heart]
           /\ \A n \in Made : heart'[n].done = heart[n].done /\ heart'[n].fate = heart[n].fate
                              /\ heart'[n].retired = heart[n].retired
           /\ \A n \in Made : Kept(n)
<1>1. heart \in [Made -> Heart]
  BY HeartsRecords
<1>2. heart' = [n \in Made |-> [heart[n] EXCEPT !.crossed = @ \/ InFlight(n)]]
  BY DEF SignIn
<1>3. \A n \in Made : [heart[n] EXCEPT !.crossed = @ \/ InFlight(n)] \in Heart
  <2> TAKE n \in Made
  <2>1. heart[n] \in Heart
    BY <1>1
  <2>2. (heart[n].crossed \/ InFlight(n)) \in BOOLEAN
    OBVIOUS
  <2> QED
    BY <2>1, <2>2 DEF Heart
<1>4. heart' \in [Made -> Heart]
  BY <1>2, <1>3
<1>5. Made' = Made
  BY <1>4, HeartsUpdated
<1>6. \A n \in Made : heart'[n] = [heart[n] EXCEPT !.crossed = @ \/ InFlight(n)]
  BY <1>2
<1> QED
  BY <1>1, <1>4, <1>5, <1>6 DEF Kept, Heart

LEMMA LoadArrivesSteps ==
    ASSUME TypeOK, NEW k \in Begun, LoadArrives(k)
    PROVE  /\ heart' \in [Made -> Heart]
           /\ \A n \in Made : heart'[n].done = heart[n].done /\ heart'[n].fate = heart[n].fate
           /\ \A n \in Made : Kept(n)
           /\ load' = [load EXCEPT ![k] = [load[k] EXCEPT !.pc = "done"]]
           /\ [load[k] EXCEPT !.pc = "done"] \in Load
<1> DEFINE agree == {i \in ClickedSince(load[k]) : i \in saved <=> i \in load[k].ids}
           Marked(n) == [heart[n] EXCEPT
                           !.retired = @ \/ (InFlight(n) /\ heart[n].item \in agree)]
<1>1. heart \in [Made -> Heart] /\ load \in [Begun -> Load]
  BY HeartsRecords
<1>2. heart' = heart \/ heart' = [n \in Made |-> Marked(n)]
  BY DEF LoadArrives
<1>3. \A n \in Made : Marked(n) \in Heart
  <2> TAKE n \in Made
  <2>1. heart[n] \in Heart
    BY <1>1
  <2>2. (heart[n].retired \/ (InFlight(n) /\ heart[n].item \in agree)) \in BOOLEAN
    OBVIOUS
  <2> QED
    BY <2>1, <2>2 DEF Heart
<1>4. heart' \in [Made -> Heart]
  BY <1>1, <1>2, <1>3
<1>5. Made' = Made
  BY <1>4, HeartsUpdated
<1>6. \A n \in Made : heart'[n] = heart[n] \/ heart'[n] = Marked(n)
  BY <1>2
<1>7. \A n \in Made : /\ heart'[n].item = heart[n].item /\ heart'[n].gen = heart[n].gen
                      /\ heart'[n].epoch = heart[n].epoch /\ heart'[n].late = heart[n].late
                      /\ heart'[n].done = heart[n].done /\ heart'[n].fate = heart[n].fate
  <2> TAKE n \in Made
  <2>1. CASE heart'[n] = heart[n]
    BY <2>1
  <2>2. CASE heart'[n] = Marked(n)
    <3>1. heart[n] \in Heart /\ (heart[n].retired \/ (InFlight(n) /\ heart[n].item \in agree)) \in BOOLEAN
      BY <1>1
    <3> HIDE DEF agree
    <3> QED
      BY <2>2, <3>1, RetiredOnly
  <2> QED
    BY <1>6, <2>1, <2>2
<1>8. /\ load' = [load EXCEPT ![k] = [load[k] EXCEPT !.pc = "done"]]
      /\ [load[k] EXCEPT !.pc = "done"] \in Load
  <2>1. load[k] \in Load
    BY <1>1
  <2>2. load' = [load EXCEPT ![k].pc = "done"]
    BY DEF LoadArrives
  <2> QED
    BY <2>1, <2>2 DEF Load
<1> QED
  BY <1>4, <1>5, <1>7, <1>8 DEF Kept

LEMMA ClickSteps ==
    ASSUME TypeOK, NEW i \in Items, Click(i)
    PROVE  /\ heart' \in Seq(Heart)
           /\ Made' = Made \cup {Len(heart) + 1} /\ Len(heart) + 1 \notin Made
           /\ \A n \in Made : Kept(n) /\ heart'[n].done = heart[n].done
                              /\ heart'[n].fate = heart[n].fate
                              /\ heart'[n].retired = heart[n].retired
           /\ LET h == heart'[Len(heart) + 1] IN
              /\ h.item = i /\ h.gen = gen[i] + 1 /\ h.epoch = epoch /\ h.late = leaving
              /\ ~h.retired
<1> DEFINE busy == {n \in OnItem(i) : InFlight(n)}
           f == [n \in Made |-> [heart[n] EXCEPT !.crossed = @ \/ n \in busy]]
           h == [item |-> i, acct |-> cookie, was |-> i \in saved,
                 gen |-> NextGen(i), epoch |-> epoch, fate |-> "none", done |-> FALSE,
                 late |-> leaving, crossed |-> busy # {},
                 retired |-> FALSE, early |-> FALSE]
<1>1. heart \in [Made -> Heart] /\ Made = 1..Len(heart) /\ Len(heart) \in Nat
  BY HeartsRecords
<1>2. heart' = Append(f, h)
  BY DEF Click
<1>3. f \in [Made -> Heart]
  <2>1. ASSUME NEW n \in Made PROVE [heart[n] EXCEPT !.crossed = @ \/ n \in busy] \in Heart
    <3>1. heart[n] \in Heart
      BY <1>1
    <3>2. (heart[n].crossed \/ n \in busy) \in BOOLEAN
      OBVIOUS
    <3> QED
      BY <3>1, <3>2 DEF Heart
  <2> QED
    BY <2>1
<1>4. h \in Heart
  <2>1. gen[i] + 1 \in Nat \ {0}
    BY DEF TypeOK
  <2>2. (i \in saved) \in BOOLEAN /\ (busy # {}) \in BOOLEAN /\ leaving \in BOOLEAN
    BY DEF TypeOK
  <2> QED
    BY <2>1, <2>2 DEF Heart, TypeOK, NextGen
<1>5. /\ heart' \in Seq(Heart)
      /\ Made' = Made \cup {Len(heart) + 1} /\ Len(heart) + 1 \notin Made
      /\ \A n \in Made : heart'[n] = f[n]
      /\ heart'[Len(heart) + 1] = h
  BY <1>2, <1>3, <1>4, HeartsAppended
<1>6. \A n \in Made : heart'[n] = [heart[n] EXCEPT !.crossed = @ \/ n \in busy]
  BY <1>5
<1>7. \A n \in Made : /\ heart'[n].item = heart[n].item /\ heart'[n].gen = heart[n].gen
                      /\ heart'[n].epoch = heart[n].epoch /\ heart'[n].late = heart[n].late
                      /\ heart'[n].done = heart[n].done /\ heart'[n].fate = heart[n].fate
                      /\ heart'[n].retired = heart[n].retired
  <2> TAKE n \in Made
  <2>1. heart[n] \in Heart /\ (heart[n].crossed \/ n \in busy) \in BOOLEAN
    BY <1>1
  <2>2. heart'[n] = [heart[n] EXCEPT !.crossed = @ \/ n \in busy]
    BY <1>6
  <2> HIDE DEF busy
  <2> QED
    BY <2>1, <2>2, CrossedOnly
<1> QED
  BY <1>5, <1>7 DEF Kept, NextGen

LEMMA HeartServedSteps ==
    ASSUME TypeOK, NEW n \in Made, HeartServed(n)
    PROVE  /\ heart' \in [Made -> Heart]
           /\ \A m \in Made : heart'[m].done = heart[m].done
                              /\ heart'[m].retired = heart[m].retired
           /\ \A m \in Made : Kept(m)
<1>1. heart \in [Made -> Heart]
  BY HeartsRecords
<1>2. PICK f \in {"ok", "lost"} : heart' = [heart EXCEPT ![n].fate = f]
  BY DEF HeartServed
<1>3. heart' = [heart EXCEPT ![n] = [heart[n] EXCEPT !.fate = f]]
  BY <1>2
<1>4. ~heart[n].done
  BY DEF HeartServed, InFlight
<1>5. [heart[n] EXCEPT !.fate = f] \in Heart
  BY <1>1 DEF Heart
<1>6. heart' \in [Made -> Heart]
  BY <1>1, <1>3, <1>5
<1>7. Made' = Made
  BY <1>6, HeartsUpdated
<1>8. \A m \in Made : heart'[m] = IF m = n THEN [heart[n] EXCEPT !.fate = f] ELSE heart[m]
  BY <1>1, <1>3
<1>9. LET r == [heart[n] EXCEPT !.fate = f] IN
      /\ r.item = heart[n].item /\ r.gen = heart[n].gen /\ r.epoch = heart[n].epoch
      /\ r.late = heart[n].late /\ r.done = heart[n].done /\ r.retired = heart[n].retired
  BY <1>1 DEF Heart
<1> QED
  BY <1>4, <1>6, <1>7, <1>8, <1>9 DEF Kept

LEMMA HeartAnsweredSteps ==
    ASSUME TypeOK, NEW n \in Made, HeartAnswered(n)
    PROVE  /\ heart' \in [Made -> Heart]
           /\ \A m \in Made \ {n} : heart'[m] = heart[m]
           /\ ~heart[n].done /\ heart'[n].done
           /\ heart'[n].fate = IF heart[n].fate = "none" THEN "refused" ELSE heart[n].fate
           /\ \A m \in Made : Kept(m)
<1> DEFINE fate == IF heart[n].fate = "none" THEN "refused" ELSE heart[n].fate
           early == LoadUnderWay(heart[n].epoch)
           r == [heart[n] EXCEPT !.fate = fate, !.done = TRUE, !.early = early]
<1>1. heart \in [Made -> Heart] /\ heart[n] \in Heart
  BY HeartsRecords
<1>2. heart' = [heart EXCEPT ![n] = r]
  BY DEF HeartAnswered
<1>3. ~heart[n].done
  BY DEF HeartAnswered, InFlight
<1>4. fate \in {"none", "ok", "refused", "lost"} /\ early \in BOOLEAN
  BY <1>1 DEF Heart, LoadUnderWay
<1>5. /\ r \in Heart
      /\ r.item = heart[n].item /\ r.gen = heart[n].gen /\ r.epoch = heart[n].epoch
      /\ r.late = heart[n].late /\ r.done /\ r.fate = fate
  <2> HIDE DEF fate, early
  <2> QED
    BY <1>1, <1>4 DEF Heart
<1> HIDE DEF r
<1>6. heart' \in [Made -> Heart]
  BY <1>1, <1>2, <1>5
<1>7. Made' = Made
  BY <1>6, HeartsUpdated
<1>8. \A m \in Made : heart'[m] = IF m = n THEN r ELSE heart[m]
  BY <1>1, <1>2
<1> QED
  BY <1>3, <1>5, <1>6, <1>7, <1>8 DEF Kept

LEMMA LoadServedSteps ==
    ASSUME TypeOK, NEW k \in Begun, LoadServed(k) \/ LoadRejected(k)
    PROVE  /\ load' \in Seq(Load) /\ Begun' = Begun
           /\ \A j \in Begun : load'[j].epoch = load[j].epoch
<1>1. load[k] \in Load
  BY HeartsRecords
<1>2. CASE LoadServed(k)
  <2> DEFINE l == [load[k] EXCEPT !.pc = "read", !.ids = server[load[k].acct], !.ok = TRUE]
  <2>1. load' = [load EXCEPT ![k] = l]
    BY <1>2 DEF LoadServed
  <2>2. server[load[k].acct] \in SUBSET Items
    BY <1>1 DEF TypeOK, Load
  <2>3. l \in Load /\ l.epoch = load[k].epoch
    BY <1>1, <2>2 DEF Load
  <2> HIDE DEF l
  <2>4. /\ load' \in Seq(Load) /\ Begun' = Begun
        /\ \A j \in Begun : load'[j] = IF j = k THEN l ELSE load[j]
    BY <2>1, <2>3, LoadUpdated
  <2> QED
    BY <2>3, <2>4
<1>3. CASE LoadRejected(k)
  <2> DEFINE l == [load[k] EXCEPT !.pc = "done", !.ok = FALSE]
  <2>1. load' = [load EXCEPT ![k] = l]
    BY <1>3 DEF LoadRejected
  <2>2. l \in Load /\ l.epoch = load[k].epoch
    BY <1>1 DEF Load
  <2> HIDE DEF l
  <2>3. /\ load' \in Seq(Load) /\ Begun' = Begun
        /\ \A j \in Begun : load'[j] = IF j = k THEN l ELSE load[j]
    BY <2>1, <2>2, LoadUpdated
  <2> QED
    BY <2>2, <2>3
<1> QED
  BY <1>2, <1>3

----------------------------------------------------------------------------
(* Types.                                                                  *)

LEMMA NextType == TypeOK /\ [Next]_vars => TypeOK'
<1> SUFFICES ASSUME TypeOK, [Next]_vars PROVE TypeOK'
  OBVIOUS
<1> USE DEF page
<1>1. ASSUME NEW a \in Accounts, SignIn(a) PROVE TypeOK'
  <2>1. heart' \in Seq(Heart)
    BY <1>1, SignInSteps, HeartsUpdated
  <2>2. load' \in Seq(Load)
    <3>1. [acct |-> a, epoch |-> epoch + 1, start |-> gen,
           ids |-> {}, pc |-> "sent", ok |-> FALSE] \in Load
      BY DEF TypeOK, Load
    <3> QED
      BY <1>1, <3>1, LoadAppended DEF SignIn
  <2> QED
    BY <1>1, <2>1, <2>2 DEF SignIn, TypeOK
<1>2. CASE Logout
  BY <1>2 DEF Logout, TypeOK
<1>3. CASE LogoutServed
  BY <1>3 DEF LogoutServed, TypeOK
<1>4. CASE LogoutReply
  BY <1>4 DEF LogoutReply, TypeOK
<1>5. CASE DeleteAccount
  BY <1>5 DEF DeleteAccount, TypeOK
<1>6. ASSUME NEW k \in Begun, LoadServed(k) \/ LoadRejected(k) PROVE TypeOK'
  BY <1>6, LoadServedSteps DEF LoadServed, LoadRejected, TypeOK
<1>7. ASSUME NEW k \in Begun, LoadArrives(k) PROVE TypeOK'
  <2>1. heart' \in Seq(Heart) /\ load' \in Seq(Load)
    BY <1>7, LoadArrivesSteps, HeartsUpdated, LoadUpdated
  <2>2. load[k].ids \subseteq Items
    BY HeartsRecords DEF Load
  <2>3. saved' \subseteq Items
    BY <1>7, <2>2 DEF LoadArrives, TypeOK, ClickedSince
  <2>4. gen' \in [Items -> Nat]
    BY <1>7 DEF LoadArrives, TypeOK
  <2> QED
    BY <1>7, <2>1, <2>3, <2>4 DEF LoadArrives, TypeOK
<1>8. ASSUME NEW i \in Items, Click(i) PROVE TypeOK'
  <2>1. gen' \in [Items -> Nat]
    BY <1>8 DEF Click, NextGen, TypeOK
  <2> QED
    BY <1>8, <2>1, ClickSteps DEF Click, TypeOK
<1>9. ASSUME NEW n \in Made, HeartServed(n) PROVE TypeOK'
  <2>1. heart' \in Seq(Heart)
    BY <1>9, HeartServedSteps, HeartsUpdated
  <2>2. heart[n].item \in Items
    BY HeartsRecords DEF Heart
  <2>3. /\ server' \in [Accounts -> SUBSET Items]
        /\ \A a \in Accounts \ live : server'[a] = {}
    BY <1>9, <2>2 DEF HeartServed, Authorised, TypeOK
  <2> QED
    BY <1>9, <2>1, <2>3 DEF HeartServed, TypeOK
<1>10. ASSUME NEW n \in Made, HeartAnswered(n) PROVE TypeOK'
  <2>1. heart' \in Seq(Heart)
    BY <1>10, HeartAnsweredSteps, HeartsUpdated
  <2>2. heart[n].item \in Items
    BY HeartsRecords DEF Heart
  <2>3. saved' \subseteq Items /\ gen' \in [Items -> Nat]
    BY <1>10, <2>2 DEF HeartAnswered, TypeOK
  <2> QED
    BY <1>10, <2>1, <2>3 DEF HeartAnswered, TypeOK
<1>11. CASE UNCHANGED vars
  BY <1>11 DEF vars, TypeOK
<1> QED
  BY <1>1, <1>2, <1>3, <1>4, <1>5, <1>6, <1>7, <1>8, <1>9, <1>10, <1>11 DEF Next

(* For any number of accounts, cards, clicks and sign-ins every variable   *)
(* keeps its type, and saved items belong to accounts that exist.          *)
THEOREM HeartsTyped == Spec => []TypeOK
BY InitType, NextType, PTL DEF Spec

----------------------------------------------------------------------------
(* The guards.                                                             *)

LEMMA EverKept ==
    ASSUME TypeOK, [Next]_vars, NEW n \in Made
    PROVE  Kept(n)
<1> USE DEF page
<1>1. ASSUME NEW a \in Accounts, SignIn(a) PROVE Kept(n)
  BY <1>1, SignInSteps
<1>2. ASSUME NEW k \in Begun, LoadArrives(k) PROVE Kept(n)
  BY <1>2, LoadArrivesSteps
<1>3. ASSUME NEW i \in Items, Click(i) PROVE Kept(n)
  BY <1>3, ClickSteps
<1>4. ASSUME NEW m \in Made, HeartServed(m) \/ HeartAnswered(m) PROVE Kept(n)
  BY <1>4, HeartServedSteps, HeartAnsweredSteps
<1>5. CASE UNCHANGED heart
  BY <1>5 DEF Kept, Made
<1> QED
  BY <1>1, <1>2, <1>3, <1>4, <1>5
     DEF Next, vars, Logout, LogoutServed, LogoutReply, DeleteAccount, LoadServed, LoadRejected

LEMMA EpochStep == TypeOK /\ EpochInv /\ [Next]_vars => EpochInv'
<1> SUFFICES ASSUME TypeOK, EpochInv, [Next]_vars PROVE EpochInv'
  OBVIOUS
<1> USE DEF page
<1>0. /\ epoch \in Nat
      /\ \A k \in Begun : load[k] \in Load /\ load[k].epoch \in Nat
      /\ \A n \in Made : heart[n].epoch \in Nat /\ heart[n].late \in BOOLEAN
  BY HeartsRecords DEF TypeOK, Load, Heart
<1>1. ASSUME NEW a \in Accounts, SignIn(a) PROVE EpochInv'
  <2> DEFINE l == [acct |-> a, epoch |-> epoch + 1, start |-> gen,
                   ids |-> {}, pc |-> "sent", ok |-> FALSE]
  <2>1. l \in Load /\ l.epoch = epoch + 1
    BY DEF TypeOK, Load
  <2>2. load' = Append(load, l)
    BY <1>1 DEF SignIn
  <2> HIDE DEF l
  <2>3. /\ Begun' = Begun \cup {Len(load) + 1}
        /\ \A k \in Begun : load'[k] = load[k]
        /\ load'[Len(load) + 1] = l
    BY <2>1, <2>2, LoadAppended
  <2>4. /\ Made' = Made
        /\ \A n \in Made : heart'[n].epoch = heart[n].epoch /\ heart'[n].late = heart[n].late
    BY <1>1, SignInSteps, HeartsUpdated DEF Kept
  <2>5. user' = a /\ a # None /\ epoch' = epoch + 1 /\ leaving' = leaving /\ ~leaving
    BY <1>1, NoneAssumption DEF SignIn, EpochInv
  <2>6. \A k \in Begun' : load'[k].epoch <= epoch'
    BY <1>0, <2>1, <2>3, <2>5 DEF EpochInv
  <2>7. \A n \in Made' : heart'[n].epoch <= epoch'
    BY <1>0, <2>4, <2>5 DEF EpochInv
  <2> QED
    BY <2>5, <2>6, <2>7 DEF EpochInv
<1>2. CASE Logout \/ DeleteAccount
  <2>1. /\ epoch' = epoch + 1 /\ Made' = Made /\ Begun' = Begun
        /\ heart' = heart /\ load' = load /\ (leaving' => user' # None)
    BY <1>2 DEF Logout, DeleteAccount, Made, Begun
  <2> QED
    BY <1>0, <2>1 DEF EpochInv
<1>3. CASE LogoutReply
  <2>1. /\ leaving /\ ~leaving' /\ epoch' = epoch
        /\ heart' = heart /\ load' = load /\ Made' = Made /\ Begun' = Begun
    BY <1>3 DEF LogoutReply, Made, Begun
  <2> QED
    BY <2>1 DEF EpochInv
<1>4. ASSUME NEW k \in Begun, LoadServed(k) \/ LoadRejected(k) PROVE EpochInv'
  <2>1. UNCHANGED <<user, leaving, epoch, heart>> /\ Made' = Made
    BY <1>4 DEF LoadServed, LoadRejected, Made
  <2>2. Begun' = Begun /\ \A j \in Begun : load'[j].epoch = load[j].epoch
    BY <1>4, LoadServedSteps
  <2> QED
    BY <2>1, <2>2 DEF EpochInv
<1>5. ASSUME NEW k \in Begun, LoadArrives(k) PROVE EpochInv'
  <2>1. UNCHANGED <<user, leaving, epoch>>
    BY <1>5 DEF LoadArrives
  <2>2. /\ Begun' = Begun
        /\ \A j \in Begun : load'[j] = IF j = k THEN [load[k] EXCEPT !.pc = "done"] ELSE load[j]
    BY <1>5, LoadArrivesSteps, LoadUpdated
  <2>3. \A j \in Begun : load'[j].epoch = load[j].epoch
    BY <1>0, <2>2 DEF Load
  <2>4. /\ Made' = Made
        /\ \A n \in Made : heart'[n].epoch = heart[n].epoch /\ heart'[n].late = heart[n].late
    BY <1>5, LoadArrivesSteps, HeartsUpdated DEF Kept
  <2> QED
    BY <2>1, <2>2, <2>3, <2>4 DEF EpochInv
<1>6. ASSUME NEW i \in Items, Click(i) PROVE EpochInv'
  <2>1. UNCHANGED <<user, leaving, epoch, load>> /\ Begun' = Begun /\ user # None
    BY <1>6 DEF Click, Begun
  <2>2. /\ Made' = Made \cup {Len(heart) + 1}
        /\ \A n \in Made : heart'[n].epoch = heart[n].epoch /\ heart'[n].late = heart[n].late
        /\ heart'[Len(heart) + 1].epoch = epoch /\ heart'[Len(heart) + 1].late = leaving
    BY <1>6, ClickSteps DEF Kept
  <2>3. leaving \in BOOLEAN
    BY DEF TypeOK
  <2>4. ASSUME NEW n \in Made'
        PROVE  /\ heart'[n].epoch <= epoch'
               /\ heart'[n].epoch = epoch' => heart'[n].late \/ (user' # None /\ ~leaving')
    <3>1. CASE n \in Made
      BY <2>1, <2>2, <3>1 DEF EpochInv
    <3>2. CASE n = Len(heart) + 1
      BY <1>0, <2>1, <2>2, <2>3, <3>2
    <3> QED
      BY <2>2, <3>1, <3>2
  <2> QED
    BY <2>1, <2>4 DEF EpochInv
<1>7. ASSUME NEW n \in Made, HeartServed(n) \/ HeartAnswered(n) PROVE EpochInv'
  <2>1. UNCHANGED <<user, leaving, epoch, load>> /\ Begun' = Begun
    BY <1>7 DEF HeartServed, HeartAnswered, Begun
  <2>2. heart' \in [Made -> Heart] /\ \A m \in Made : Kept(m)
    BY <1>7, HeartServedSteps, HeartAnsweredSteps
  <2>3. Made' = Made
    BY <2>2, HeartsUpdated
  <2> QED
    BY <2>1, <2>2, <2>3 DEF EpochInv, Kept
<1>8. CASE LogoutServed \/ UNCHANGED vars
  BY <1>8 DEF LogoutServed, vars, EpochInv, Made, Begun
<1> QED
  BY <1>1, <1>2, <1>3, <1>4, <1>5, <1>6, <1>7, <1>8 DEF Next

(* Failures and restarts of a card stay on record.                         *)
LEMMA RecordStays ==
    ASSUME TypeOK, [Next]_vars, NEW n \in Made
    PROVE  /\ OtherFailed(n) => OtherFailed(n)'
           /\ Restarted(n) => Restarted(n)'
<1>1. Kept(n) /\ \A m \in Made : Kept(m)
  BY EverKept
<1>2. ASSUME OtherFailed(n) PROVE OtherFailed(n)'
  <2>1. PICK o \in Made : /\ heart[o].item = heart[n].item /\ o # n
                          /\ heart[o].done /\ heart[o].fate # "ok"
    BY <1>2 DEF OtherFailed, OnItem
  <2> QED
    BY <1>1, <2>1 DEF OtherFailed, OnItem, Kept
<1>3. ASSUME Restarted(n) PROVE Restarted(n)'
  <2>1. PICK m \in Made : /\ heart[m].item = heart[n].item /\ m > n
                          /\ heart[m].gen <= heart[n].gen
    BY <1>3 DEF Restarted, NewerClicks, OnItem
  <2>2. m \in NewerClicks(n)' /\ (heart[m].gen <= heart[n].gen)'
    BY <1>1, <2>1 DEF NewerClicks, OnItem, Kept
  <2> QED
    BY <1>2, <1>3, <2>2 DEF Restarted
<1> QED
  BY <1>2, <1>3

(* A step that neither clicks, answers nor moves a generation.             *)
LEMMA GenUndisturbed ==
    ASSUME TypeOK, GenInv, [Next]_vars, Made' = Made, gen' = gen,
           \A n \in Made : heart'[n].done = heart[n].done /\ heart'[n].retired = heart[n].retired
    PROVE  GenInv'
<1> SUFFICES ASSUME NEW n \in Made, ~heart[n].done
             PROVE  LET g == gen[heart[n].item] IN
                    \/ g = 0 /\ OtherFailed(n)'
                    \/ Restarted(n)'
                    \/ g > heart[n].gen
                    \/ g = heart[n].gen /\ NewerClicks(n)' = {} /\ ~heart[n].retired
  BY EverKept DEF GenInv, InFlight, Kept
<1>1. \A m \in Made : heart'[m].item = heart[m].item
  BY EverKept DEF Kept
<1>2. NewerClicks(n)' = NewerClicks(n)
  BY <1>1 DEF NewerClicks, OnItem
<1> QED
  BY <1>2, RecordStays DEF GenInv, InFlight

LEMMA GenStep == TypeOK /\ GenInv /\ [Next]_vars => GenInv'
<1> SUFFICES ASSUME TypeOK, GenInv, [Next]_vars PROVE GenInv'
  OBVIOUS
<1> USE DEF page
<1>0. /\ gen \in [Items -> Nat]
      /\ \A n \in Made : heart[n].item \in Items /\ heart[n].gen \in Nat \ {0}
  BY HeartsRecords DEF TypeOK, Heart
<1>1. ASSUME NEW a \in Accounts, SignIn(a) PROVE GenInv'
  BY <1>1, SignInSteps, HeartsUpdated, GenUndisturbed DEF SignIn
<1>2. CASE UNCHANGED <<heart, gen>>
  BY <1>2, GenUndisturbed DEF Made
<1>3. ASSUME NEW n \in Made, HeartServed(n) PROVE GenInv'
  BY <1>3, HeartServedSteps, HeartsUpdated, GenUndisturbed DEF HeartServed
<1>4. ASSUME NEW k \in Begun, LoadArrives(k) PROVE GenInv'
  <2> DEFINE agree == {i \in ClickedSince(load[k]) : i \in saved <=> i \in load[k].ids}
  <2>1. CASE load[k].epoch # epoch
    BY <1>4, <2>1, <1>2 DEF LoadArrives
  <2>2. CASE load[k].epoch = epoch
    <3>1. /\ gen' = [i \in Items |-> IF i \in agree THEN gen[i] + 1 ELSE gen[i]]
          /\ heart' = [n \in Made |-> [heart[n] EXCEPT
               !.retired = @ \/ (InFlight(n) /\ heart[n].item \in agree)]]
      BY <1>4, <2>2 DEF LoadArrives
    <3>2. \A i \in agree : gen[i] # 0
      BY DEF ClickedSince
    <3>3. Made' = Made /\ \A n \in Made : heart'[n].done = heart[n].done
      BY <1>4, LoadArrivesSteps, HeartsUpdated
    <3>4. \A n \in Made : heart[n].item \notin agree => heart'[n].retired = heart[n].retired
      <4> TAKE n \in Made
      <4> HAVE heart[n].item \notin agree
      <4>1. heart[n] \in Heart /\ heart[n].retired \in BOOLEAN
        BY HeartsRecords DEF Heart
      <4>2. (heart[n].retired \/ (InFlight(n) /\ heart[n].item \in agree)) = heart[n].retired
        BY <4>1
      <4> HIDE DEF agree
      <4>3. heart'[n] = [heart[n] EXCEPT !.retired = heart[n].retired]
        BY <3>1, <4>2
      <4> QED
        BY <4>1, <4>3 DEF Heart
    <3> HIDE DEF agree
    <3>5. ASSUME NEW n \in Made, ~heart[n].done
          PROVE  LET g == gen'[heart[n].item] IN
                 \/ g = 0 /\ OtherFailed(n)'
                 \/ Restarted(n)'
                 \/ g > heart[n].gen
                 \/ g = heart[n].gen /\ NewerClicks(n)' = {} /\ ~heart'[n].retired
      <4>1. \A m \in Made : heart'[m].item = heart[m].item
        BY EverKept DEF Kept
      <4>2. NewerClicks(n)' = NewerClicks(n)
        BY <3>3, <4>1 DEF NewerClicks, OnItem
      <4>3. LET g == gen[heart[n].item] IN
            \/ g = 0 /\ OtherFailed(n)
            \/ Restarted(n)
            \/ g > heart[n].gen
            \/ g = heart[n].gen /\ NewerClicks(n) = {} /\ ~heart[n].retired
        BY <3>5 DEF GenInv, InFlight
      <4>4. CASE heart[n].item \in agree
        <5>1. gen'[heart[n].item] = gen[heart[n].item] + 1 /\ gen[heart[n].item] # 0
          BY <1>0, <3>1, <3>2, <4>4
        <5> QED
          BY <1>0, <4>3, <5>1, RecordStays
      <4>5. CASE heart[n].item \notin agree
        <5>1. gen'[heart[n].item] = gen[heart[n].item] /\ heart'[n].retired = heart[n].retired
          BY <1>0, <3>1, <3>4, <4>5
        <5> QED
          BY <4>2, <4>3, <5>1, RecordStays
      <4> QED
        BY <4>4, <4>5
    <3> QED
      BY <3>3, <3>5, EverKept DEF GenInv, InFlight, Kept
  <2> QED
    BY <2>1, <2>2
<1>5. ASSUME NEW i \in Items, Click(i) PROVE GenInv'
  <2>0. PICK c : c = Len(heart) + 1
    OBVIOUS
  <2>1. gen' = [gen EXCEPT ![i] = gen[i] + 1]
    BY <1>5 DEF Click, NextGen
  <2>2. /\ Made' = Made \cup {c} /\ c \notin Made
        /\ \A n \in Made : Kept(n) /\ heart'[n].done = heart[n].done
                           /\ heart'[n].retired = heart[n].retired
        /\ heart'[c].item = i /\ heart'[c].gen = gen[i] + 1 /\ ~heart'[c].retired
    BY <1>5, <2>0, ClickSteps
  <2>3. c \in Nat /\ \A n \in Made : n \in Nat /\ n < c
    BY <2>0, HeartsRecords
  <2>4. ASSUME NEW n \in Made, ~heart[n].done
        PROVE  LET g == gen'[heart[n].item] IN
               \/ Restarted(n)'
               \/ g > heart[n].gen
               \/ g = 0 /\ OtherFailed(n)'
               \/ g = heart[n].gen /\ NewerClicks(n)' = {} /\ ~heart[n].retired
    <3>1. LET g == gen[heart[n].item] IN
          \/ g = 0 /\ OtherFailed(n)
          \/ Restarted(n)
          \/ g > heart[n].gen
          \/ g = heart[n].gen /\ NewerClicks(n) = {} /\ ~heart[n].retired
      BY <2>4 DEF GenInv, InFlight
    <3>2. CASE heart[n].item = i
      <4>1. gen'[heart[n].item] = gen[heart[n].item] + 1
        BY <1>0, <2>1, <3>2
      <4>2. c \in NewerClicks(n)'
        BY <2>2, <2>3, <3>2 DEF NewerClicks, OnItem, Kept
      <4>3. ASSUME gen[heart[n].item] = 0, OtherFailed(n) PROVE Restarted(n)'
        <5>1. heart'[c].gen <= heart'[n].gen
          BY <1>0, <2>2, <3>2, <4>3 DEF Kept
        <5> QED
          BY <4>2, <4>3, <5>1, RecordStays DEF Restarted
      <4> QED
        BY <1>0, <3>1, <4>1, <4>3, RecordStays
    <3>3. CASE heart[n].item # i
      <4>1. gen'[heart[n].item] = gen[heart[n].item]
        BY <1>0, <2>1, <3>3
      <4>2. NewerClicks(n)' = NewerClicks(n)
        BY <2>2, <3>3 DEF NewerClicks, OnItem, Kept
      <4> QED
        BY <3>1, <4>1, <4>2, RecordStays
    <3> QED
      BY <3>2, <3>3
  <2>5. gen'[i] = heart'[c].gen
    BY <1>0, <2>1, <2>2
  <2>6. \A m \in Made' : ~(m > c)
    BY <2>2, <2>3
  <2>7. NewerClicks(c)' = {}
    BY <2>6 DEF NewerClicks, OnItem
  <2>8. ASSUME NEW n \in Made', InFlight(n)'
        PROVE  (LET g == gen[heart[n].item] IN
                \/ g = 0 /\ OtherFailed(n)
                \/ Restarted(n)
                \/ g > heart[n].gen
                \/ g = heart[n].gen /\ NewerClicks(n) = {} /\ ~heart[n].retired)'
    <3>1. CASE n \in Made
      BY <2>2, <2>4, <2>8, <3>1 DEF InFlight, Kept
    <3>2. CASE n = c
      BY <2>2, <2>5, <2>7, <3>2
    <3> QED
      BY <2>2, <3>1, <3>2
  <2> QED
    BY <2>8 DEF GenInv
<1>6. ASSUME NEW n \in Made, HeartAnswered(n) PROVE GenInv'
  <2>1. /\ heart' \in [Made -> Heart] /\ \A m \in Made \ {n} : heart'[m] = heart[m]
        /\ ~heart[n].done /\ heart'[n].done
        /\ heart'[n].fate = IF heart[n].fate = "none" THEN "refused" ELSE heart[n].fate
    BY <1>6, HeartAnsweredSteps
  <2>2. Made' = Made
    BY <2>1, HeartsUpdated
  <2>3. \A m \in Made : heart'[m].item = heart[m].item
    BY EverKept DEF Kept
  <2>4. gen' = gen \/ (gen' = [gen EXCEPT ![heart[n].item] = 0] /\ heart'[n].fate # "ok")
    BY <1>6, <2>1 DEF HeartAnswered
  <2>5. ASSUME NEW m \in Made \ {n}, ~heart[m].done
        PROVE  LET g == gen'[heart[m].item] IN
               \/ g = 0 /\ OtherFailed(m)'
               \/ Restarted(m)'
               \/ g > heart[m].gen
               \/ g = heart[m].gen /\ NewerClicks(m)' = {} /\ ~heart[m].retired
    <3>1. LET g == gen[heart[m].item] IN
          \/ g = 0 /\ OtherFailed(m)
          \/ Restarted(m)
          \/ g > heart[m].gen
          \/ g = heart[m].gen /\ NewerClicks(m) = {} /\ ~heart[m].retired
      BY <2>5 DEF GenInv, InFlight
    <3>2. NewerClicks(m)' = NewerClicks(m)
      BY <2>2, <2>3 DEF NewerClicks, OnItem
    <3>3. CASE gen'[heart[m].item] = gen[heart[m].item]
      BY <3>1, <3>2, <3>3, RecordStays
    <3>4. CASE gen' = [gen EXCEPT ![heart[n].item] = 0] /\ heart'[n].fate # "ok"
               /\ heart[m].item = heart[n].item
      <4>1. OtherFailed(m)'
        BY <2>1, <2>2, <2>3, <3>4 DEF OtherFailed, OnItem
      <4> QED
        BY <1>0, <3>4, <4>1
    <3> QED
      BY <1>0, <2>4, <3>3, <3>4
  <2> QED
    BY <2>1, <2>2, <2>5 DEF GenInv, InFlight
<1> QED
  BY <1>1, <1>2, <1>3, <1>4, <1>5, <1>6
     DEF Next, vars, Logout, LogoutServed, LogoutReply, DeleteAccount, LoadServed, LoadRejected

----------------------------------------------------------------------------
(* Theorems.                                                               *)

LEMMA InitIInv == Init => IInv /\ SignedOutEmpty
<1> SUFFICES ASSUME Init PROVE IInv /\ SignedOutEmpty
  OBVIOUS
<1>1. Made = {} /\ Begun = {}
  BY DEF Init, Made, Begun
<1> QED
  BY <1>1 DEF Init, IInv, EpochInv, GenInv, SignedOutEmpty

(* The session guard and the generation guard mean what the code takes     *)
(* them to mean, whatever overlaps.                                        *)
THEOREM GuardsHold == Spec => []IInv
<1>1. Init => TypeOK /\ IInv
  BY InitType, InitIInv
<1>2. TypeOK /\ IInv /\ [Next]_vars => TypeOK' /\ IInv'
  BY NextType, EpochStep, GenStep DEF IInv
<1> QED
  BY <1>1, <1>2, PTL DEF Spec

LEMMA SignedOutStep == TypeOK /\ EpochInv /\ SignedOutEmpty /\ [Next]_vars => SignedOutEmpty'
<1> SUFFICES ASSUME TypeOK, EpochInv, SignedOutEmpty, [Next]_vars,
                    user' = None, \A n \in Made' : ~heart'[n].late
             PROVE  saved' = {}
  BY DEF SignedOutEmpty
<1> USE DEF page
<1>1. \A n \in Made : ~heart[n].late
  BY EverKept DEF Kept
<1>2. ASSUME NEW a \in Accounts, SignIn(a) PROVE FALSE
  BY <1>2, NoneAssumption DEF SignIn
<1>3. CASE LogoutReply \/ DeleteAccount
  BY <1>3 DEF LogoutReply, DeleteAccount
<1>4. ASSUME NEW k \in Begun, LoadArrives(k) PROVE saved' = {}
  <2>1. user = None
    BY <1>4 DEF LoadArrives
  <2>2. load[k].epoch # epoch
    BY <2>1 DEF EpochInv
  <2> QED
    BY <1>1, <1>4, <2>1, <2>2 DEF LoadArrives, SignedOutEmpty
<1>5. ASSUME NEW i \in Items, Click(i) PROVE FALSE
  BY <1>5 DEF Click
<1>6. ASSUME NEW n \in Made, HeartAnswered(n) PROVE saved' = {}
  <2>1. user = None
    BY <1>6 DEF HeartAnswered
  <2>2. ~Current(heart[n])
    BY <1>1, <2>1 DEF EpochInv, Current
  <2> QED
    BY <1>1, <1>6, <2>1, <2>2 DEF HeartAnswered, SignedOutEmpty
<1>7. CASE UNCHANGED <<user, saved>>
  BY <1>1, <1>7 DEF SignedOutEmpty
<1> QED
  BY <1>2, <1>3, <1>4, <1>5, <1>6, <1>7
     DEF Next, vars, Logout, LogoutServed, LoadServed, LoadRejected, HeartServed

(* A page without a user shows no hearts, unless a click fell between the  *)
(* click on logout and its answer.                                         *)
THEOREM SignedOutShowsNothing == Spec => []SignedOutEmpty
<1>1. Init => TypeOK /\ EpochInv /\ SignedOutEmpty
  BY InitType, InitIInv DEF IInv
<1>2. TypeOK /\ EpochInv /\ SignedOutEmpty /\ [Next]_vars => (TypeOK /\ EpochInv /\ SignedOutEmpty)'
  BY NextType, EpochStep, SignedOutStep
<1> QED
  BY <1>1, <1>2, PTL DEF Spec

LEMMA AnswerStep ==
    ASSUME TypeOK, GenInv, [Next]_vars, NEW n \in Made, AnswerChangesHearts(n)
    PROVE  (NewerClicks(n) = {} /\ ~heart[n].retired) \/ Restarted(n)
<1> USE DEF page
<1>1. ~heart[n].done /\ ~(~heart'[n].done) /\ saved' # saved
  BY DEF AnswerChangesHearts, InFlight
<1>2. HeartAnswered(n)
  <2>1. ASSUME NEW a \in Accounts, SignIn(a) PROVE FALSE
    BY <1>1, <2>1 DEF SignIn
  <2>2. ASSUME NEW k \in Begun, LoadArrives(k) PROVE FALSE
    BY <1>1, <2>2, LoadArrivesSteps
  <2>3. ASSUME NEW i \in Items, Click(i) PROVE FALSE
    BY <1>1, <2>3, ClickSteps
  <2>4. ASSUME NEW m \in Made, HeartServed(m) PROVE FALSE
    BY <1>1, <2>4 DEF HeartServed
  <2>5. ASSUME NEW m \in Made, HeartAnswered(m), m # n PROVE FALSE
    BY <1>1, <2>5, HeartAnsweredSteps
  <2>6. ~UNCHANGED heart
    BY <1>1
  <2> QED
    BY <2>1, <2>2, <2>3, <2>4, <2>5, <2>6
       DEF Next, vars, Logout, LogoutServed, LogoutReply, DeleteAccount, LoadServed, LoadRejected
<1>3. gen[heart[n].item] = heart[n].gen
  BY <1>1, <1>2 DEF HeartAnswered, Current
<1>4. heart[n].gen \in Nat \ {0}
  BY HeartsRecords DEF Heart
<1> QED
  BY <1>1, <1>3, <1>4 DEF GenInv, InFlight

(* An answer never undoes a newer click, nor a heart a load has settled,   *)
(* unless the failure of another click started the card's count again.     *)
THEOREM AnswersYield == Spec => AnswersYieldUnlessRestarted
<1>1. TypeOK /\ IInv /\ [Next]_vars =>
        [\A n \in Made : AnswerChangesHearts(n) =>
            \/ NewerClicks(n) = {} /\ ~heart[n].retired
            \/ Restarted(n)]_vars
  BY AnswerStep DEF IInv
<1> QED
  BY <1>1, HeartsTyped, GuardsHold, PTL DEF Spec, AnswersYieldUnlessRestarted

----------------------------------------------------------------------------
(* Agreement of the page with the server, card by card.  A card is calm as *)
(* long as nothing that Agreement excludes happened to a request on it.    *)
(* What a calm card has in a session: at most one request under way, which *)
(* is the session's; and once the load arrived or a request succeeded      *)
(* (Sure) the heart shows what the server holds, but for that request.     *)
(* Until the load is done, a card with requests of the session that were   *)
(* not refused is past the generation the load began with, so that the     *)
(* load leaves it alone; any other card is as the load found it.           *)
Calm(i) ==
    \A n \in OnItem(i) :
        /\ ~heart[n].crossed /\ ~heart[n].late /\ ~heart[n].retired
        /\ heart[n].fate # "lost"
        /\ heart[n].done => ~Unguards(n)

Session(i) == {n \in OnItem(i) : heart[n].epoch = epoch}
Last == load[Len(load)]
Sure(i) == Loaded \/ \E n \in Session(i) : heart[n].done /\ heart[n].fate = "ok"

UnderWay(i, n) ==
    /\ n \in Session(i)
    /\ heart[n].acct = user /\ heart[n].gen = gen[i] /\ heart[n].fate \in {"none", "ok"}
    /\ \A m \in OnItem(i) : InFlight(m) => m = n
    /\ i \in saved <=> ~heart[n].was
    /\ heart[n].fate = "ok" => (i \in server[user] <=> ~heart[n].was)
    /\ heart[n].fate = "none" /\ Sure(i) => (i \in server[user] <=> heart[n].was)

OneUnderWay(i) == \A n \in OnItem(i) : InFlight(n) => UnderWay(i, n)

Quiet(i) == \A n \in OnItem(i) : ~InFlight(n)
Settled(i) == Sure(i) /\ Quiet(i) => (i \in saved <=> i \in server[user])

BeforeLoad(i) ==
    /\ \A n \in Session(i) : heart[n].done => heart[n].early
    /\ Session(i) = {} => gen[i] = Last.start[i]
    /\ \A n \in Session(i) : heart[n].fate = "refused" => gen[i] = 0
    /\ \A n \in Session(i) : heart[n].fate # "refused" => gen[i] > Last.start[i]
    /\ Last.pc = "read" /\ (\A n \in Session(i) : heart[n].fate # "ok") =>
           (i \in Last.ids <=> i \in server[user])

CardInv(i) == OneUnderWay(i) /\ Settled(i) /\ (Last.pc # "done" => BeforeLoad(i))

InSession == user # None /\ ~leaving
SessionInv ==
    InSession => cookie = user /\ Begun # {} /\ Last.epoch = epoch /\ Last.acct = user
LoadsInv ==
    /\ \A k \in Begun : k # Len(load) => load[k].epoch < Last.epoch
    /\ \A k \in Begun : load[k].pc = "sent" => ~load[k].ok
FatesInv ==
    \A n \in Made : /\ heart[n].done => heart[n].fate # "none"
                    /\ heart[n].fate = "refused" => heart[n].done
CardsInv == InSession => \A i \in Items : Calm(i) => CardInv(i)

(* What becomes of a request, in the terms of Agreement: a mark stays, and *)
(* a request that a step does not mark is as it was.                       *)
Marked(n) ==
    /\ heart[n].crossed => heart'[n].crossed
    /\ heart[n].retired => heart'[n].retired
    /\ heart[n].fate = "lost" => heart'[n].fate = "lost"
    /\ heart[n].done => heart'[n].early = heart[n].early

LEMMA CrossedMarks ==
    ASSUME NEW h \in Heart, NEW b \in BOOLEAN, h.crossed => b, NEW r, r = [h EXCEPT !.crossed = b]
    PROVE  /\ r.crossed = b /\ r.retired = h.retired /\ r.fate = h.fate /\ r.early = h.early
           /\ r = h \/ r.crossed
<1>1. CASE b
  BY <1>1 DEF Heart
<1>2. CASE b = h.crossed
  <2>1. r = h
    BY <1>2, Zenon DEF Heart
  <2> QED
    BY <1>2, <2>1
<1>3. h.crossed \in BOOLEAN
  BY DEF Heart
<1> QED
  BY <1>1, <1>2, <1>3

LEMMA RetiredMarks ==
    ASSUME NEW h \in Heart, NEW b \in BOOLEAN, h.retired => b, NEW r, r = [h EXCEPT !.retired = b]
    PROVE  /\ r.retired = b /\ r.crossed = h.crossed /\ r.fate = h.fate /\ r.early = h.early
           /\ r = h \/ r.retired
<1>1. CASE b
  BY <1>1 DEF Heart
<1>2. CASE b = h.retired
  <2>1. r = h
    BY <1>2, Zenon DEF Heart
  <2> QED
    BY <1>2, <2>1
<1>3. h.retired \in BOOLEAN
  BY DEF Heart
<1> QED
  BY <1>1, <1>2, <1>3

LEMMA SignInMarks ==
    ASSUME TypeOK, NEW a \in Accounts, SignIn(a), NEW n \in Made
    PROVE  /\ Marked(n)
           /\ heart'[n] = heart[n] \/ heart'[n].crossed
           /\ InFlight(n) => heart'[n].crossed
<1>1. heart[n] \in Heart
  BY HeartsRecords
<1>2. PICK b : b = (heart[n].crossed \/ InFlight(n))
  OBVIOUS
<1>3. heart'[n] = [heart[n] EXCEPT !.crossed = b]
  BY <1>2 DEF SignIn
<1>4. b \in BOOLEAN /\ (heart[n].crossed => b) /\ (InFlight(n) => b)
  BY <1>2, Zenon
<1> QED
  BY <1>1, <1>3, <1>4, CrossedMarks DEF Marked

LEMMA LoadArrivesMarks ==
    ASSUME TypeOK, NEW k \in Begun, LoadArrives(k), NEW n \in Made
    PROVE  /\ Marked(n)
           /\ heart'[n] = heart[n] \/ heart'[n].retired
           /\ /\ load[k].epoch = epoch /\ InFlight(n)
              /\ heart[n].item \in ClickedSince(load[k])
              /\ heart[n].item \in saved <=> heart[n].item \in load[k].ids
              => heart'[n].retired
<1> DEFINE agree == {i \in ClickedSince(load[k]) : i \in saved <=> i \in load[k].ids}
<1>1. heart[n] \in Heart
  BY HeartsRecords
<1>2. CASE load[k].epoch # epoch
  BY <1>2 DEF LoadArrives, Marked
<1>3. CASE load[k].epoch = epoch
  <2>1. PICK b : b = (heart[n].retired \/ (InFlight(n) /\ heart[n].item \in agree))
    OBVIOUS
  <2>2. heart'[n] = [heart[n] EXCEPT !.retired = b]
    BY <1>3, <2>1 DEF LoadArrives
  <2>3. b \in BOOLEAN /\ (heart[n].retired => b) /\ (InFlight(n) /\ heart[n].item \in agree => b)
    BY <2>1, Zenon
  <2>4. InFlight(n) /\ heart[n].item \in ClickedSince(load[k])
          /\ (heart[n].item \in saved <=> heart[n].item \in load[k].ids) => b
    BY <2>3
  <2> HIDE DEF agree
  <2> QED
    BY <1>1, <2>2, <2>3, <2>4, RetiredMarks DEF Marked
<1> QED
  BY <1>2, <1>3

LEMMA ClickMarks ==
    ASSUME TypeOK, NEW i \in Items, Click(i)
    PROVE  /\ \A n \in Made : /\ Marked(n)
                              /\ heart'[n] = heart[n] \/ heart'[n].crossed
                              /\ n \in OnItem(i) /\ InFlight(n) => heart'[n].crossed
           /\ LET h == heart'[Len(heart) + 1] IN
              /\ h.item = i /\ h.gen = gen[i] + 1 /\ h.epoch = epoch /\ h.acct = cookie
              /\ h.was = (i \in saved) /\ h.fate = "none" /\ ~h.done
<1> DEFINE busy == {n \in OnItem(i) : InFlight(n)}
           f == [n \in Made |-> [heart[n] EXCEPT !.crossed = @ \/ n \in busy]]
           h == [item |-> i, acct |-> cookie, was |-> i \in saved,
                 gen |-> NextGen(i), epoch |-> epoch, fate |-> "none", done |-> FALSE,
                 late |-> leaving, crossed |-> busy # {},
                 retired |-> FALSE, early |-> FALSE]
<1>1. heart \in [Made -> Heart] /\ Made = 1..Len(heart) /\ Len(heart) \in Nat
  BY HeartsRecords
<1>2. heart' = Append(f, h)
  BY DEF Click
<1>3. f \in [Made -> Heart]
  <2>1. ASSUME NEW n \in Made PROVE [heart[n] EXCEPT !.crossed = @ \/ n \in busy] \in Heart
    <3>1. heart[n] \in Heart
      BY <1>1
    <3>2. (heart[n].crossed \/ n \in busy) \in BOOLEAN
      OBVIOUS
    <3> QED
      BY <3>1, <3>2 DEF Heart
  <2> QED
    BY <2>1
<1>4. h \in Heart
  <2>1. gen[i] + 1 \in Nat \ {0}
    BY DEF TypeOK
  <2>2. (i \in saved) \in BOOLEAN /\ (busy # {}) \in BOOLEAN /\ leaving \in BOOLEAN
    BY DEF TypeOK
  <2> QED
    BY <2>1, <2>2 DEF Heart, TypeOK, NextGen
<1>5. /\ \A n \in Made : heart'[n] = [heart[n] EXCEPT !.crossed = @ \/ n \in busy]
      /\ heart'[Len(heart) + 1] = h
  BY <1>2, <1>3, <1>4, HeartsAppended
<1>6. ASSUME NEW n \in Made
      PROVE  /\ Marked(n)
             /\ heart'[n] = heart[n] \/ heart'[n].crossed
             /\ n \in OnItem(i) /\ InFlight(n) => heart'[n].crossed
  <2>1. heart[n] \in Heart
    BY <1>1
  <2>2. PICK b : b = (heart[n].crossed \/ n \in busy)
    OBVIOUS
  <2>3. heart'[n] = [heart[n] EXCEPT !.crossed = b]
    BY <1>5, <2>2
  <2>4. b \in BOOLEAN /\ (heart[n].crossed => b) /\ (n \in busy => b)
    BY <2>2, Zenon
  <2>5. n \in OnItem(i) /\ InFlight(n) => b
    BY <2>4
  <2> HIDE DEF busy
  <2> QED
    BY <2>1, <2>3, <2>4, <2>5, CrossedMarks DEF Marked
<1> QED
  BY <1>5, <1>6 DEF NextGen

(* A request served or answered; the other records stay.                   *)
LEMMA HeartServedMarks ==
    ASSUME TypeOK, NEW n \in Made, HeartServed(n)
    PROVE  /\ \A m \in Made : Marked(m)
           /\ \A m \in Made \ {n} : heart'[m] = heart[m]
           /\ heart[n].fate = "none" /\ ~heart[n].done
           /\ \E f \in {"ok", "lost"} : heart'[n] = [heart[n] EXCEPT !.fate = f]
           /\ heart'[n].fate \in {"ok", "lost"} /\ heart'[n].done = heart[n].done
           /\ heart'[n].acct = heart[n].acct /\ heart'[n].was = heart[n].was
           /\ heart'[n].early = heart[n].early
<1>1. heart \in [Made -> Heart] /\ heart[n] \in Heart
  BY HeartsRecords
<1>2. PICK f \in {"ok", "lost"} : heart' = [heart EXCEPT ![n].fate = f]
  BY DEF HeartServed
<1>3. PICK r : r = [heart[n] EXCEPT !.fate = f]
  OBVIOUS
<1>4. heart' = [heart EXCEPT ![n] = r]
  BY <1>2, <1>3
<1>5. \A m \in Made : heart'[m] = IF m = n THEN r ELSE heart[m]
  BY <1>1, <1>4
<1>6. heart[n].fate = "none" /\ ~heart[n].done
  BY DEF HeartServed, InFlight
<1>7. /\ r.fate = f /\ r.done = heart[n].done /\ r.acct = heart[n].acct
      /\ r.was = heart[n].was /\ r.crossed = heart[n].crossed /\ r.retired = heart[n].retired
      /\ r.early = heart[n].early
  BY <1>1, <1>3 DEF Heart
<1> QED
  BY <1>3, <1>5, <1>6, <1>7 DEF Marked

LEMMA HeartAnsweredMarks ==
    ASSUME TypeOK, NEW n \in Made, HeartAnswered(n)
    PROVE  /\ \A m \in Made : Marked(m)
           /\ heart'[n].acct = heart[n].acct /\ heart'[n].was = heart[n].was
           /\ heart'[n].early = LoadUnderWay(heart[n].epoch)
<1> DEFINE fate == IF heart[n].fate = "none" THEN "refused" ELSE heart[n].fate
           early == LoadUnderWay(heart[n].epoch)
<1>1. heart \in [Made -> Heart] /\ heart[n] \in Heart
  BY HeartsRecords
<1>2. PICK r : r = [heart[n] EXCEPT !.fate = fate, !.done = TRUE, !.early = early]
  OBVIOUS
<1>3. heart' = [heart EXCEPT ![n] = r]
  BY <1>2 DEF HeartAnswered
<1>4. \A m \in Made : heart'[m] = IF m = n THEN r ELSE heart[m]
  BY <1>1, <1>3
<1>5. ~heart[n].done
  BY DEF HeartAnswered, InFlight
<1>6. fate = "lost" <=> heart[n].fate = "lost"
  OBVIOUS
<1>7. /\ r.fate = fate /\ r.acct = heart[n].acct /\ r.was = heart[n].was
      /\ r.crossed = heart[n].crossed /\ r.retired = heart[n].retired /\ r.early = early
  <2> HIDE DEF fate, early
  <2> QED
    BY <1>1, <1>2 DEF Heart
<1> HIDE DEF fate
<1> QED
  BY <1>4, <1>5, <1>6, <1>7 DEF Marked

LEMMA EverMarked ==
    ASSUME TypeOK, [Next]_vars, NEW n \in Made
    PROVE  Marked(n)
<1> USE DEF page
<1>1. ASSUME NEW a \in Accounts, SignIn(a) PROVE Marked(n)
  BY <1>1, SignInMarks
<1>2. ASSUME NEW k \in Begun, LoadArrives(k) PROVE Marked(n)
  BY <1>2, LoadArrivesMarks
<1>3. ASSUME NEW i \in Items, Click(i) PROVE Marked(n)
  BY <1>3, ClickMarks
<1>4. ASSUME NEW m \in Made, HeartServed(m) \/ HeartAnswered(m) PROVE Marked(n)
  BY <1>4, HeartServedMarks, HeartAnsweredMarks
<1>5. CASE UNCHANGED heart
  BY <1>5 DEF Marked
<1> QED
  BY <1>1, <1>2, <1>3, <1>4, <1>5
     DEF Next, vars, Logout, LogoutServed, LogoutReply, DeleteAccount, LoadServed, LoadRejected

(* A card that is calm after a step was calm before it.                    *)
LEMMA CalmBefore ==
    ASSUME TypeOK, [Next]_vars, NEW i \in Items, Calm(i)'
    PROVE  Calm(i)
<1> SUFFICES ASSUME NEW n \in OnItem(i)
             PROVE  /\ ~heart[n].crossed /\ ~heart[n].late /\ ~heart[n].retired
                    /\ heart[n].fate # "lost"
                    /\ heart[n].done => ~Unguards(n)
  BY DEF Calm
<1>1. \A m \in Made : Kept(m) /\ Marked(m)
  BY EverKept, EverMarked
<1>2. n \in Made /\ heart[n].item = i /\ n \in OnItem(i)'
  BY <1>1 DEF OnItem, Kept
<1>3. /\ ~heart'[n].crossed /\ ~heart'[n].late /\ ~heart'[n].retired
      /\ heart'[n].fate # "lost"
      /\ heart'[n].done => ~Unguards(n)'
  BY <1>2 DEF Calm
<1>4. ASSUME heart[n].done, Unguards(n) PROVE FALSE
  <2>1. PICK m \in Made : heart[m].item = heart[n].item /\ m # n /\ heart[m].epoch = heart[n].epoch
    BY <1>4 DEF Unguards, OnItem
  <2>2. m \in OnItem(heart[n].item)' /\ heart'[m].epoch = heart'[n].epoch
    BY <1>1, <1>2, <2>1 DEF OnItem, Kept
  <2>3. heart'[n].early /\ heart'[n].fate = "refused" /\ heart'[n].done
    BY <1>1, <1>2, <1>4 DEF Kept, Marked, Unguards
  <2> QED
    BY <1>3, <2>1, <2>2, <2>3 DEF Unguards
<1> QED
  BY <1>1, <1>2, <1>3, <1>4 DEF Kept, Marked

(* What a step does to a load.                                             *)
LEMMA LoadChanges ==
    ASSUME TypeOK, NEW k \in Begun, LoadServed(k) \/ LoadRejected(k) \/ LoadArrives(k)
    PROVE  /\ Len(load') = Len(load) /\ Begun' = Begun
           /\ \A j \in Begun \ {k} : load'[j] = load[j]
           /\ load'[k].acct = load[k].acct /\ load'[k].epoch = load[k].epoch
           /\ load'[k].start = load[k].start
           /\ LoadServed(k) => /\ load[k].pc = "sent" /\ load'[k].pc = "read"
                               /\ load'[k].ids = server[load[k].acct] /\ load'[k].ok
           /\ LoadRejected(k) => load'[k].pc = "done" /\ ~load'[k].ok
           /\ LoadArrives(k) => /\ load[k].pc # "done" /\ load'[k].pc = "done"
                                /\ load'[k].ids = load[k].ids /\ load'[k].ok = load[k].ok
<1>1. load \in [Begun -> Load] /\ load[k] \in Load
  BY HeartsRecords
<1>2. Len(load) \in Nat /\ Begun = 1..Len(load)
  BY HeartsRecords
<1>3. ASSUME NEW l \in Load, load' = [load EXCEPT ![k] = l]
      PROVE  /\ Len(load') = Len(load) /\ Begun' = Begun
             /\ \A j \in Begun \ {k} : load'[j] = load[j]
             /\ load'[k] = l
  <2>1. load' \in [Begun -> Load]
    BY <1>1, <1>3
  <2>2. Len(load') = Len(load)
    BY <1>2, <2>1, FunctionIsSeq
  <2>3. Begun' = Begun
    BY <1>3, LoadUpdated
  <2>4. (\A j \in Begun \ {k} : load'[j] = load[j]) /\ load'[k] = l
    BY <1>1, <1>3
  <2> QED
    BY <2>2, <2>3, <2>4
<1> DEFINE Same == /\ Len(load') = Len(load) /\ Begun' = Begun
                   /\ \A j \in Begun \ {k} : load'[j] = load[j]
                   /\ load'[k].acct = load[k].acct /\ load'[k].epoch = load[k].epoch
                   /\ load'[k].start = load[k].start
<1>4. ASSUME LoadServed(k)
      PROVE  /\ Same /\ load[k].pc = "sent" /\ load'[k].pc = "read"
             /\ load'[k].ids = server[load[k].acct] /\ load'[k].ok
  <2>1. PICK l : l = [load[k] EXCEPT !.pc = "read", !.ids = server[load[k].acct], !.ok = TRUE]
    OBVIOUS
  <2>2. load' = [load EXCEPT ![k] = l] /\ load[k].pc = "sent"
    BY <1>4, <2>1 DEF LoadServed
  <2>3. server[load[k].acct] \in SUBSET Items
    BY <1>1 DEF TypeOK, Load
  <2>4. /\ l \in Load /\ l.acct = load[k].acct /\ l.epoch = load[k].epoch /\ l.start = load[k].start
        /\ l.pc = "read" /\ l.ids = server[load[k].acct] /\ l.ok
    BY <1>1, <2>1, <2>3 DEF Load
  <2> QED
    BY <1>3, <2>2, <2>4
<1>5. ASSUME LoadRejected(k) PROVE Same /\ load'[k].pc = "done" /\ ~load'[k].ok
  <2>1. PICK l : l = [load[k] EXCEPT !.pc = "done", !.ok = FALSE]
    OBVIOUS
  <2>2. load' = [load EXCEPT ![k] = l]
    BY <1>5, <2>1 DEF LoadRejected
  <2>3. /\ l \in Load /\ l.acct = load[k].acct /\ l.epoch = load[k].epoch /\ l.start = load[k].start
        /\ l.pc = "done" /\ ~l.ok
    BY <1>1, <2>1 DEF Load
  <2> QED
    BY <1>3, <2>2, <2>3
<1>6. ASSUME LoadArrives(k)
      PROVE  /\ Same /\ load[k].pc # "done" /\ load'[k].pc = "done"
             /\ load'[k].ids = load[k].ids /\ load'[k].ok = load[k].ok
  <2>1. PICK l : l = [load[k] EXCEPT !.pc = "done"]
    OBVIOUS
  <2>2. load' = [load EXCEPT ![k] = l] /\ load[k].pc # "done"
    BY <1>6, <2>1 DEF LoadArrives
  <2>3. /\ l \in Load /\ l.acct = load[k].acct /\ l.epoch = load[k].epoch /\ l.start = load[k].start
        /\ l.pc = "done" /\ l.ok = load[k].ok /\ l.ids = load[k].ids
    BY <1>1, <2>1 DEF Load
  <2> QED
    BY <1>3, <2>2, <2>3
<1> QED
  BY <1>4, <1>5, <1>6

LEMMA SignInLoads ==
    ASSUME TypeOK, NEW a \in Accounts, SignIn(a)
    PROVE  /\ Len(load') = Len(load) + 1 /\ Begun' = Begun \cup {Len(load) + 1}
           /\ \A k \in Begun : load'[k] = load[k] /\ k # Len(load) + 1
           /\ Last'.acct = a /\ Last'.epoch = epoch + 1 /\ Last'.start = gen
           /\ Last'.pc = "sent" /\ ~Last'.ok
<1>1. PICK l : l = [acct |-> a, epoch |-> epoch + 1, start |-> gen,
                    ids |-> {}, pc |-> "sent", ok |-> FALSE]
  OBVIOUS
<1>2. /\ l \in Load /\ l.acct = a /\ l.epoch = epoch + 1 /\ l.start = gen
      /\ l.pc = "sent" /\ ~l.ok
  BY <1>1 DEF TypeOK, Load
<1>3. load' = Append(load, l)
  BY <1>1 DEF SignIn
<1>4. /\ load' \in Seq(Load)
      /\ Begun' = Begun \cup {Len(load) + 1} /\ Len(load) + 1 \notin Begun
      /\ \A k \in Begun : load'[k] = load[k]
      /\ load'[Len(load) + 1] = l
  BY <1>2, <1>3, LoadAppended
<1>5. Len(load') = Len(load) + 1
  BY <1>2, <1>3, AppendProperties DEF TypeOK
<1> QED
  BY <1>2, <1>4, <1>5 DEF Last

LEMMA LoadsStep == TypeOK /\ EpochInv /\ LoadsInv /\ [Next]_vars => LoadsInv'
<1> SUFFICES ASSUME TypeOK, EpochInv, LoadsInv, [Next]_vars PROVE LoadsInv'
  OBVIOUS
<1> USE DEF page
<1>0. /\ epoch \in Nat /\ Len(load) \in Nat /\ Begun = 1..Len(load)
      /\ \A k \in Begun : load[k].epoch \in Nat /\ load[k].epoch <= epoch
  BY HeartsRecords DEF TypeOK, Load, EpochInv
<1>1. ASSUME NEW a \in Accounts, SignIn(a) PROVE LoadsInv'
  <2>1. \A k \in Begun' : k # Len(load') => load'[k].epoch < Last'.epoch
    BY <1>0, <1>1, SignInLoads
  <2>2. \A k \in Begun' : load'[k].pc = "sent" => ~load'[k].ok
    BY <1>0, <1>1, SignInLoads DEF LoadsInv, Last
  <2> QED
    BY <2>1, <2>2 DEF LoadsInv
<1>2. ASSUME NEW k \in Begun, LoadServed(k) \/ LoadRejected(k) \/ LoadArrives(k) PROVE LoadsInv'
  <2>1. /\ Len(load') = Len(load) /\ Begun' = Begun
        /\ \A j \in Begun \ {k} : load'[j] = load[j]
        /\ load'[k].epoch = load[k].epoch /\ load'[k].pc # "sent"
    BY <1>2, LoadChanges
  <2>2. \A j \in Begun : load'[j].epoch = load[j].epoch
    BY <2>1
  <2>3. \A j \in Begun : Last'.epoch = Last.epoch
    BY <1>0, <2>1, <2>2 DEF Last
  <2>4. \A j \in Begun' : j # Len(load') => load'[j].epoch < Last'.epoch
    BY <2>1, <2>2, <2>3 DEF LoadsInv
  <2>5. \A j \in Begun' : load'[j].pc = "sent" => ~load'[j].ok
    BY <2>1 DEF LoadsInv
  <2> QED
    BY <2>4, <2>5 DEF LoadsInv
<1>3. CASE UNCHANGED load
  BY <1>3 DEF LoadsInv, Last, Begun
<1> QED
  BY <1>1, <1>2, <1>3
     DEF Next, vars, Logout, LogoutServed, LogoutReply, DeleteAccount, Click, HeartServed, HeartAnswered

(* No step but a sign-in begins a session.                                 *)
LEMMA SessionStays ==
    ASSUME TypeOK, [Next]_vars, InSession', \A a \in Accounts : ~SignIn(a)
    PROVE  InSession /\ UNCHANGED <<user, leaving, epoch, cookie>>
<1> USE DEF page
<1>1. user' # None /\ ~leaving'
  BY DEF InSession
<1>2. ASSUME Logout \/ LogoutReply \/ DeleteAccount PROVE FALSE
  BY <1>1, <1>2 DEF Logout, LogoutReply, DeleteAccount
<1>3. ASSUME LogoutServed PROVE FALSE
  BY <1>1, <1>3 DEF LogoutServed
<1>4. UNCHANGED <<user, leaving, epoch, cookie>>
  BY <1>2, <1>3
     DEF Next, vars, LoadServed, LoadRejected, LoadArrives, Click, HeartServed, HeartAnswered
<1> QED
  BY <1>1, <1>4 DEF InSession

LEMMA SessionStep == TypeOK /\ SessionInv /\ [Next]_vars => SessionInv'
<1> SUFFICES ASSUME TypeOK, SessionInv, [Next]_vars, InSession'
             PROVE  cookie' = user' /\ Begun' # {} /\ Last'.epoch = epoch' /\ Last'.acct = user'
  BY DEF SessionInv
<1> USE DEF page
<1>1. ASSUME NEW a \in Accounts, SignIn(a)
      PROVE  cookie' = user' /\ Begun' # {} /\ Last'.epoch = epoch' /\ Last'.acct = user'
  BY <1>1, SignInLoads DEF SignIn
<1>2. CASE \A a \in Accounts : ~SignIn(a)
  <2>0. InSession /\ UNCHANGED <<user, leaving, epoch, cookie>>
    BY <1>2, SessionStays
  <2>1. cookie = user /\ Begun # {} /\ Last.epoch = epoch /\ Last.acct = user
    BY <2>0 DEF SessionInv
  <2>2. ASSUME NEW k \in Begun, LoadServed(k) \/ LoadRejected(k) \/ LoadArrives(k)
        PROVE  Begun' = Begun /\ Last'.epoch = Last.epoch /\ Last'.acct = Last.acct
    <3>1. Len(load) \in Nat /\ Begun = 1..Len(load)
      BY HeartsRecords
    <3>2. Len(load) \in Begun
      BY <2>2, <3>1
    <3> QED
      BY <2>2, <3>2, LoadChanges DEF Last
  <2>3. CASE UNCHANGED load
    BY <2>0, <2>1, <2>3 DEF Last, Begun
  <2> QED
    BY <1>2, <2>0, <2>1, <2>2, <2>3
       DEF Next, vars, Logout, LogoutServed, LogoutReply, DeleteAccount, Click, HeartServed, HeartAnswered
<1> QED
  BY <1>1, <1>2

LEMMA FatesStep == TypeOK /\ FatesInv /\ [Next]_vars => FatesInv'
<1> SUFFICES ASSUME TypeOK, FatesInv, [Next]_vars PROVE FatesInv'
  OBVIOUS
<1> USE DEF page
<1>1. ASSUME Made' = Made,
             \A n \in Made : heart'[n].done = heart[n].done /\ heart'[n].fate = heart[n].fate
      PROVE  FatesInv'
  BY <1>1 DEF FatesInv
<1>2. ASSUME NEW a \in Accounts, SignIn(a) PROVE FatesInv'
  BY <1>1, <1>2, SignInSteps, HeartsUpdated
<1>3. ASSUME NEW k \in Begun, LoadArrives(k) PROVE FatesInv'
  BY <1>1, <1>3, LoadArrivesSteps, HeartsUpdated
<1>4. ASSUME NEW i \in Items, Click(i) PROVE FatesInv'
  <2>1. /\ Made' = Made \cup {Len(heart) + 1}
        /\ \A n \in Made : heart'[n].done = heart[n].done /\ heart'[n].fate = heart[n].fate
    BY <1>4, ClickSteps
  <2>2. heart'[Len(heart) + 1].fate = "none" /\ ~heart'[Len(heart) + 1].done
    BY <1>4, ClickMarks
  <2> QED
    BY <2>1, <2>2 DEF FatesInv
<1>5. ASSUME NEW n \in Made, HeartServed(n) PROVE FatesInv'
  <2>1. Made' = Made
    BY <1>5, HeartServedSteps, HeartsUpdated
  <2>2. /\ \A m \in Made \ {n} : heart'[m] = heart[m]
        /\ heart'[n].fate \in {"ok", "lost"} /\ ~heart'[n].done
    BY <1>5, HeartServedMarks
  <2> QED
    BY <2>1, <2>2 DEF FatesInv
<1>6. ASSUME NEW n \in Made, HeartAnswered(n) PROVE FatesInv'
  <2>1. Made' = Made
    BY <1>6, HeartAnsweredSteps, HeartsUpdated
  <2> QED
    BY <1>6, <2>1, HeartAnsweredSteps DEF FatesInv
<1>7. CASE UNCHANGED heart
  BY <1>1, <1>7 DEF Made
<1> QED
  BY <1>2, <1>3, <1>4, <1>5, <1>6, <1>7
     DEF Next, vars, Logout, LogoutServed, LogoutReply, DeleteAccount, LoadServed, LoadRejected

----------------------------------------------------------------------------
(* A calm card in each step.                                               *)

Untouched(i) == OnItem(i)' = OnItem(i) /\ \A n \in OnItem(i) : heart'[n] = heart[n]

LEMMA HeartFrame ==
    ASSUME NEW i \in Items, Untouched(i), UNCHANGED <<user, epoch>>, gen'[i] = gen[i],
           i \in saved' <=> i \in saved, i \in server'[user] <=> i \in server[user],
           Loaded' <=> Loaded, OneUnderWay(i), Settled(i)
    PROVE  Session(i)' = Session(i) /\ OneUnderWay(i)' /\ Settled(i)'
<1>1. OnItem(i)' = OnItem(i) /\ \A n \in OnItem(i) : heart'[n] = heart[n]
  BY DEF Untouched
<1>2. Session(i)' = Session(i)
  BY <1>1 DEF Session
<1>3. Sure(i)' <=> Sure(i)
  BY <1>1, <1>2 DEF Sure, Session
<1>4. \A n \in OnItem(i) : InFlight(n)' <=> InFlight(n)
  BY <1>1 DEF InFlight
<1>5. OneUnderWay(i)'
  <2> SUFFICES ASSUME NEW n \in OnItem(i), InFlight(n) PROVE UnderWay(i, n)'
    BY <1>1, <1>4 DEF OneUnderWay
  <2>1. UnderWay(i, n)
    BY DEF OneUnderWay
  <2> QED
    BY <1>1, <1>2, <1>3, <1>4, <2>1 DEF UnderWay
<1>6. Settled(i)'
  <2>1. Quiet(i)' <=> Quiet(i)
    BY <1>1, <1>4 DEF Quiet
  <2> QED
    BY <1>3, <2>1 DEF Settled
<1> QED
  BY <1>2, <1>5, <1>6

LEMMA CardFrame ==
    ASSUME NEW i \in Items, Untouched(i), UNCHANGED <<user, epoch>>, gen'[i] = gen[i],
           i \in saved' <=> i \in saved, i \in server'[user] <=> i \in server[user],
           Last' = Last, Loaded' <=> Loaded, CardInv(i)
    PROVE  CardInv(i)'
<1>1. Session(i)' = Session(i) /\ OneUnderWay(i)' /\ Settled(i)'
  BY HeartFrame DEF CardInv
<1>2. \A n \in Session(i) : heart'[n] = heart[n]
  BY DEF Session, Untouched
<1>3. BeforeLoad(i) => BeforeLoad(i)'
  BY <1>1, <1>2 DEF BeforeLoad
<1> QED
  BY <1>1, <1>3 DEF CardInv

LEMMA SameItems ==
    ASSUME NEW i \in Items, Made' = Made, \A n \in Made : heart'[n].item = heart[n].item
    PROVE  OnItem(i)' = OnItem(i)
BY DEF OnItem

LEMMA CardSignIn ==
    ASSUME TypeOK, EpochInv, NEW a \in Accounts, SignIn(a), NEW i \in Items, Calm(i)'
    PROVE  CardInv(i)'
<1>0. Made' = Made /\ \A n \in Made : Kept(n)
  BY SignInSteps, HeartsUpdated
<1>1. OnItem(i)' = OnItem(i) /\ \A n \in OnItem(i) : n \in Made
  BY <1>0, SameItems DEF Kept, OnItem
<1>2. \A n \in OnItem(i) : ~heart'[n].crossed
  BY <1>1 DEF Calm
<1>3. \A n \in OnItem(i) : heart'[n] = heart[n] /\ heart[n].done
  BY <1>1, <1>2, SignInMarks DEF InFlight
<1>4. \A n \in OnItem(i) : heart[n].epoch < epoch + 1
  <2>1. \A n \in Made : heart[n].epoch \in Nat /\ heart[n].epoch <= epoch
    BY HeartsRecords DEF Heart, EpochInv
  <2>2. epoch \in Nat
    BY DEF TypeOK
  <2> QED
    BY <1>1, <2>1, <2>2
<1>5. epoch' = epoch + 1 /\ epoch \in Nat /\ gen' = gen
  BY DEF SignIn, TypeOK
<1>6. Session(i)' = {}
  <2>1. ASSUME NEW n \in OnItem(i)', heart'[n].epoch = epoch' PROVE FALSE
    <3>1. heart[n].epoch = epoch + 1 /\ heart[n].epoch < epoch + 1
      BY <1>1, <1>3, <1>4, <1>5, <2>1
    <3> QED
      BY <1>5, <3>1
  <2> QED
    BY <2>1 DEF Session
<1>7. Last'.pc = "sent" /\ Last'.start = gen
  BY SignInLoads
<1>8. ~Sure(i)'
  BY <1>6, <1>7 DEF Sure, Loaded, Last
<1>9. OneUnderWay(i)'
  BY <1>1, <1>3 DEF OneUnderWay, InFlight
<1>10. BeforeLoad(i)'
  BY <1>5, <1>6, <1>7 DEF BeforeLoad
<1> QED
  BY <1>8, <1>9, <1>10 DEF CardInv, Settled

(* The load of the session is served, fails or arrives; any other load is  *)
(* of a session that is over.                                              *)
LEMMA LoadUntouched ==
    ASSUME TypeOK, NEW k \in Begun, LoadServed(k) \/ LoadRejected(k) \/ LoadArrives(k),
           NEW i \in Items, Calm(i)'
    PROVE  Untouched(i)
<1>1. CASE LoadServed(k) \/ LoadRejected(k)
  BY <1>1 DEF LoadServed, LoadRejected, Untouched, OnItem, Made
<1>2. CASE LoadArrives(k)
  <2>1. Made' = Made /\ \A n \in Made : Kept(n)
    BY <1>2, LoadArrivesSteps, HeartsUpdated
  <2>2. OnItem(i)' = OnItem(i) /\ \A n \in OnItem(i) : n \in Made
    BY <2>1, SameItems DEF Kept, OnItem
  <2>3. \A n \in OnItem(i) : ~heart'[n].retired
    BY <2>2 DEF Calm
  <2> QED
    BY <1>2, <2>2, <2>3, LoadArrivesMarks DEF Untouched
<1> QED
  BY <1>1, <1>2

LEMMA CardOldLoad ==
    ASSUME TypeOK, LoadsInv, NEW k \in Begun, k # Len(load), Last.epoch = epoch,
           LoadServed(k) \/ LoadRejected(k) \/ LoadArrives(k),
           NEW i \in Items, Calm(i)', CardInv(i)
    PROVE  CardInv(i)'
<1>1. Len(load) \in Nat /\ Begun = 1..Len(load) /\ epoch \in Nat
      /\ load[k].epoch \in Nat
  BY HeartsRecords DEF TypeOK, Load
<1>2. Len(load) \in Begun
  BY <1>1
<1>3. Last' = Last /\ (Loaded' <=> Loaded)
  BY <1>2, LoadChanges DEF Last, Loaded
<1>4. load[k].epoch # epoch
  BY <1>1 DEF LoadsInv
<1>5. UNCHANGED <<user, epoch, gen, saved, server>>
  BY <1>4 DEF LoadServed, LoadRejected, LoadArrives, page
<1> QED
  BY <1>3, <1>5, LoadUntouched, CardFrame

LEMMA CardLoadServed ==
    ASSUME TypeOK, NEW k \in Begun, k = Len(load), Last.acct = user,
           LoadServed(k) \/ LoadRejected(k), NEW i \in Items, Calm(i)', CardInv(i)
    PROVE  CardInv(i)'
<1>0. UNCHANGED <<user, epoch, gen, saved, server>>
  BY DEF LoadServed, LoadRejected, page
<1>1. Untouched(i)
  BY LoadUntouched
<1>2. /\ Len(load') = Len(load) /\ Last'.start = Last.start
      /\ LoadServed(k) => Last.pc = "sent" /\ Last'.pc = "read" /\ Last'.ids = server[user]
      /\ LoadRejected(k) => Last'.pc = "done" /\ ~Last'.ok
  BY LoadChanges DEF Last
<1>3. ~Loaded
  BY <1>2 DEF Loaded, Last, LoadServed, LoadRejected
<1>4. ~Loaded'
  BY <1>2 DEF Loaded, Last
<1>5. Session(i)' = Session(i) /\ OneUnderWay(i)' /\ Settled(i)'
  BY <1>0, <1>1, <1>3, <1>4, HeartFrame DEF CardInv
<1>6. CASE LoadRejected(k)
  BY <1>2, <1>5, <1>6 DEF CardInv
<1>7. CASE LoadServed(k)
  <2>1. BeforeLoad(i)
    BY <1>2, <1>7 DEF CardInv
  <2>2. \A n \in Session(i) : heart'[n] = heart[n]
    BY <1>1 DEF Session, Untouched
  <2>3. /\ \A n \in Session(i)' : heart'[n].done => heart'[n].early
        /\ Session(i)' = {} => gen'[i] = Last'.start[i]
        /\ \A n \in Session(i)' : heart'[n].fate = "refused" => gen'[i] = 0
        /\ \A n \in Session(i)' : heart'[n].fate # "refused" => gen'[i] > Last'.start[i]
    BY <1>0, <1>2, <1>5, <2>1, <2>2 DEF BeforeLoad
  <2>4. i \in Last'.ids <=> i \in server'[user']
    BY <1>0, <1>2, <1>7
  <2>5. BeforeLoad(i)'
    BY <2>3, <2>4 DEF BeforeLoad
  <2> QED
    BY <1>5, <2>5 DEF CardInv
<1> QED
  BY <1>6, <1>7

(* The load of the session arrives.                                        *)
LEMMA CardLoadArrives ==
    ASSUME TypeOK, LoadsInv, FatesInv, NEW k \in Begun, k = Len(load),
           Last.acct = user, Last.epoch = epoch, LoadArrives(k),
           NEW i \in Items, Calm(i), Calm(i)', CardInv(i)
    PROVE  CardInv(i)'
<1> DEFINE mine == i \in ClickedSince(Last)
<1>0. UNCHANGED <<user, epoch, server>> /\ Last = load[k]
  BY DEF LoadArrives, Last
<1>1. Untouched(i)
  BY LoadUntouched
<1>2. OnItem(i)' = OnItem(i) /\ \A n \in OnItem(i) : heart'[n] = heart[n]
  BY <1>1 DEF Untouched
<1>3. Session(i)' = Session(i) /\ \A n \in Session(i) : n \in OnItem(i) /\ heart'[n] = heart[n]
  BY <1>0, <1>2 DEF Session
<1>4. Last.pc # "done" /\ Last'.pc = "done" /\ Last'.ok = Last.ok
  BY LoadChanges DEF Last
<1>5. i \in saved' <=> IF mine THEN i \in saved ELSE i \in Last.ids
  BY <1>0 DEF LoadArrives
<1>6. ~(i \in saved <=> i \in Last.ids) => gen'[i] = gen[i]
  <2>1. gen' = [j \in Items |-> IF j \in {g \in ClickedSince(Last) : g \in saved <=> g \in Last.ids}
                                THEN gen[j] + 1 ELSE gen[j]]
    BY <1>0 DEF LoadArrives
  <2> QED
    BY <2>1
<1>7. mine <=> gen[i] # 0 /\ gen[i] # Last.start[i]
  BY DEF ClickedSince
<1> HIDE DEF mine
<1>8. BeforeLoad(i)
  BY <1>4 DEF CardInv
<1>9. gen[i] \in Nat /\ Last.start[i] \in Nat
  BY <1>0, HeartsRecords DEF TypeOK, Load
<1>10. ASSUME NEW n \in Session(i), heart[n].fate # "refused" PROVE mine
  <2>1. gen[i] > Last.start[i]
    BY <1>8, <1>10 DEF BeforeLoad
  <2> QED
    BY <1>7, <1>9, <2>1
<1>11. ~Loaded
  BY <1>4 DEF Loaded, Last
<1>12. Loaded' => Last.pc = "read"
  <2>1. Loaded' => Last.ok
    BY <1>4 DEF Loaded, Last
  <2>2. Last.pc \in {"sent", "read", "done"}
    BY <1>0, HeartsRecords DEF Load
  <2> QED
    BY <1>0, <1>4, <2>1, <2>2 DEF LoadsInv
<1>13. Sure(i) \/ (Sure(i)' => /\ \A n \in Session(i) : ~(heart[n].done /\ heart[n].fate = "ok")
                               /\ Last.pc = "read")
  BY <1>3, <1>12 DEF Sure
<1>14. Sure(i) => mine
  BY <1>10, <1>11 DEF Sure
<1>15. ASSUME NEW n \in OnItem(i), InFlight(n) PROVE UnderWay(i, n)'
  <2>1. UnderWay(i, n)
    BY <1>15 DEF CardInv, OneUnderWay
  <2>2. n \in Session(i) /\ heart[n].fate # "refused"
    BY <2>1 DEF UnderWay
  <2>3. mine
    BY <1>10, <2>2
  <2>4. ~(i \in saved <=> i \in Last.ids)
    <3>1. ~heart'[n].retired
      BY <1>2 DEF Calm
    <3>2. n \in Made /\ heart[n].item = i
      BY DEF OnItem
    <3> QED
      BY <1>0, <1>15, <2>3, <3>1, <3>2, LoadArrivesMarks DEF mine
  <2>5. gen'[i] = gen[i] /\ (i \in saved' <=> i \in saved)
    BY <1>5, <1>6, <2>3, <2>4
  <2>6. heart[n].fate = "none" /\ Sure(i)' => (i \in server[user] <=> heart[n].was)
    <3>1. CASE Sure(i)
      BY <2>1, <3>1 DEF UnderWay
    <3>2. CASE ~Sure(i)
      <4> HAVE heart[n].fate = "none" /\ Sure(i)'
      <4>1. Last.pc = "read" /\ \A m \in Session(i) : ~(heart[m].done /\ heart[m].fate = "ok")
        BY <1>13, <3>2
      <4>2. \A m \in Session(i) : heart[m].fate # "ok"
        BY <2>1, <4>1 DEF UnderWay, InFlight, Session
      <4>3. i \in Last.ids <=> i \in server[user]
        BY <1>8, <4>1, <4>2 DEF BeforeLoad
      <4> QED
        BY <2>1, <2>4, <4>3 DEF UnderWay
    <3> QED
      BY <3>1, <3>2
  <2>7. \A m \in OnItem(i)' : InFlight(m)' => m = n
    BY <1>2, <2>1 DEF UnderWay, InFlight
  <2> QED
    BY <1>0, <1>2, <1>3, <2>1, <2>5, <2>6, <2>7 DEF UnderWay
<1>16. OneUnderWay(i)'
  BY <1>2, <1>15 DEF OneUnderWay, InFlight
<1>17. Settled(i)'
  <2> SUFFICES ASSUME Sure(i)', Quiet(i) PROVE i \in saved' <=> i \in server[user]
    BY <1>0, <1>2 DEF Settled, Quiet, InFlight
  <2>1. CASE Sure(i)
    BY <1>5, <1>14, <2>1 DEF CardInv, Settled
  <2>2. CASE ~Sure(i)
    <3>1. Last.pc = "read" /\ \A m \in Session(i) : ~(heart[m].done /\ heart[m].fate = "ok")
      BY <1>13, <2>2
    <3>2. \A m \in Session(i) : heart[m].done /\ heart[m].fate # "ok"
      BY <1>3, <3>1 DEF Quiet, InFlight
    <3>3. i \in Last.ids <=> i \in server[user]
      BY <1>8, <3>1, <3>2 DEF BeforeLoad
    <3>4. \A m \in Session(i) : heart[m].fate = "refused"
      <4> TAKE m \in Session(i)
      <4>1. m \in Made /\ heart[m] \in Heart /\ m \in OnItem(i)
        BY <1>3, HeartsRecords DEF OnItem
      <4>2. heart[m].fate # "lost" /\ heart[m].fate # "none"
        BY <3>2, <4>1 DEF Calm, FatesInv
      <4> QED
        BY <3>2, <4>1, <4>2 DEF Heart
    <3>5. ~mine
      <4>1. CASE Session(i) = {}
        BY <1>7, <1>8, <4>1 DEF BeforeLoad
      <4>2. CASE Session(i) # {}
        BY <1>7, <1>8, <3>4, <4>2 DEF BeforeLoad
      <4> QED
        BY <4>1, <4>2
    <3> QED
      BY <1>5, <3>3, <3>5
  <2> QED
    BY <2>1, <2>2
<1> QED
  BY <1>4, <1>16, <1>17 DEF CardInv

LEMMA LastIsLoad ==
    ASSUME TypeOK, Begun # {}
    PROVE  Len(load) \in Begun /\ Last \in Load /\ \A i \in Items : Last.start[i] \in Nat
<1>1. Len(load) \in Begun
  <2>1. Len(load) \in Nat /\ Begun = 1..Len(load)
    BY HeartsRecords
  <2> QED
    BY <2>1
<1>2. Last \in Load
  BY <1>1, HeartsRecords DEF Last
<1> QED
  BY <1>1, <1>2 DEF Load

LEMMA CardClick ==
    ASSUME TypeOK, NEW i \in Items, Click(i), InSession, cookie = user, Begun # {},
           Calm(i), Calm(i)', CardInv(i)
    PROVE  CardInv(i)'
<1>0. PICK c : c = Len(heart) + 1
  OBVIOUS
<1>1. /\ Made' = Made \cup {c} /\ c \notin Made
      /\ \A n \in Made : Kept(n)
      /\ heart'[c].item = i /\ heart'[c].gen = gen[i] + 1 /\ heart'[c].epoch = epoch
      /\ heart'[c].acct = user /\ heart'[c].was = (i \in saved)
      /\ heart'[c].fate = "none" /\ ~heart'[c].done
  BY <1>0, ClickSteps, ClickMarks
<1>2. OnItem(i)' = OnItem(i) \cup {c} /\ \A n \in OnItem(i) : n \in Made
  BY <1>1 DEF OnItem, Kept
<1>3. \A n \in OnItem(i) : heart'[n] = heart[n] /\ heart[n].done
  <2>1. \A n \in OnItem(i) : ~heart'[n].crossed
    BY <1>2 DEF Calm
  <2> QED
    BY <1>2, <2>1, ClickMarks DEF InFlight
<1>4. UNCHANGED <<user, epoch, server, load>>
  BY DEF Click
<1>5. gen'[i] = gen[i] + 1 /\ gen[i] \in Nat
  BY DEF Click, NextGen, TypeOK
<1>6. i \in saved' <=> ~(i \in saved)
  BY DEF Click
<1>7. Session(i)' = Session(i) \cup {c}
  BY <1>1, <1>2, <1>3, <1>4 DEF Session
<1>8. Quiet(i)
  BY <1>3 DEF Quiet, InFlight
<1>9. Sure(i)' <=> Sure(i)
  <2>1. Loaded' <=> Loaded
    BY <1>4 DEF Loaded
  <2>2. \A n \in Session(i) : heart'[n] = heart[n]
    BY <1>3 DEF Session
  <2> QED
    BY <1>1, <1>7, <2>1, <2>2 DEF Sure
<1>10. UnderWay(i, c)'
  <2>1. \A n \in OnItem(i)' : InFlight(n)' => n = c
    BY <1>2, <1>3 DEF InFlight
  <2>2. Sure(i) => (i \in server[user] <=> i \in saved)
    BY <1>8 DEF CardInv, Settled
  <2> QED
    BY <1>1, <1>4, <1>5, <1>6, <1>7, <1>9, <2>1, <2>2 DEF UnderWay
<1>11. OneUnderWay(i)'
  BY <1>2, <1>3, <1>10 DEF OneUnderWay, InFlight
<1>12. ~Quiet(i)'
  BY <1>1, <1>2 DEF Quiet, InFlight
<1>13. ASSUME Last.pc # "done" PROVE BeforeLoad(i)'
  <2>0. BeforeLoad(i) /\ Last' = Last
    BY <1>4, <1>13 DEF CardInv, Last
  <2>1. \A n \in Session(i) : n \in OnItem(i) /\ heart'[n] = heart[n] /\ heart[n].done
    BY <1>3 DEF Session
  <2>2. ASSUME NEW n \in Session(i), heart[n].fate = "refused" PROVE FALSE
    <3>1. heart'[n].early /\ heart'[n].fate = "refused" /\ heart'[n].done /\ n \in OnItem(i)'
      BY <1>2, <2>0, <2>1, <2>2 DEF BeforeLoad
    <3>2. n \in Made /\ heart'[n].item = i /\ heart'[n].epoch = epoch /\ c # n
      BY <1>1, <1>2, <2>1 DEF Session, OnItem
    <3>3. c \in OnItem(heart[n].item)' /\ heart'[c].epoch = heart'[n].epoch
      BY <1>1, <1>2, <3>2
    <3>4. Unguards(n)'
      BY <3>1, <3>2, <3>3 DEF Unguards
    <3> QED
      BY <3>1, <3>4 DEF Calm
  <2>3. gen[i] >= Last.start[i]
    <3>1. CASE Session(i) = {}
      BY <1>5, <2>0, <3>1 DEF BeforeLoad
    <3>2. CASE Session(i) # {}
      <4>1. PICK n \in Session(i) : heart[n].fate # "refused"
        BY <2>2, <3>2
      <4>2. gen[i] > Last.start[i]
        BY <2>0, <4>1 DEF BeforeLoad
      <4> QED
        BY <1>5, <4>2, LastIsLoad
    <3> QED
      BY <3>1, <3>2
  <2>4. gen'[i] > Last.start[i]
    BY <1>5, <2>3, LastIsLoad
  <2>5. \A n \in Session(i)' : heart'[n].done => heart'[n].early
    BY <1>1, <1>7, <2>0, <2>1 DEF BeforeLoad
  <2>6. \A n \in Session(i)' : heart'[n].fate # "refused"
    BY <1>1, <1>7, <2>1, <2>2
  <2>7. Last.pc = "read" /\ (\A n \in Session(i)' : heart'[n].fate # "ok") =>
            (i \in Last.ids <=> i \in server[user])
    BY <1>7, <2>0, <2>1 DEF BeforeLoad
  <2>8. Session(i)' # {}
    BY <1>7
  <2> QED
    BY <1>4, <2>0, <2>4, <2>5, <2>6, <2>7, <2>8 DEF BeforeLoad
<1> QED
  BY <1>4, <1>11, <1>12, <1>13 DEF CardInv, Settled, Last

(* What the requests of a card keep when one of them is served or answered.*)
LEMMA CardRequests ==
    ASSUME TypeOK, NEW n \in Made, HeartServed(n) \/ HeartAnswered(n), NEW i \in Items
    PROVE  /\ OnItem(i)' = OnItem(i) /\ Session(i)' = Session(i)
           /\ \A m \in OnItem(i) \ {n} : heart'[m] = heart[m]
           /\ heart'[n].item = heart[n].item /\ heart'[n].gen = heart[n].gen
           /\ heart'[n].epoch = heart[n].epoch
           /\ UNCHANGED <<user, leaving, cookie, epoch, load>>
           /\ Last' = Last /\ (Loaded' <=> Loaded)
<1>1. Made' = Made
  BY HeartServedSteps, HeartAnsweredSteps, HeartsUpdated
<1>2. \A m \in Made : Kept(m)
  BY HeartServedSteps, HeartAnsweredSteps
<1>3. \A m \in Made \ {n} : heart'[m] = heart[m]
  BY HeartServedMarks, HeartAnsweredSteps
<1>4. UNCHANGED <<user, leaving, cookie, epoch, load>>
  BY DEF HeartServed, HeartAnswered, page
<1>5. OnItem(i)' = OnItem(i)
  BY <1>1, <1>2, SameItems DEF Kept
<1>6. Session(i)' = Session(i)
  BY <1>2, <1>4, <1>5 DEF Session, OnItem, Kept
<1> QED
  BY <1>2, <1>3, <1>4, <1>5, <1>6 DEF Kept, OnItem, Last, Loaded

LEMMA CardServed ==
    ASSUME TypeOK, NEW n \in Made, HeartServed(n), NEW i \in Items, n \in OnItem(i),
           user \in Accounts, Calm(i)', CardInv(i)
    PROVE  CardInv(i)'
<1>1. /\ OnItem(i)' = OnItem(i) /\ Session(i)' = Session(i)
      /\ \A m \in OnItem(i) \ {n} : heart'[m] = heart[m]
      /\ heart'[n].gen = heart[n].gen
      /\ UNCHANGED <<user, epoch, load>> /\ Last' = Last
  BY CardRequests
<1>2. /\ heart[n].fate = "none" /\ ~heart[n].done
      /\ heart'[n].fate \in {"ok", "lost"} /\ ~heart'[n].done
      /\ heart'[n].acct = heart[n].acct /\ heart'[n].was = heart[n].was
  BY HeartServedMarks
<1>3. heart'[n].fate = "ok"
  BY <1>1, <1>2 DEF Calm
<1>4. UnderWay(i, n)
  BY <1>2 DEF CardInv, OneUnderWay, InFlight
<1>5. UNCHANGED <<gen, saved>>
  BY DEF HeartServed, page
<1>6. i \in server'[user] <=> ~heart[n].was
  <2>1. heart[n].acct = user /\ heart[n].item = i
    BY <1>4 DEF UnderWay, OnItem
  <2>2. server' = [server EXCEPT ![user] = IF heart[n].was THEN server[user] \ {i}
                                                           ELSE server[user] \cup {i}]
    BY <2>1 DEF HeartServed
  <2> QED
    BY <2>2 DEF TypeOK
<1>7. \A m \in OnItem(i) : InFlight(m)' <=> InFlight(m)
  BY <1>1, <1>2 DEF InFlight
<1>8. UnderWay(i, n)'
  BY <1>1, <1>2, <1>3, <1>4, <1>5, <1>6, <1>7 DEF UnderWay
<1>9. OneUnderWay(i)'
  <2> SUFFICES ASSUME NEW m \in OnItem(i), InFlight(m) PROVE m = n
    BY <1>1, <1>7, <1>8 DEF OneUnderWay
  <2> QED
    BY <1>4 DEF UnderWay
<1>10. ~Quiet(i)'
  BY <1>1, <1>2 DEF Quiet, InFlight
<1>11. ASSUME BeforeLoad(i) PROVE BeforeLoad(i)'
  <2>1. \A m \in Session(i) : m # n => heart'[m] = heart[m]
    BY <1>1 DEF Session
  <2>2. n \in Session(i)
    BY <1>4 DEF UnderWay
  <2>3. gen[i] > Last.start[i]
    BY <1>2, <1>11, <2>2 DEF BeforeLoad
  <2>4. \A m \in Session(i) : heart'[m].done => heart'[m].early
    BY <1>2, <1>11, <2>1 DEF BeforeLoad
  <2>5. \A m \in Session(i) : heart'[m].fate = "refused" => gen[i] = 0
    BY <1>3, <1>11, <2>1 DEF BeforeLoad
  <2> QED
    BY <1>1, <1>3, <1>5, <2>2, <2>3, <2>4, <2>5 DEF BeforeLoad
<1> QED
  BY <1>1, <1>9, <1>10, <1>11 DEF CardInv, Settled

LEMMA CardAnswered ==
    ASSUME TypeOK, NEW n \in Made, HeartAnswered(n), NEW i \in Items, n \in OnItem(i),
           Begun # {}, Last.epoch = epoch, Calm(i), Calm(i)', CardInv(i)
    PROVE  CardInv(i)'
<1>0. heart[n].item = i
  BY DEF OnItem
<1>1. /\ OnItem(i)' = OnItem(i) /\ Session(i)' = Session(i)
      /\ \A m \in OnItem(i) \ {n} : heart'[m] = heart[m]
      /\ heart'[n].item = i /\ heart'[n].epoch = heart[n].epoch
      /\ UNCHANGED <<user, epoch, load>> /\ Last' = Last /\ (Loaded' <=> Loaded)
  BY <1>0, CardRequests
<1>2. /\ ~heart[n].done /\ heart'[n].done
      /\ heart'[n].fate = IF heart[n].fate = "none" THEN "refused" ELSE heart[n].fate
      /\ heart'[n].was = heart[n].was
      /\ heart'[n].early = LoadUnderWay(heart[n].epoch)
  BY HeartAnsweredSteps, HeartAnsweredMarks
<1>3. UnderWay(i, n)
  BY <1>2 DEF CardInv, OneUnderWay, InFlight
<1>4. n \in Session(i) /\ heart[n].epoch = epoch /\ \A m \in OnItem(i) : InFlight(m) => m = n
  BY <1>3 DEF UnderWay, Session
<1>5. \A m \in Session(i) : m # n => heart'[m] = heart[m]
  BY <1>1 DEF Session
<1>6. Quiet(i)'
  BY <1>1, <1>2, <1>4 DEF Quiet, InFlight
<1>7. OneUnderWay(i)'
  BY <1>6 DEF OneUnderWay, Quiet
<1>8. ASSUME Last.pc # "done" PROVE BeforeLoad(i) /\ heart'[n].early
  <2>1. LoadUnderWay(heart[n].epoch)
    BY <1>4, <1>8, LastIsLoad DEF LoadUnderWay, Last
  <2> QED
    BY <1>2, <1>8, <2>1 DEF CardInv
<1>9. server' = server
  BY DEF HeartAnswered
<1>10. CASE heart[n].fate = "ok"
  <2>1. heart'[n].fate = "ok" /\ UNCHANGED <<saved, gen>>
    BY <1>2, <1>10 DEF HeartAnswered
  <2>2. Settled(i)'
    BY <1>1, <1>3, <1>9, <1>10, <2>1 DEF Settled, UnderWay
  <2>3. ASSUME Last.pc # "done" PROVE BeforeLoad(i)'
    <3>1. BeforeLoad(i) /\ heart'[n].early
      BY <1>8, <2>3
    <3>2. \A m \in Session(i) : heart'[m].fate = heart[m].fate
      BY <1>5, <1>10, <2>1
    <3>3. \A m \in Session(i) : heart'[m].done => heart'[m].early
      BY <1>5, <3>1 DEF BeforeLoad
    <3> QED
      BY <1>1, <1>9, <2>1, <3>1, <3>2, <3>3 DEF BeforeLoad
  <2> QED
    BY <1>1, <1>7, <2>2, <2>3 DEF CardInv
<1>11. CASE heart[n].fate = "none"
  <2>1. heart'[n].fate = "refused"
    BY <1>2, <1>11
  <2>2. Current(heart[n])
    BY <1>0, <1>3, <1>4 DEF Current, UnderWay
  <2>3. /\ saved' = IF heart[n].was THEN saved \cup {i} ELSE saved \ {i}
        /\ gen' = [gen EXCEPT ![i] = 0]
    BY <1>0, <1>11, <2>2 DEF HeartAnswered
  <2>4. (i \in saved' <=> heart[n].was) /\ gen'[i] = 0
    BY <2>3 DEF TypeOK
  <2>5. Sure(i)' => Sure(i)
    BY <1>1, <1>5, <2>1 DEF Sure
  <2>6. Settled(i)'
    BY <1>1, <1>3, <1>9, <1>11, <2>4, <2>5 DEF Settled, UnderWay
  <2>7. ASSUME Last.pc # "done" PROVE BeforeLoad(i)'
    <3>1. BeforeLoad(i) /\ heart'[n].early
      BY <1>8, <2>7
    <3>2. ~Unguards(n)'
      BY <1>1, <1>2, <1>4 DEF Calm
    <3>3. \A m \in Session(i) : m = n
      <4> SUFFICES ASSUME NEW m \in Session(i), m # n PROVE FALSE
        OBVIOUS
      <4>1. m \in OnItem(i)' /\ heart'[m].epoch = heart'[n].epoch
        BY <1>1, <1>4, <1>5 DEF Session
      <4>2. m \in OnItem(heart[n].item)'
        BY <1>1, <4>1
      <4> QED
        BY <2>1, <3>1, <3>2, <4>1, <4>2 DEF Unguards
    <3>4. Last.pc = "read" => (i \in Last.ids <=> i \in server[user])
      BY <1>11, <3>1, <3>3 DEF BeforeLoad
    <3> QED
      BY <1>1, <1>4, <1>9, <2>1, <2>4, <3>1, <3>3, <3>4 DEF BeforeLoad
  <2> QED
    BY <1>1, <1>7, <2>6, <2>7 DEF CardInv
<1> QED
  BY <1>3, <1>10, <1>11 DEF UnderWay

(* A request on another card.                                              *)
LEMMA CardAside ==
    ASSUME TypeOK, NEW n \in Made, HeartServed(n) \/ HeartAnswered(n),
           NEW i \in Items, n \notin OnItem(i), user \in Accounts, CardInv(i)
    PROVE  CardInv(i)'
<1>1. heart[n].item # i /\ heart[n].item \in Items
  BY HeartsRecords DEF OnItem, Heart
<1>2. /\ OnItem(i)' = OnItem(i) /\ \A m \in OnItem(i) \ {n} : heart'[m] = heart[m]
      /\ UNCHANGED <<user, epoch>> /\ Last' = Last /\ (Loaded' <=> Loaded)
  BY CardRequests
<1>3. Untouched(i)
  BY <1>2 DEF Untouched
<1>4. gen'[i] = gen[i]
  BY <1>1 DEF HeartServed, HeartAnswered, page, TypeOK
<1>5. i \in saved' <=> i \in saved
  BY <1>1 DEF HeartServed, HeartAnswered, page
<1>6. i \in server'[user] <=> i \in server[user]
  BY <1>1 DEF HeartServed, HeartAnswered, TypeOK
<1> QED
  BY <1>2, <1>3, <1>4, <1>5, <1>6, CardFrame

LEMMA CardClickAside ==
    ASSUME TypeOK, NEW j \in Items, Click(j), NEW i \in Items, i # j, Calm(i)', CardInv(i)
    PROVE  CardInv(i)'
<1>0. PICK c : c = Len(heart) + 1
  OBVIOUS
<1>1. /\ Made' = Made \cup {c} /\ heart'[c].item = j /\ \A n \in Made : Kept(n)
  BY <1>0, ClickSteps
<1>2. OnItem(i)' = OnItem(i) /\ \A n \in OnItem(i) : n \in Made
  BY <1>1 DEF OnItem, Kept
<1>3. \A n \in OnItem(i) : ~heart'[n].crossed
  BY <1>2 DEF Calm
<1>4. Untouched(i)
  BY <1>2, <1>3, ClickMarks DEF Untouched
<1>5. UNCHANGED <<user, epoch, load, server>>
  BY DEF Click
<1>6. gen'[i] = gen[i] /\ (i \in saved' <=> i \in saved)
  BY DEF Click, TypeOK
<1> QED
  BY <1>4, <1>5, <1>6, CardFrame DEF Last, Loaded

PageInv == SessionInv /\ LoadsInv /\ FatesInv /\ CardsInv

LEMMA CardStep ==
    ASSUME TypeOK, EpochInv, PageInv, [Next]_vars, InSession', NEW i \in Items, Calm(i)'
    PROVE  CardInv(i)'
<1> USE DEF page
<1>1. ASSUME NEW a \in Accounts, SignIn(a) PROVE CardInv(i)'
  BY <1>1, CardSignIn
<1>2. CASE \A a \in Accounts : ~SignIn(a)
  <2>1. InSession
    BY <1>2, SessionStays
  <2>2. /\ cookie = user /\ Begun # {} /\ Last.epoch = epoch /\ Last.acct = user
        /\ user \in Accounts
    BY <2>1 DEF PageInv, SessionInv, InSession, TypeOK
  <2>3. Calm(i)
    BY CalmBefore
  <2>4. CardInv(i)
    BY <2>1, <2>3 DEF PageInv, CardsInv
  <2>5. ASSUME NEW k \in Begun, LoadServed(k) \/ LoadRejected(k) \/ LoadArrives(k)
        PROVE  CardInv(i)'
    BY <2>2, <2>3, <2>4, <2>5, CardOldLoad, CardLoadServed, CardLoadArrives DEF PageInv
  <2>6. ASSUME NEW j \in Items, Click(j) PROVE CardInv(i)'
    BY <2>1, <2>2, <2>3, <2>4, <2>6, CardClick, CardClickAside
  <2>7. ASSUME NEW n \in Made, HeartServed(n) PROVE CardInv(i)'
    BY <2>2, <2>3, <2>4, <2>7, CardServed, CardAside
  <2>8. ASSUME NEW n \in Made, HeartAnswered(n) PROVE CardInv(i)'
    BY <2>2, <2>3, <2>4, <2>8, CardAnswered, CardAside
  <2>9. CASE UNCHANGED vars
    BY <2>4, <2>9, CardFrame DEF vars, Untouched, OnItem, Made, Last, Loaded
  <2>10. ~Logout /\ ~LogoutServed /\ ~LogoutReply /\ ~DeleteAccount
    BY <2>1 DEF Logout, LogoutServed, LogoutReply, DeleteAccount, InSession
  <2> QED
    BY <1>2, <2>5, <2>6, <2>7, <2>8, <2>9, <2>10 DEF Next
<1> QED
  BY <1>1, <1>2

LEMMA PageInit == Init => PageInv
<1> SUFFICES ASSUME Init PROVE PageInv
  OBVIOUS
<1>1. Made = {} /\ Begun = {} /\ user = None
  BY DEF Init, Made, Begun
<1> QED
  BY <1>1 DEF PageInv, SessionInv, LoadsInv, FatesInv, CardsInv, InSession

LEMMA PageStep == TypeOK /\ EpochInv /\ PageInv /\ [Next]_vars => PageInv'
<1> SUFFICES ASSUME TypeOK, EpochInv, PageInv, [Next]_vars PROVE PageInv'
  OBVIOUS
<1>1. SessionInv' /\ LoadsInv' /\ FatesInv'
  BY SessionStep, LoadsStep, FatesStep DEF PageInv
<1>2. CardsInv'
  BY CardStep DEF CardsInv
<1> QED
  BY <1>1, <1>2 DEF PageInv

LEMMA CardsAgree == PageInv => Agreement
<1> SUFFICES ASSUME PageInv, user # None, ~leaving, Loaded,
                    NEW i \in Items, \A n \in OnItem(i) : Undisturbed(n)
             PROVE  i \in saved <=> i \in server[user]
  BY DEF Agreement
<1>1. Calm(i) /\ Quiet(i)
  BY DEF Undisturbed, Calm, Quiet, InFlight
<1>2. Settled(i)
  BY <1>1 DEF PageInv, CardsInv, CardInv, InSession
<1> QED
  BY <1>1, <1>2 DEF Settled, Sure

(* Once its requests are answered the page and the server agree about a    *)
(* card, for any number of accounts, cards, clicks, sign-ins and loads and *)
(* any order of requests and answers, unless one of them was disturbed.    *)
THEOREM PageAgreesWithServer == Spec => []Agreement
<1>1. Init => TypeOK /\ EpochInv /\ PageInv
  BY InitType, InitIInv, PageInit DEF IInv
<1>2. TypeOK /\ EpochInv /\ PageInv /\ [Next]_vars => (TypeOK /\ EpochInv /\ PageInv)'
  BY NextType, EpochStep, PageStep
<1> QED
  BY <1>1, <1>2, CardsAgree, PTL DEF Spec
==============================================================================
