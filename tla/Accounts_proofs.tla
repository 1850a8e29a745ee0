-------------------------- MODULE Accounts_proofs ---------------------------
(***************************************************************************)
(* What is proved about Accounts for every set of users, addresses and     *)
(* clients, and every number of requests in flight.                        *)
(***************************************************************************)
EXTENDS Accounts, FiniteSetTheorems, TLAPS

(* Every column of a flushed row comes from the row or from the target.    *)
LEMMA FlushColumns ==
    ASSUME NEW row \in Row, NEW loaded \in Row, NEW target \in Row
    PROVE  /\ Flush(row, loaded, target) \in Row
           /\ Flush(row, loaded, target).sub =
                IF target.sub = loaded.sub THEN row.sub ELSE target.sub
           /\ Flush(row, loaded, target).pwd =
                IF target.pwd = loaded.pwd THEN row.pwd ELSE target.pwd
           /\ Flush(row, loaded, target).email =
                IF target.email = loaded.email THEN row.email ELSE target.email
           /\ Flush(row, loaded, target).verified =
                IF target.verified = loaded.verified THEN row.verified ELSE target.verified
           /\ Flush(row, loaded, target).tfa =
                IF target.tfa = loaded.tfa THEN row.tfa ELSE target.tfa
<1> DEFINE new == Flush(row, loaded, target)
<1>1. DOMAIN row = {"sub", "pwd", "email", "verified", "pending", "code",
                    "attempts", "tfa", "lcode", "lattempts"}
  BY DEF Row
<1>2. /\ new.sub = IF target.sub = loaded.sub THEN row.sub ELSE target.sub
      /\ new.pwd = IF target.pwd = loaded.pwd THEN row.pwd ELSE target.pwd
      /\ new.email = IF target.email = loaded.email THEN row.email ELSE target.email
      /\ new.verified = IF target.verified = loaded.verified THEN row.verified
                        ELSE target.verified
      /\ new.tfa = IF target.tfa = loaded.tfa THEN row.tfa ELSE target.tfa
  BY <1>1 DEF Flush
<1>3. new \in Row
  BY <1>1 DEF Flush, Row
<1> QED
  BY <1>2, <1>3

(* The step of a handler that leaves the database alone: the request of c  *)
(* becomes r.                                                              *)
LEMMA RequestStep ==
    ASSUME IInv, NEW c \in Clients, NEW r \in Request, RequestOK(r),
           Begin(c, r), UNCHANGED db,
           cookie' \in [Clients -> Cookie], nextCode' \in 1..(MaxCodes + 1),
           mailed' \in [Codes -> Addrs \cup {None}], expired' \subseteq Codes
    PROVE  IInv'
<1>1. req' = [req EXCEPT ![c] = r] /\ req \in [Clients -> Request]
  BY DEF Begin, IInv, TypeOK
<1>2. req' \in [Clients -> Request]
  BY <1>1
<1>3. TypeOK'
  BY <1>2 DEF IInv, TypeOK, db
<1>4. RowsOK'
  BY DEF IInv, RowsOK, db, Live
<1>5. ASSUME NEW d \in Clients PROVE RequestOK(req[d])'
  <2>1. RequestOK(req'[d])
    BY <1>1 DEF IInv, RequestsOK
  <2> QED
    BY <2>1 DEF RequestOK, db, Live
<1> QED
  BY <1>3, <1>4, <1>5 DEF IInv, RequestsOK

LEMMA IdleOK == Idle \in Request /\ RequestOK(Idle)
BY BoundsAssumption DEF Idle, Request, RequestOK, NewRow, Row, Cookie, NoCookie, OpNames,
     Phases, NoCode, Codes

LEMMA Types ==
    ASSUME IInv
    PROVE  /\ \A u \in Users : rows[u] \in Row
           /\ \A c \in Clients : cookie[c] \in Cookie /\ req[c] \in Request
           /\ \A u \in Users : Live(u) => RowOK(rows[u])
           /\ \A c \in Clients : RequestOK(req[c])
BY DEF IInv, TypeOK, RowsOK, RequestsOK, Live

LEMMA Nulls ==
    /\ NoCode \in Codes \cup {NoCode} /\ None \in Addrs \cup {None}
    /\ None \in Users \cup {None} /\ 0 \in 0..MaxAttempts
    /\ TRUE \in BOOLEAN /\ FALSE \in BOOLEAN
BY BoundsAssumption

(* A request on a row as it is now, with a change the handler makes.       *)
LEMMA LoadedOK ==
    ASSUME IInv, NEW c \in Clients, NEW u \in Users, Live(u),
           NEW op \in OpNames, NEW pc \in Phases \ {"idle", "insert"}, NEW t \in Row,
           Change(rows[u], t),
           op = "verify" /\ pc = "probe" => rows[u].pending # None
    PROVE  Loaded(c, op, pc, u, t) \in Request /\ RequestOK(Loaded(c, op, pc, u, t))
<1> DEFINE r == Loaded(c, op, pc, u, t)
<1>1. r \in Request
  BY Types, Nulls DEF Loaded, Request
<1>2. r.pc = pc /\ r.u = u /\ r.op = op /\ r.snap = rows[u] /\ r.tgt = t
  BY DEF Loaded
<1>3. status[u] # "absent" /\ Later(rows[u], rows[u])
  BY DEF Live, Later
<1> HIDE DEF r
<1>4. RequestOK(r)
  BY <1>2, <1>3 DEF RequestOK
<1> QED
  BY <1>1, <1>4 DEF r

(* RequestOK does not depend on the mail, the judged codes or the reply.   *)
LEMMA Extras ==
    ASSUME NEW r \in Request, RequestOK(r),
           NEW a \in Addrs \cup {None}, NEW k \in Codes \cup {NoCode}, NEW x \in Cookie
    PROVE  /\ [r EXCEPT !.reply = x] \in Request /\ RequestOK([r EXCEPT !.reply = x])
           /\ [r EXCEPT !.addr = a] \in Request /\ RequestOK([r EXCEPT !.addr = a])
           /\ [r EXCEPT !.missed = k] \in Request /\ RequestOK([r EXCEPT !.missed = k])
           /\ [r EXCEPT !.used = k] \in Request /\ RequestOK([r EXCEPT !.used = k])
           /\ [r EXCEPT !.addr = a, !.reply = x] \in Request
           /\ RequestOK([r EXCEPT !.addr = a, !.reply = x])
           /\ [r EXCEPT !.used = k, !.reply = x] \in Request
           /\ RequestOK([r EXCEPT !.used = k, !.reply = x])
<1>1. ASSUME NEW q \in Request, q.op = r.op, q.pc = r.pc, q.u = r.u, q.snap = r.snap,
             q.tgt = r.tgt
      PROVE  RequestOK(q)
  BY <1>1 DEF RequestOK
<1>2. /\ [r EXCEPT !.reply = x] \in Request /\ [r EXCEPT !.addr = a] \in Request
      /\ [r EXCEPT !.missed = k] \in Request /\ [r EXCEPT !.used = k] \in Request
      /\ [r EXCEPT !.addr = a, !.reply = x] \in Request
      /\ [r EXCEPT !.used = k, !.reply = x] \in Request
  BY Zenon DEF Request
<1>3. /\ RequestOK([r EXCEPT !.reply = x]) /\ RequestOK([r EXCEPT !.addr = a])
      /\ RequestOK([r EXCEPT !.missed = k]) /\ RequestOK([r EXCEPT !.used = k])
  BY <1>1, <1>2 DEF Request
<1>4. RequestOK([r EXCEPT !.addr = a, !.reply = x])
  BY <1>1, <1>2 DEF Request
<1>5. RequestOK([r EXCEPT !.used = k, !.reply = x])
  BY <1>1, <1>2 DEF Request
<1> QED
  BY <1>2, <1>3, <1>4, <1>5

(* A step that only moves the request of c.                                *)
LEMMA BeginStep ==
    ASSUME IInv, NEW c \in Clients, NEW r \in Request, RequestOK(r), Begin(c, r),
           UNCHANGED <<db, cookie, mailed, expired>>, nextCode' = nextCode \/ FreshCode
    PROVE  IInv'
<1>1. nextCode' \in 1..(MaxCodes + 1)
  BY BoundsAssumption DEF IInv, TypeOK, FreshCode, Codes
<1> QED
  BY <1>1, RequestStep DEF IInv, TypeOK

LEMMA InsertingStep ==
    ASSUME IInv, NEW c \in Clients, NEW op \in OpNames, NEW t \in Row, RowOK(t),
           t.pwd => ~t.verified, Begin(c, Inserting(c, op, t)), UNCHANGED <<db, cookie, nextCode, mailed, expired>>
    PROVE  IInv'
<1> DEFINE r == Inserting(c, op, t)
<1>1. NewRow \in Row
  BY Nulls DEF NewRow, Row
<1>2. r \in Request
  BY <1>1, Types, Nulls DEF Inserting, Request, Phases
<1>3. r.pc = "insert" /\ r.tgt = t
  BY DEF Inserting
<1> HIDE DEF r
<1>4. RequestOK(r)
  BY <1>3 DEF RequestOK
<1> QED
  BY <1>2, <1>4, BeginStep DEF r

LEMMA DoneStep ==
    ASSUME IInv, NEW c \in Clients, Done(c), UNCHANGED <<db, nextCode, expired>>,
           cookie' \in [Clients -> Cookie], mailed' \in [Codes -> Addrs \cup {None}]
    PROVE  IInv'
BY IdleOK, RequestStep DEF Done, IInv, TypeOK

LEMMA RowChanges ==
    ASSUME NEW row \in Row
    PROVE  /\ Change(row, row)
           /\ ClearCode(row) \in Row /\ Change(row, ClearCode(row))
           /\ ClearLoginCode(row) \in Row /\ Change(row, ClearLoginCode(row))
           /\ \A k \in Codes : /\ StoreCode(row, k) \in Row
                                /\ Change(row, StoreCode(row, k))
                                /\ StoreLoginCode(row, k) \in Row
                                /\ Change(row, StoreLoginCode(row, k))
<1>1. ASSUME NEW k \in Codes \cup {NoCode}, NEW n \in 0..MaxAttempts
      PROVE  /\ [row EXCEPT !.code = k, !.attempts = n] \in Row
             /\ [row EXCEPT !.lcode = k, !.lattempts = n] \in Row
  BY Zenon DEF Row
<1>2. ASSUME NEW k \in Codes \cup {NoCode}, NEW n \in 0..MaxAttempts
      PROVE  /\ Change(row, [row EXCEPT !.code = k, !.attempts = n])
             /\ Change(row, [row EXCEPT !.lcode = k, !.lattempts = n])
  BY DEF Row, Change, Later
<1>3. Change(row, row)
  BY DEF Change, Later
<1> QED
  BY <1>1, <1>2, <1>3, Nulls DEF ClearCode, ClearLoginCode, StoreCode, StoreLoginCode

----------------------------------------------------------------------------
(* The loading steps.                                                      *)

LEMMA RegisterStep ==
    ASSUME IInv, NEW c \in Clients, NEW a \in Addrs, Register(c, a)
    PROVE  IInv'
<1> DEFINE t == [NewRow EXCEPT !.email = a, !.pwd = TRUE]
<1>1. NewRow \in Row
  BY Nulls DEF NewRow, Row
<1>2. t \in Row
  BY <1>1, Zenon DEF Row
<1>3. RowOK(t) /\ (t.pwd => ~t.verified)
  BY NoneAssumption DEF RowOK, NewRow
<1>4. Begin(c, Inserting(c, "register", t)) /\ UNCHANGED <<db, cookie, nextCode, mailed, expired>>
  BY DEF Register
<1> HIDE DEF t
<1> QED
  BY <1>2, <1>3, <1>4, InsertingStep DEF OpNames

LEMMA IssueVerificationStep ==
    ASSUME IInv, NEW c \in Clients, NEW u \in Users, Live(u),
           NEW op \in {"register", "resend"}, NEW reply \in Cookie,
           IssueVerification(c, op, u, reply), UNCHANGED <<db, cookie, mailed, expired>>
    PROVE  IInv'
<1> DEFINE a == CodeTarget(rows[u])
<1>1. rows[u] \in Row /\ a \in Addrs \cup {None} /\ op \in OpNames
  BY Types DEF CodeTarget, Row, OpNames
<1>2. CASE a = None
  <2> DEFINE r == Loaded(c, op, "reply", u, rows[u])
  <2>1. r \in Request /\ RequestOK(r)
    BY <1>1, LoadedOK, RowChanges DEF Phases
  <2>2. Begin(c, [r EXCEPT !.reply = reply]) /\ nextCode' = nextCode
    BY <1>2 DEF IssueVerification
  <2> HIDE DEF r
  <2> QED
    BY <2>1, <2>2, Extras, BeginStep
<1>3. CASE a # None
  <2> DEFINE r == Loaded(c, op, "commit", u, StoreCode(rows[u], nextCode))
  <2>1. FreshCode /\ Begin(c, [r EXCEPT !.addr = a, !.reply = reply])
    BY <1>3 DEF IssueVerification
  <2>2. r \in Request /\ RequestOK(r)
    BY <1>1, <2>1, LoadedOK, RowChanges DEF Phases, FreshCode
  <2> HIDE DEF r, a
  <2>3. /\ [r EXCEPT !.addr = a, !.reply = reply] \in Request
        /\ RequestOK([r EXCEPT !.addr = a, !.reply = reply])
    BY <1>1, <2>2, Extras
  <2> QED
    BY <2>1, <2>3, BeginStep
<1> QED
  BY <1>2, <1>3

LEMMA ResendStep ==
    ASSUME IInv, NEW c \in Clients, NEW u \in Users, Resend(c, u)
    PROVE  IInv'
<1>1. Live(u) /\ IssueVerification(c, "resend", u, cookie[c])
  BY DEF Resend, SessionUser
<1> QED
  BY <1>1, IssueVerificationStep, Types DEF Resend

LEMMA LoginStep ==
    ASSUME IInv, NEW c \in Clients, NEW u \in Users, Login(c, u)
    PROVE  IInv'
<1>1. rows[u] \in Row /\ Live(u) /\ UNCHANGED <<db, cookie, mailed, expired>>
  BY Types DEF Login
<1>2. Challenge(u) \in Cookie /\ Session(u) \in Cookie
  BY DEF Challenge, Session, Cookie
<1>3. CASE rows[u].tfa
  <2> DEFINE r == Loaded(c, "login", "commit", u, StoreLoginCode(rows[u], nextCode))
  <2>1. FreshCode /\ Begin(c, [r EXCEPT !.reply = Challenge(u)])
    BY <1>3 DEF Login
  <2>2. r \in Request /\ RequestOK(r)
    BY <1>1, <2>1, LoadedOK, RowChanges DEF Phases, OpNames, FreshCode
  <2> HIDE DEF r
  <2> QED
    BY <1>1, <1>2, <2>1, <2>2, Extras, BeginStep
<1>4. CASE ~rows[u].tfa
  <2> DEFINE r == Loaded(c, "login", "reply", u, rows[u])
  <2>1. nextCode' = nextCode /\ Begin(c, [r EXCEPT !.reply = Session(u)])
    BY <1>4 DEF Login
  <2>2. r \in Request /\ RequestOK(r)
    BY <1>1, LoadedOK, RowChanges DEF Phases, OpNames
  <2> HIDE DEF r
  <2> QED
    BY <1>1, <1>2, <2>1, <2>2, Extras, BeginStep
<1> QED
  BY <1>3, <1>4

LEMMA LoginTwoFactorStep ==
    ASSUME IInv, NEW c \in Clients, NEW guess, LoginTwoFactor(c, guess)
    PROVE  IInv'
<1> DEFINE u == cookie[c].pend
           row == rows[u]
           missed == [row EXCEPT !.lattempts = @ + 1]
<1>1. /\ u \in Users /\ Live(u) /\ row \in Row
      /\ UNCHANGED <<db, cookie, nextCode, mailed, expired>>
  BY Types DEF LoginTwoFactor, Cookie
<1>2. row.lcode \in Codes \cup {NoCode} /\ row.lattempts + 1 \in 0..MaxAttempts
  <2>1. row.lcode \in Codes \cup {NoCode} /\ row.lattempts \in 0..MaxAttempts
    BY <1>1 DEF Row
  <2>2. row.lattempts < MaxAttempts
    BY DEF LoginTwoFactor, Judges
  <2> QED
    BY <2>1, <2>2, BoundsAssumption
<1>3. Session(u) \in Cookie
  BY <1>1 DEF Session, Cookie
<1>4. CASE guess = "wrong"
  <2> DEFINE r == Loaded(c, "login2fa", "commit", u, missed)
  <2>1. Begin(c, [r EXCEPT !.missed = row.lcode])
    BY <1>4 DEF LoginTwoFactor
  <2>2. missed \in Row
    BY <1>1, <1>2, Zenon DEF Row
  <2>3. Change(row, missed)
    BY <1>1 DEF Row, Change, Later
  <2>4. r \in Request /\ RequestOK(r)
    BY <1>1, <2>2, <2>3, LoadedOK DEF Phases, OpNames
  <2> HIDE DEF r, row, u
  <2>5. [r EXCEPT !.missed = row.lcode] \in Request /\ RequestOK([r EXCEPT !.missed = row.lcode])
    BY <1>2, <2>4, Extras, Types
  <2> QED
    BY <1>1, <2>1, <2>5, BeginStep
<1>5. CASE guess # "wrong"
  <2> DEFINE r == Loaded(c, "login2fa", "commit", u, ClearLoginCode(row))
  <2>1. Begin(c, [r EXCEPT !.used = row.lcode, !.reply = Session(u)])
    BY <1>5 DEF LoginTwoFactor
  <2>2. r \in Request /\ RequestOK(r)
    BY <1>1, RowChanges, LoadedOK DEF Phases, OpNames
  <2> HIDE DEF r, row, u
  <2>3. /\ [r EXCEPT !.used = row.lcode, !.reply = Session(u)] \in Request
        /\ RequestOK([r EXCEPT !.used = row.lcode, !.reply = Session(u)])
    BY <1>2, <1>3, <2>2, Extras
  <2> QED
    BY <1>1, <2>1, <2>3, BeginStep
<1> QED
  BY <1>4, <1>5

LEMMA VerifyStep ==
    ASSUME IInv, NEW c \in Clients, NEW u \in Users, NEW guess, Verify(c, u, guess)
    PROVE  IInv'
<1> DEFINE row == rows[u]
           missed == [row EXCEPT !.attempts = @ + 1]
           proved == [row EXCEPT !.verified = TRUE]
           confirmed == ClearCode(proved)
<1>1. Live(u) /\ row \in Row /\ UNCHANGED <<db, cookie, nextCode, mailed, expired>>
  BY Types DEF Verify, SessionUser
<1>2. row.code \in Codes \cup {NoCode} /\ row.attempts + 1 \in 0..MaxAttempts
  BY <1>1, BoundsAssumption DEF Verify, Judges, Row
<1>3. CASE guess = "wrong"
  <2> DEFINE r == Loaded(c, "verify", "commit", u, missed)
  <2>1. Begin(c, [r EXCEPT !.missed = row.code])
    BY <1>3 DEF Verify
  <2>2. missed \in Row
    BY <1>1, <1>2, Zenon DEF Row
  <2>3. Change(row, missed)
    BY <1>1 DEF Row, Change, Later
  <2>4. r \in Request /\ RequestOK(r)
    BY <1>1, <2>2, <2>3, LoadedOK DEF Phases, OpNames
  <2> HIDE DEF r, row
  <2>5. [r EXCEPT !.missed = row.code] \in Request /\ RequestOK([r EXCEPT !.missed = row.code])
    BY <1>2, <2>4, Extras, Types
  <2> QED
    BY <1>1, <2>1, <2>5, BeginStep
<1>4. CASE guess # "wrong"
  <2> DEFINE r == IF row.pending = None THEN Loaded(c, "verify", "commit", u, confirmed)
                  ELSE Loaded(c, "verify", "probe", u, row)
  <2>1. Begin(c, [r EXCEPT !.used = row.code])
    BY <1>4 DEF Verify
  <2>2. proved \in Row
    BY <1>1, Nulls, Zenon DEF Row
  <2>3. confirmed \in Row
    BY <2>2, RowChanges
  <2>4. Change(row, confirmed)
    BY <1>1 DEF Row, Change, Later, ClearCode
  <2>5. r \in Request /\ RequestOK(r)
    <3> HIDE DEF confirmed
    <3> QED
      BY <1>1, <2>3, <2>4, RowChanges, LoadedOK DEF Phases, OpNames
  <2> HIDE DEF r, row
  <2>6. [r EXCEPT !.used = row.code] \in Request /\ RequestOK([r EXCEPT !.used = row.code])
    BY <1>2, <2>5, Extras, Types
  <2> QED
    BY <1>1, <2>1, <2>6, BeginStep
<1> QED
  BY <1>3, <1>4

LEMMA PatchStep ==
    ASSUME IInv, NEW c \in Clients, NEW u \in Users, NEW a \in Addrs \cup {None},
           NEW t \in {"on", "off", "omit"}, Patch(c, u, a, t)
    PROVE  IInv'
<1> DEFINE row == rows[u]
           changing == a # None /\ a # row.email
           toggling == t # "omit" /\ (t = "on") # row.tfa
           turned == [row EXCEPT !.tfa = (t = "on")]
           toggled == IF toggling THEN ClearLoginCode(turned) ELSE row
           dropped == [toggled EXCEPT !.pending = None]
           kept == IF a # None /\ row.pending # None THEN ClearCode(dropped) ELSE toggled
           probing == Loaded(c, "patch", "probe", u, toggled)
           committing == Loaded(c, "patch", "commit", u, kept)
<1>1. Live(u) /\ row \in Row /\ UNCHANGED <<db, cookie, nextCode, mailed, expired>>
  BY Types DEF Patch, SessionUser
<1>2. toggling => (t = "on" => row.verified)
  BY DEF Patch, ToggleAllowed
<1>3. toggled \in Row /\ Change(row, toggled)
  <2>1. turned \in Row
    BY <1>1, Zenon DEF Row
  <2>2. toggled \in Row
    BY <1>1, <2>1, RowChanges
  <2>3. ASSUME toggling PROVE Change(row, toggled)
    <3>1. /\ toggled.sub = row.sub /\ toggled.pwd = row.pwd /\ toggled.email = row.email
          /\ toggled.verified = row.verified /\ (toggled.tfa => t = "on")
      BY <1>1, <2>3 DEF Row, ClearLoginCode
    <3> QED
      BY <1>2, <2>3, <3>1 DEF Change, Later
  <2> QED
    BY <1>1, <2>2, <2>3, RowChanges
<1> HIDE DEF toggled
<1>4. kept \in Row /\ Change(row, kept)
  <2>1. dropped \in Row
    BY <1>3, Nulls, Zenon DEF Row
  <2>2. kept \in Row
    BY <1>3, <2>1, RowChanges
  <2>3. Change(row, ClearCode(dropped))
    BY <1>3 DEF Row, Change, Later, ClearCode
  <2> QED
    BY <1>3, <2>2, <2>3
<1>5. Begin(c, IF changing THEN [probing EXCEPT !.addr = a] ELSE committing)
  BY DEF Patch, toggled
<1> HIDE DEF kept
<1>6. /\ probing \in Request /\ RequestOK(probing)
      /\ committing \in Request /\ RequestOK(committing)
  BY <1>1, <1>3, <1>4, LoadedOK DEF Phases, OpNames
<1> HIDE DEF row, changing, probing, committing
<1>7. [probing EXCEPT !.addr = a] \in Request /\ RequestOK([probing EXCEPT !.addr = a])
  BY <1>6, Extras, Types
<1> QED
  BY <1>1, <1>5, <1>6, <1>7, BeginStep

LEMMA CallbackStep ==
    ASSUME IInv, NEW c \in Clients, NEW s \in Subs, NEW a \in Addrs \cup {None},
           Callback(c, s, a)
    PROVE  IInv'
<1>1. UNCHANGED <<db, cookie, nextCode, mailed, expired>>
  BY DEF Callback
<1>2. ASSUME NEW row \in Row
      PROVE  /\ SignedIn(row, s, a) \in Row
             /\ SignedIn(row, s, a).sub = s /\ SignedIn(row, s, a).pwd = row.pwd
             /\ SignedIn(row, s, a).tfa = row.tfa
             /\ row.verified => SignedIn(row, s, a).verified
             /\ SignedIn(row, s, a).email = IF a = None THEN row.email ELSE a
             /\ a # None => SignedIn(row, s, a).verified
  <2>1. [row EXCEPT !.sub = s] \in Row /\ [row EXCEPT !.sub = s, !.email = a, !.verified = TRUE] \in Row
    BY Nulls, Zenon DEF Row
  <2> QED
    BY <2>1 DEF SignedIn, Row
<1>3. ASSUME NEW row \in Row
      PROVE  Linked(row) \in Row /\ ~Linked(row).pwd /\ Linked(row).sub = row.sub
             /\ Linked(row).email = row.email /\ Linked(row).verified = row.verified
             /\ (Linked(row).tfa => row.tfa)
  <2>1. [row EXCEPT !.pwd = FALSE, !.tfa = FALSE] \in Row
    BY Nulls, Zenon DEF Row
  <2>2. Linked(row) \in Row
    BY <2>1, RowChanges DEF Linked
  <2> QED
    BY <2>2 DEF Linked, ClearLoginCode, Row
<1>4. ASSUME NEW u \in Users, Live(u), NEW row \in Row, Change(rows[u], SignedIn(row, s, a)),
             Begin(c, [Loaded(c, "callback", "commit", u, SignedIn(row, s, a))
                         EXCEPT !.reply.uid = u])
      PROVE  IInv'
  <2> DEFINE r == Loaded(c, "callback", "commit", u, SignedIn(row, s, a))
  <2>1. r \in Request /\ RequestOK(r)
    BY <1>2, <1>4, LoadedOK DEF OpNames, Phases
  <2>2. [r.reply EXCEPT !.uid = u] \in Cookie
    BY <2>1 DEF Request, Cookie
  <2>3. Begin(c, [r EXCEPT !.reply = [r.reply EXCEPT !.uid = u]])
    BY <1>4
  <2> HIDE DEF r
  <2> QED
    BY <1>1, <2>1, <2>2, <2>3, Extras, BeginStep
<1>5. CASE \E u \in Users : /\ Live(u) /\ rows[u].sub = s
                            /\ Begin(c, [Loaded(c, "callback", "commit", u, SignedIn(rows[u], s, a))
                                            EXCEPT !.reply.uid = u])
  <2>1. PICK u \in Users : /\ Live(u) /\ rows[u].sub = s
                            /\ Begin(c, [Loaded(c, "callback", "commit", u, SignedIn(rows[u], s, a))
                                            EXCEPT !.reply.uid = u])
    BY <1>5
  <2>2. rows[u] \in Row
    BY Types
  <2>3. Change(rows[u], SignedIn(rows[u], s, a))
    BY <1>2, <2>1, <2>2 DEF Change, Later
  <2> QED
    BY <1>4, <2>1, <2>2, <2>3
<1>6. CASE \E u \in Users : /\ Live(u) /\ {v \in Users : Live(v) /\ rows[v].sub = s} = {}
                            /\ Begin(c, [Loaded(c, "callback", "commit", u,
                                                 SignedIn(Linked(rows[u]), s, a))
                                            EXCEPT !.reply.uid = u])
  <2>1. PICK u \in Users : /\ Live(u) /\ {v \in Users : Live(v) /\ rows[v].sub = s} = {}
                            /\ Begin(c, [Loaded(c, "callback", "commit", u,
                                                 SignedIn(Linked(rows[u]), s, a))
                                            EXCEPT !.reply.uid = u])
    BY <1>6
  <2>2. rows[u] \in Row /\ rows[u].sub # s
    BY <2>1, Types
  <2>3. Linked(rows[u]) \in Row
    BY <1>3, <2>2
  <2>4. Change(rows[u], SignedIn(Linked(rows[u]), s, a))
    BY <1>2, <1>3, <2>2, <2>3, NoneAssumption DEF Change, Later
  <2> QED
    BY <1>4, <2>1, <2>3, <2>4
<1>7. CASE Begin(c, Inserting(c, "callback", SignedIn(NewRow, s, a)))
  <2>1. NewRow \in Row
    BY Nulls DEF NewRow, Row
  <2>2. RowOK(SignedIn(NewRow, s, a)) /\ ~SignedIn(NewRow, s, a).pwd
    BY <1>2, <2>1, NoneAssumption DEF RowOK, NewRow
  <2> QED
    BY <1>1, <1>2, <1>7, <2>1, <2>2, InsertingStep DEF OpNames
<1> QED
  BY <1>5, <1>6, <1>7 DEF Callback

LEMMA DeleteMeStep ==
    ASSUME IInv, NEW c \in Clients, NEW u \in Users, DeleteMe(c, u)
    PROVE  IInv'
<1> DEFINE r == Loaded(c, "delete", "commit", u, rows[u])
<1>1. r \in Request /\ RequestOK(r)
  BY Types, RowChanges, LoadedOK DEF DeleteMe, SessionUser, OpNames, Phases
<1>2. Begin(c, [r EXCEPT !.reply = NoCookie])
  BY DEF DeleteMe
<1>3. NoCookie \in Cookie
  BY DEF NoCookie, Cookie
<1> HIDE DEF r
<1> QED
  BY <1>1, <1>2, <1>3, Extras, BeginStep DEF DeleteMe

----------------------------------------------------------------------------
(* The later steps.                                                        *)

LEMMA IssueStep ==
    ASSUME IInv, NEW c \in Clients, Issue(c)
    PROVE  IInv'
<1> DEFINE u == req[c].u
<1>1. u \in Users /\ req[c].reply \in Cookie
  BY Types DEF Issue, RequestOK, Request
<1>2. CASE Live(u)
  BY <1>1, <1>2, IssueVerificationStep DEF Issue
<1>3. CASE ~Live(u)
  BY <1>3, IdleOK, BeginStep DEF Issue, Done
<1> QED
  BY <1>2, <1>3

LEMMA ProbeVerifyStep ==
    ASSUME IInv, NEW c \in Clients, ProbeVerify(c)
    PROVE  IInv'
<1> DEFINE r == req[c]
           row == r.snap
           unset == [row EXCEPT !.pending = None]
           moved == [row EXCEPT !.email = row.pending, !.pending = None, !.verified = TRUE]
           t == IF EmailTaken(r.u, row.pending) THEN ClearCode(unset) ELSE ClearCode(moved)
           q == [r EXCEPT !.pc = "commit", !.tgt = t]
<1>1. Begin(c, q) /\ UNCHANGED <<db, cookie, nextCode, mailed, expired>>
  BY DEF ProbeVerify, Begin
<1>2. /\ r \in Request /\ RequestOK(r) /\ r.pc = "probe" /\ row \in Row
      /\ row.pending \in Addrs \cup {None} /\ row.pending # None
  <2>1. r \in Request /\ RequestOK(r) /\ r.pc = "probe" /\ r.op = "verify"
    BY Types DEF ProbeVerify
  <2> QED
    BY <2>1 DEF Request, RequestOK, Row
<1>3. t \in Row
  <2>1. unset \in Row /\ moved \in Row
    BY <1>2, Nulls, Zenon DEF Row
  <2> QED
    BY <2>1, RowChanges
<1>4. Change(row, t)
  <2>1. Change(row, ClearCode(unset))
    BY <1>2 DEF Row, Change, Later, ClearCode
  <2>2. Change(row, ClearCode(moved))
    <3>1. /\ ClearCode(moved).sub = row.sub /\ ClearCode(moved).pwd = row.pwd
          /\ ClearCode(moved).verified /\ ClearCode(moved).tfa = row.tfa
          /\ ClearCode(moved).email = row.pending
      BY <1>2 DEF Row, ClearCode
    <3> QED
      BY <1>2, <3>1 DEF Change, Later
  <2> QED
    BY <2>1, <2>2
<1> HIDE DEF t
<1>5. q \in Request
  <2>1. "commit" \in Phases
    BY DEF Phases
  <2> QED
    BY <1>2, <1>3, <2>1, Zenon DEF Request
<1>6. RequestOK(q)
  <2>1. q.pc = "commit" /\ q.u = r.u /\ q.snap = row /\ q.tgt = t
    BY <1>2 DEF Request
  <2> HIDE DEF q
  <2> QED
    BY <1>2, <1>4, <2>1 DEF RequestOK
<1> HIDE DEF q
<1> QED
  BY <1>1, <1>5, <1>6, BeginStep

LEMMA ProbePatchStep ==
    ASSUME IInv, NEW c \in Clients, ProbePatch(c)
    PROVE  IInv'
<1> DEFINE r == req[c]
           wanted == [r.tgt EXCEPT !.pending = r.addr]
           t == StoreCode(wanted, nextCode)
           q == [r EXCEPT !.pc = "commit", !.tgt = t]
<1>1. CASE EmailTaken(r.u, r.addr)
  BY <1>1, IdleOK, BeginStep DEF ProbePatch, Done
<1>2. CASE ~EmailTaken(r.u, r.addr)
  <2>1. /\ FreshCode /\ UNCHANGED <<db, cookie, mailed, expired>>
        /\ Begin(c, q)
    BY <1>2 DEF ProbePatch, Begin
  <2>2. /\ r \in Request /\ RequestOK(r) /\ r.pc = "probe" /\ r.tgt \in Row /\ r.snap \in Row
        /\ r.addr \in Addrs \cup {None}
    BY Types DEF ProbePatch, Request
  <2>3. t \in Row
    <3>1. wanted \in Row
      BY <2>2, Zenon DEF Row
    <3> QED
      BY <2>1, <3>1, RowChanges DEF FreshCode
  <2>4. Change(r.snap, t)
    <3>1. /\ t.sub = r.tgt.sub /\ t.pwd = r.tgt.pwd /\ t.email = r.tgt.email
          /\ t.verified = r.tgt.verified /\ t.tfa = r.tgt.tfa
      BY <2>2 DEF Row, StoreCode
    <3>2. Change(r.snap, r.tgt)
      BY <2>2 DEF RequestOK
    <3> QED
      BY <3>1, <3>2 DEF Change, Later
  <2> HIDE DEF t
  <2>5. q \in Request
    <3>1. "commit" \in Phases
      BY DEF Phases
    <3> QED
      BY <2>2, <2>3, <3>1, Zenon DEF Request
  <2>6. RequestOK(q)
    <3>1. q.pc = "commit" /\ q.u = r.u /\ q.snap = r.snap /\ q.tgt = t
      BY <2>2 DEF Request
    <3> HIDE DEF q
    <3> QED
      BY <2>2, <2>4, <3>1 DEF RequestOK
  <2> HIDE DEF q
  <2> QED
    BY <2>1, <2>5, <2>6, BeginStep
<1> QED
  BY <1>1, <1>2

LEMMA ReplyStep ==
    ASSUME IInv, NEW c \in Clients, Reply(c)
    PROVE  IInv'
<1>1. cookie' \in [Clients -> Cookie]
  BY Types DEF Reply, Replies, Request, IInv, TypeOK
<1> QED
  BY <1>1, DoneStep DEF Reply, IInv, TypeOK

LEMMA MailStep ==
    ASSUME IInv, NEW c \in Clients, Mail(c)
    PROVE  IInv'
<1>1. req[c] \in Request /\ RequestOK(req[c]) /\ cookie \in [Clients -> Cookie]
  BY Types DEF IInv, TypeOK
<1>2. cookie' \in [Clients -> Cookie]
  BY <1>1 DEF Mail, Replies, Request
<1>3. req[c].u \in Users /\ req[c].addr \in Addrs \cup {None}
  BY <1>1 DEF Mail, RequestOK, Request
<1>4. rows[req[c].u].email \in Addrs \cup {None}
  BY <1>3, Types DEF Row
<1>5. mailed' \in [Codes -> Addrs \cup {None}]
  BY <1>3, <1>4 DEF Mail, IInv, TypeOK
<1> QED
  BY <1>2, <1>5, DoneStep DEF Mail, IInv, TypeOK

(* The heart of the argument: a change decided on an earlier version of a  *)
(* row is right on top of any later version.                               *)
LEMMA FlushOK ==
    ASSUME NEW row \in Row, NEW loaded \in Row, NEW target \in Row,
           RowOK(row), Later(loaded, row), Change(loaded, target)
    PROVE  /\ Flush(row, loaded, target) \in Row
           /\ RowOK(Flush(row, loaded, target))
           /\ Change(row, Flush(row, loaded, target))
<1> DEFINE new == Flush(row, loaded, target)
<1>1. /\ new \in Row
      /\ new.sub = IF target.sub = loaded.sub THEN row.sub ELSE target.sub
      /\ new.pwd = IF target.pwd = loaded.pwd THEN row.pwd ELSE target.pwd
      /\ new.email = IF target.email = loaded.email THEN row.email ELSE target.email
      /\ new.verified = IF target.verified = loaded.verified THEN row.verified
                        ELSE target.verified
      /\ new.tfa = IF target.tfa = loaded.tfa THEN row.tfa ELSE target.tfa
  BY FlushColumns
<1>2. /\ row.pwd \in BOOLEAN /\ row.verified \in BOOLEAN /\ row.tfa \in BOOLEAN
      /\ loaded.pwd \in BOOLEAN /\ loaded.verified \in BOOLEAN /\ loaded.tfa \in BOOLEAN
      /\ target.pwd \in BOOLEAN /\ target.verified \in BOOLEAN /\ target.tfa \in BOOLEAN
  BY DEF Row
<1> HIDE DEF new
<1>3. Later(row, new)
  BY <1>1, <1>2 DEF Later, Change
<1>4. RowOK(new)
  <2>1. new.pwd <=> new.sub = None
    BY <1>1, <1>2 DEF Change, Later, RowOK
  <2>2. new.tfa => new.verified
    BY <1>1, <1>2, <1>3 DEF Change, Later, RowOK
  <2>3. new.sub = None => new.email # None
    BY <1>1, <1>2 DEF Change, Later, RowOK
  <2> QED
    BY <2>1, <2>2, <2>3 DEF RowOK
<1>5. Change(row, new)
  BY <1>1, <1>2, <1>3 DEF Change, Later, RowOK
<1> QED
  BY <1>1, <1>4, <1>5 DEF new

LEMMA CommitStep ==
    ASSUME IInv, NEW c \in Clients, Commit(c)
    PROVE  IInv'
<1> DEFINE r == req[c]
           u == r.u
           row == Flush(rows[u], r.snap, r.tgt)
<1>1. /\ r \in Request /\ RequestOK(r) /\ r.pc = "commit" /\ Live(u)
      /\ rows' = [rows EXCEPT ![u] = row] /\ UNCHANGED <<status, nextCode, mailed, expired>>
      /\ req' = [req EXCEPT ![c] = Idle] \/ req' = [req EXCEPT ![c].pc = "mail"]
  BY Types DEF Commit, Updates, Done, Begin
<1>2. u \in Users /\ Change(r.snap, r.tgt) /\ Later(r.snap, rows[u])
  BY <1>1 DEF RequestOK
<1>3. row \in Row /\ RowOK(row) /\ Later(rows[u], row)
  <2>1. rows[u] \in Row /\ RowOK(rows[u]) /\ r.snap \in Row /\ r.tgt \in Row
    BY <1>1, <1>2, Types DEF Request
  <2> QED
    BY <1>2, <2>1, FlushOK DEF Change
<1> HIDE DEF row
<1>4. TypeOK'
  <2>1. rows' \in [Users -> Row]
    BY <1>1, <1>3 DEF IInv, TypeOK
  <2>2. req' \in [Clients -> Request]
    <3>1. [r EXCEPT !.pc = "mail"] \in Request
      BY <1>1, Zenon DEF Request, Phases
    <3> QED
      BY <1>1, <3>1, IdleOK DEF IInv, TypeOK
  <2>3. cookie' \in [Clients -> Cookie]
    <3>1. cookie' = cookie \/ cookie' = [cookie EXCEPT ![c] = r.reply]
      BY DEF Commit, Replies
    <3> QED
      BY <1>1, <3>1 DEF IInv, TypeOK, Request
  <2>4. proven' \in [Users -> SUBSET Addrs]
    <3>1. r.used # NoCode => mailed[r.used] \in Addrs \cup {None}
      BY <1>1 DEF IInv, TypeOK, Request
    <3>2. Evidence(r, row) \subseteq Addrs
      BY <1>3, <3>1 DEF Evidence, Row
    <3>3. proven' = [proven EXCEPT ![u] = @ \cup Evidence(r, row)]
      BY DEF Commit, row
    <3> QED
      BY <1>2, <3>2, <3>3 DEF IInv, TypeOK
  <2>5. misses' \in [Codes -> 0..(MaxAttempts + 1)]
    <3>1. misses' = Bump(misses, r.missed, MaxAttempts + 1)
      BY DEF Commit
    <3> QED
      BY <1>1, <3>1, BoundsAssumption DEF IInv, TypeOK, Bump, Request
  <2>6. uses' \in [Codes -> 0..2]
    <3>1. uses' = Bump(uses, r.used, 2)
      BY DEF Commit
    <3> QED
      BY <1>1, <3>1 DEF IInv, TypeOK, Bump, Request
  <2> QED
    BY <1>1, <2>1, <2>2, <2>3, <2>4, <2>5, <2>6 DEF IInv, TypeOK
<1>5. RowsOK'
  BY <1>1, <1>3 DEF IInv, TypeOK, RowsOK, Live
<1>6. ASSUME NEW d \in Clients PROVE RequestOK(req[d])'
  <2>1. CASE d = c
    <3>1. req'[d].pc \in {"idle", "mail"} /\ (req'[d].pc = "mail" => req'[d].u = u)
      BY <1>1, <2>1 DEF IInv, TypeOK, Idle, Request
    <3> QED
      BY <1>1, <1>2, <3>1 DEF RequestOK, Live
  <2>2. CASE d # c
    <3>1. req'[d] = req[d] /\ RequestOK(req[d])
      BY <1>1, <2>2, Types DEF IInv, TypeOK
    <3>2. \A v \in Users : v # u => rows'[v] = rows[v]
      BY <1>1 DEF IInv, TypeOK
    <3>3. \A x : Later(x, rows[u]) => Later(x, rows'[u])
      BY <1>1, <1>2, <1>3 DEF IInv, TypeOK, Later
    <3> QED
      BY <1>1, <3>1, <3>2, <3>3 DEF RequestOK, Live
  <2> QED
    BY <2>1, <2>2
<1> QED
  BY <1>4, <1>5, <1>6 DEF IInv, RequestsOK

LEMMA InsertStep ==
    ASSUME IInv, NEW c \in Clients, NEW u \in Users, Insert(c, u)
    PROVE  IInv'
<1> DEFINE r == req[c]
           signed == [r.reply EXCEPT !.uid = u]
           next == [Idle EXCEPT !.op = "register", !.pc = "issue", !.u = u, !.reply = signed]
<1>1. /\ r \in Request /\ r.tgt \in Row /\ RowOK(r.tgt) /\ status[u] = "absent"
      /\ status' = [status EXCEPT ![u] = "live"] /\ rows' = [rows EXCEPT ![u] = r.tgt]
      /\ UNCHANGED <<misses, uses, nextCode, mailed, expired>>
      /\ req' = [req EXCEPT ![c] = Idle] \/ req' = [req EXCEPT ![c] = next]
      /\ cookie' = cookie \/ cookie' = [cookie EXCEPT ![c] = signed]
  BY Types DEF Insert, Replies, Done, Begin, Request, RequestOK
<1>2. signed \in Cookie
  BY <1>1, Zenon DEF Request, Cookie
<1> HIDE DEF signed
<1>3. next \in Request
  BY <1>2, IdleOK, Zenon DEF Request, OpNames, Phases
<1>4. next.pc = "issue" /\ next.u = u
  BY DEF Idle
<1> HIDE DEF next
<1>5. TypeOK'
  <2>1. proven' \in [Users -> SUBSET Addrs]
    <3>1. r.tgt.email \in Addrs \cup {None}
      BY <1>1 DEF Row
    <3>2. proven' = [proven EXCEPT ![u] = IF r.tgt.verified THEN {r.tgt.email} \ {None} ELSE {}]
      BY DEF Insert
    <3> QED
      BY <3>1, <3>2 DEF IInv, TypeOK
  <2> QED
    BY <1>1, <1>2, <1>3, <2>1, IdleOK DEF IInv, TypeOK
<1>6. RowsOK'
  BY <1>1 DEF IInv, TypeOK, RowsOK, Live
<1>7. ASSUME NEW d \in Clients PROVE RequestOK(req[d])'
  <2>1. CASE d = c
    <3>1. req'[d] = Idle \/ req'[d] = next
      BY <1>1, <2>1 DEF IInv, TypeOK
    <3>2. Idle.pc = "idle"
      BY DEF Idle
    <3> QED
      BY <1>1, <1>4, <3>1, <3>2 DEF RequestOK, IInv, TypeOK
  <2>2. CASE d # c
    <3>1. req'[d] = req[d] /\ RequestOK(req[d])
      BY <1>1, <2>2, Types DEF IInv, TypeOK
    <3>2. \A v \in Users : v # u => rows'[v] = rows[v] /\ status'[v] = status[v]
      BY <1>1 DEF IInv, TypeOK
    <3> QED
      BY <1>1, <3>1, <3>2 DEF RequestOK, Live
  <2> QED
    BY <2>1, <2>2
<1> QED
  BY <1>5, <1>6, <1>7 DEF IInv, RequestsOK

LEMMA CommitDeleteStep ==
    ASSUME IInv, NEW c \in Clients, CommitDelete(c)
    PROVE  IInv'
<1> DEFINE r == req[c]
           u == r.u
<1>1. /\ r \in Request /\ u \in Users
      /\ status' = [status EXCEPT ![u] = "deleted"] /\ rows' = [rows EXCEPT ![u] = NewRow]
      /\ UNCHANGED <<misses, uses, nextCode, mailed, expired>>
      /\ req' = [req EXCEPT ![c] = Idle]
      /\ cookie' = cookie \/ cookie' = [cookie EXCEPT ![c] = r.reply]
      /\ proven' = [proven EXCEPT ![u] = {}]
  BY Types DEF CommitDelete, Replies, Done, Begin, RequestOK
<1>2. NewRow \in Row /\ r.reply \in Cookie
  BY <1>1, Nulls DEF NewRow, Row, Request
<1>3. TypeOK'
  BY <1>1, <1>2, IdleOK DEF IInv, TypeOK
<1>4. RowsOK'
  BY <1>1 DEF IInv, TypeOK, RowsOK, Live
<1>5. ASSUME NEW d \in Clients PROVE RequestOK(req[d])'
  <2>1. CASE d = c
    <3>1. req'[d] = Idle /\ Idle.pc = "idle"
      BY <1>1, <2>1 DEF IInv, TypeOK, Idle
    <3> QED
      BY <3>1 DEF RequestOK
  <2>2. CASE d # c
    <3>1. req'[d] = req[d] /\ RequestOK(req[d])
      BY <1>1, <2>2, Types DEF IInv, TypeOK
    <3>2. /\ \A v \in Users : v # u => rows'[v] = rows[v] /\ status'[v] = status[v]
          /\ status'[u] = "deleted"
      BY <1>1 DEF IInv, TypeOK
    <3> QED
      BY <1>1, <3>1, <3>2 DEF RequestOK, Live
  <2> QED
    BY <2>1, <2>2
<1> QED
  BY <1>3, <1>4, <1>5 DEF IInv, RequestsOK

----------------------------------------------------------------------------
(* The inductive invariant.                                                *)

LEMMA InitIInv == Init => IInv
<1> SUFFICES ASSUME Init PROVE IInv
  OBVIOUS
<1>1. NewRow \in Row /\ NoCookie \in Cookie
  BY Nulls DEF NewRow, Row, NoCookie, Cookie
<1>2. TypeOK
  BY <1>1, IdleOK, BoundsAssumption DEF Init, TypeOK
<1>3. RowsOK
  BY DEF Init, RowsOK, Live
<1>4. RequestsOK
  BY IdleOK DEF Init, RequestsOK
<1> QED
  BY <1>2, <1>3, <1>4 DEF IInv

(* Steps that end a request, or change cookies or codes only.              *)
LEMMA OtherSteps ==
    ASSUME IInv, NEW c \in Clients,
           \/ LoginTwoFactorStale(c) \/ Logout(c) \/ StaleCookie(c)
           \/ InsertRefused(c) \/ CommitFails(c) \/ Crash(c)
    PROVE  IInv'
<1>1. CASE InsertRefused(c) \/ CommitFails(c) \/ Crash(c)
  BY <1>1, DoneStep DEF InsertRefused, CommitFails, Crash, IInv, TypeOK
<1>2. CASE LoginTwoFactorStale(c) \/ Logout(c) \/ StaleCookie(c)
  <2>1. cookie[c] \in Cookie /\ NoCookie \in Cookie
    BY Types DEF NoCookie, Cookie
  <2>2. [cookie[c] EXCEPT !.pend = None] \in Cookie
    BY <2>1, Nulls, Zenon DEF Cookie
  <2>3. UNCHANGED <<db, req, nextCode, mailed, expired>> /\ cookie' \in [Clients -> Cookie]
    BY <1>2, <2>1, <2>2 DEF LoginTwoFactorStale, Logout, StaleCookie, IInv, TypeOK
  <2> QED
    BY <2>3 DEF IInv, TypeOK, RowsOK, RequestsOK, RequestOK, Live, db
<1> QED
  BY <1>1, <1>2

LEMMA ExpireStep ==
    ASSUME IInv, NEW k \in Codes, Expire(k)
    PROVE  IInv'
BY DEF Expire, IInv, TypeOK, RowsOK, RequestsOK, RequestOK, Live, db

LEMMA NextIInv == IInv /\ [Next]_vars => IInv'
<1> SUFFICES ASSUME IInv, [Next]_vars PROVE IInv'
  OBVIOUS
<1>1. CASE Next
  BY <1>1, RegisterStep, LoginStep, LoginTwoFactorStep, VerifyStep, ResendStep, PatchStep,
     CallbackStep, DeleteMeStep, IssueStep, ProbeVerifyStep, ProbePatchStep, CommitStep,
     InsertStep, CommitDeleteStep, MailStep, ReplyStep, OtherSteps, ExpireStep DEF Next
<1>2. CASE UNCHANGED vars
  BY <1>2 DEF vars, IInv, TypeOK, RowsOK, RequestsOK, RequestOK, Live
<1> QED
  BY <1>1, <1>2

LEMMA AlwaysIInv == Spec => []IInv
BY InitIInv, NextIInv, PTL DEF Spec

(* Every variable keeps its type.                                          *)
THEOREM TypeCorrect == Spec => []TypeOK
<1>1. IInv => TypeOK
  BY DEF IInv
<1> QED
  BY <1>1, AlwaysIInv, PTL

(* A live account has exactly one way in, however requests overlap.        *)
THEOREM ExactlyOneWayIn == Spec => []OneWayIn
<1>1. IInv => OneWayIn
  BY DEF IInv, RowsOK, RowOK, OneWayIn
<1> QED
  BY <1>1, AlwaysIInv, PTL

(* Two-factor sign-in is on only for verified addresses, however requests  *)
(* overlap.                                                                *)
THEOREM TwoFactorVerified == Spec => []TwoFactorNeedsVerified
<1>1. IInv => TwoFactorNeedsVerified
  BY DEF IInv, RowsOK, RowOK, TwoFactorNeedsVerified, NewRow
<1> QED
  BY <1>1, AlwaysIInv, PTL

----------------------------------------------------------------------------
(* What one step does to the table: nothing, or a change of one live row   *)
(* that clashes with no other, or an insertion, or a deletion.             *)
NoRowChanges == UNCHANGED <<status, rows>>
RowChangesAt(u, row) ==
    /\ Live(u) /\ row \in Row /\ RowOK(row) /\ Change(rows[u], row) /\ ~Clash(u, row)
    /\ status' = status /\ rows' = [rows EXCEPT ![u] = row]
RowInsertedAt(u, row) ==
    /\ status[u] = "absent" /\ row \in Row /\ RowOK(row) /\ (row.pwd => ~row.verified)
    /\ ~Clash(None, row)
    /\ status' = [status EXCEPT ![u] = "live"] /\ rows' = [rows EXCEPT ![u] = row]
RowDeletedAt(u) ==
    /\ status[u] # "absent"
    /\ status' = [status EXCEPT ![u] = "deleted"] /\ rows' = [rows EXCEPT ![u] = NewRow]

LEMMA TableStep ==
    ASSUME IInv, [Next]_vars
    PROVE  \/ NoRowChanges
           \/ \E u \in Users : \/ \E row : RowChangesAt(u, row) \/ RowInsertedAt(u, row)
                             \/ RowDeletedAt(u)
<1>1. ASSUME NEW c \in Clients, Commit(c)
      PROVE  \E u \in Users : \E row : RowChangesAt(u, row)
  <2> DEFINE r == req[c]
             row == Flush(rows[r.u], r.snap, r.tgt)
  <2>1. /\ r \in Request /\ RequestOK(r) /\ r.pc = "commit" /\ Live(r.u) /\ ~Clash(r.u, row)
        /\ status' = status /\ rows' = [rows EXCEPT ![r.u] = row]
    BY <1>1, Types DEF Commit, Updates
  <2>2. /\ r.u \in Users /\ r.snap \in Row /\ r.tgt \in Row
        /\ Change(r.snap, r.tgt) /\ Later(r.snap, rows[r.u])
    BY <2>1 DEF RequestOK, Request
  <2>3. row \in Row /\ RowOK(row) /\ Change(rows[r.u], row)
    BY <2>1, <2>2, FlushOK, Types
  <2> HIDE DEF row
  <2> QED
    BY <2>1, <2>2, <2>3 DEF RowChangesAt
<1>2. ASSUME NEW c \in Clients, NEW u \in Users, Insert(c, u)
      PROVE  RowInsertedAt(u, req[c].tgt)
  BY <1>2, Types DEF Insert, RowInsertedAt, RequestOK, Request
<1>3. ASSUME NEW c \in Clients, CommitDelete(c)
      PROVE  req[c].u \in Users /\ RowDeletedAt(req[c].u)
  BY <1>3, Types DEF CommitDelete, RowDeletedAt, RequestOK
<1>4. CASE UNCHANGED vars
  BY <1>4 DEF vars, NoRowChanges
<1>5. ASSUME NEW k \in Codes, Expire(k)
      PROVE  NoRowChanges
  BY <1>5 DEF Expire, db, NoRowChanges
<1>6. ASSUME NEW c \in Clients, NEW u \in Users, NEW a, NEW t,
             \/ Login(c, u) \/ Verify(c, u, t) \/ Resend(c, u) \/ Patch(c, u, a, t)
             \/ DeleteMe(c, u)
      PROVE  NoRowChanges
  BY <1>6 DEF Login, Verify, Resend, Patch, DeleteMe, db, NoRowChanges
<1>7. ASSUME NEW c \in Clients, NEW a, NEW t,
             \/ Register(c, a) \/ LoginTwoFactor(c, t) \/ Callback(c, t, a)
      PROVE  NoRowChanges
  BY <1>7 DEF Register, LoginTwoFactor, Callback, db, NoRowChanges
<1>8. ASSUME NEW c \in Clients,
             \/ LoginTwoFactorStale(c) \/ Logout(c) \/ StaleCookie(c) \/ InsertRefused(c)
             \/ Issue(c) \/ ProbeVerify(c) \/ ProbePatch(c) \/ CommitFails(c) \/ Mail(c)
             \/ Reply(c) \/ Crash(c)
      PROVE  NoRowChanges
  BY <1>8 DEF LoginTwoFactorStale, Logout, StaleCookie, InsertRefused, Issue, ProbeVerify,
       ProbePatch, CommitFails, Mail, Reply, Crash, db, NoRowChanges
<1>9. CASE Next
  <2>1. \/ NoRowChanges
        \/ \E c \in Clients : Commit(c) \/ CommitDelete(c) \/ \E u \in Users : Insert(c, u)
    BY <1>9, <1>5, <1>6, <1>7, <1>8 DEF Next
  <2> QED
    BY <2>1, <1>1, <1>2, <1>3
<1> QED
  BY <1>4, <1>9

(* No commit of a stale copy takes a verification back or brings a voided  *)
(* password back.                                                          *)
THEOREM NothingRollsBack == Spec => NoStaleRollback
<1> DEFINE Kept == \A u \in Users : Live(u) /\ Live(u)' =>
                     /\ rows[u].verified => rows'[u].verified
                     /\ ~rows[u].pwd => ~rows'[u].pwd
<1>1. IInv /\ [Next]_vars => [Kept]_vars
  <2> SUFFICES ASSUME IInv, [Next]_vars, NEW u \in Users, Live(u), Live(u)'
               PROVE  /\ rows[u].verified => rows'[u].verified
                      /\ ~rows[u].pwd => ~rows'[u].pwd
    OBVIOUS
  <2>1. rows \in [Users -> Row] /\ status \in [Users -> {"absent", "live", "deleted"}]
    BY DEF IInv, TypeOK
  <2>2. CASE NoRowChanges
    BY <2>2 DEF NoRowChanges
  <2>3. ASSUME NEW v \in Users, NEW row, RowChangesAt(v, row)
        PROVE  rows'[u] = rows[u] \/ Later(rows[u], rows'[u])
    BY <2>1, <2>3 DEF RowChangesAt, Change
  <2>4. ASSUME NEW v \in Users, NEW row, RowInsertedAt(v, row)
        PROVE  rows'[u] = rows[u]
    BY <2>1, <2>4 DEF RowInsertedAt, Live
  <2>5. ASSUME NEW v \in Users, RowDeletedAt(v)
        PROVE  rows'[u] = rows[u]
    BY <2>1, <2>5 DEF RowDeletedAt, Live
  <2>6. rows'[u] = rows[u] \/ Later(rows[u], rows'[u])
    BY <2>2, <2>3, <2>4, <2>5, TableStep DEF NoRowChanges
  <2> QED
    BY <2>6 DEF Later
<1>2. Spec => [][Kept]_vars
  BY <1>1, AlwaysIInv, PTL DEF Spec
<1> QED
  BY <1>2 DEF NoStaleRollback

----------------------------------------------------------------------------
(* The refinement of AccountLife.  Stages and Logins are what it sees.     *)
Stages == [u \in Users |-> StageOf(u)]
Logins == [u \in Users |-> rows[u].email]

LEMMA InitLife == Init => Life!Init
<1> SUFFICES ASSUME Init PROVE Life!Init
  OBVIOUS
<1>1. \A u \in Users : StageOf(u) = "absent" /\ rows[u].email = None
  BY DEF Init, StageOf, NewRow
<1> QED
  BY <1>1 DEF Life!Init

(* A step at one user's row moves only that user's stage and login.        *)
LEMMA OneRow ==
    ASSUME IInv, NEW u \in Users, NEW st \in {"absent", "live", "deleted"}, NEW row \in Row,
           status' = [status EXCEPT ![u] = st], rows' = [rows EXCEPT ![u] = row]
    PROVE  /\ status'[u] = st /\ rows'[u] = row
           /\ Stages' = [Stages EXCEPT ![u] = StageOf(u)']
           /\ Logins' = [Logins EXCEPT ![u] = row.email]
<1>1. status \in [Users -> {"absent", "live", "deleted"}] /\ rows \in [Users -> Row]
  BY DEF IInv, TypeOK
<1>2. status'[u] = st /\ rows'[u] = row
  BY <1>1
<1>3. ASSUME NEW v \in Users, v # u PROVE StageOf(v)' = StageOf(v) /\ rows'[v] = rows[v]
  <2>1. status'[v] = status[v] /\ rows'[v] = rows[v]
    BY <1>1, <1>3
  <2> QED
    BY <2>1 DEF StageOf, Live
<1>4. ASSUME NEW v \in Users
      PROVE  Stages'[v] = [Stages EXCEPT ![u] = StageOf(u)'][v]
  BY <1>3 DEF Stages
<1>5. Stages' = [Stages EXCEPT ![u] = StageOf(u)']
  BY <1>4 DEF Stages
<1>6. ASSUME NEW v \in Users
      PROVE  Logins'[v] = [Logins EXCEPT ![u] = row.email][v]
  BY <1>2, <1>3 DEF Logins
<1>7. Logins' = [Logins EXCEPT ![u] = row.email]
  BY <1>6 DEF Logins
<1> QED
  BY <1>2, <1>5, <1>7

LEMMA FreeAddress ==
    ASSUME IInv, NEW u \in Users, NEW row \in Row, ~Clash(u, row) \/ (~Live(u) /\ ~Clash(None, row))
    PROVE  row.email = None \/ \A v \in Users \ {u} : Logins[v] # row.email
<1> SUFFICES ASSUME row.email # None, NEW v \in Users \ {u} PROVE rows[v].email # row.email
  BY DEF Logins
<1>1. CASE Live(v)
  BY <1>1, NoneAssumption DEF Clash
<1>2. CASE ~Live(v)
  <2>1. rows[v] = NewRow
    BY <1>2 DEF IInv, RowsOK
  <2> QED
    BY <2>1 DEF NewRow
<1> QED
  BY <1>1, <1>2

LEMMA StepLife ==
    ASSUME IInv, [Next]_vars
    PROVE  [Life!Next]_<<Stages, Logins>>
<1>1. CASE NoRowChanges
  BY <1>1 DEF NoRowChanges, Stages, Logins, StageOf, Live
<1>2. ASSUME NEW u \in Users, NEW row, RowInsertedAt(u, row)
      PROVE  Life!Next
  <2>1. /\ status'[u] = "live" /\ rows'[u] = row
        /\ Stages' = [Stages EXCEPT ![u] = StageOf(u)'] /\ Logins' = [Logins EXCEPT ![u] = row.email]
        /\ row \in Row
    BY <1>2, OneRow DEF RowInsertedAt
  <2>2. Stages[u] = "absent"
    BY <1>2 DEF RowInsertedAt, Stages, StageOf
  <2>3. Life!Free(u, row.email)
    BY <1>2, FreeAddress DEF RowInsertedAt, Life!Free, Logins, Live
  <2>4. row.email \in Addrs \cup {None}
    BY <2>1 DEF Row
  <2>5. CASE row.sub = None
    <3>1. row.email \in Addrs /\ StageOf(u)' = "unproven"
      BY <1>2, <2>1, <2>4, <2>5 DEF RowInsertedAt, RowOK, StageOf, Live
    <3>2. Life!Open(u, row.email)
      BY <2>1, <2>2, <2>3, <3>1 DEF Life!Open, Life!Set, Stages, Logins
    <3> QED
      BY <3>1, <3>2 DEF Life!Next
  <2>6. CASE row.sub # None
    <3>1. StageOf(u)' = "google"
      BY <2>1, <2>6 DEF StageOf, Live
    <3>2. Life!OpenGoogle(u, row.email)
      BY <2>1, <2>2, <2>3, <3>1 DEF Life!OpenGoogle, Life!Set, Stages, Logins
    <3> QED
      BY <2>4, <3>2 DEF Life!Next
  <2> QED
    BY <2>5, <2>6
<1>3. ASSUME NEW u \in Users, NEW row, RowChangesAt(u, row)
      PROVE  Life!Next \/ UNCHANGED <<Stages, Logins>>
  <2>1. /\ status'[u] = "live" /\ rows'[u] = row
        /\ Stages' = [Stages EXCEPT ![u] = StageOf(u)'] /\ Logins' = [Logins EXCEPT ![u] = row.email]
        /\ row \in Row
    <3>1. status' = [status EXCEPT ![u] = "live"]
      BY <1>3 DEF RowChangesAt, Live, IInv, TypeOK
    <3> QED
      BY <1>3, <3>1, OneRow DEF RowChangesAt
  <2>2. /\ Stages[u] = IF rows[u].sub # None THEN "google"
                       ELSE IF rows[u].verified THEN "proven" ELSE "unproven"
        /\ StageOf(u)' = IF row.sub # None THEN "google"
                         ELSE IF row.verified THEN "proven" ELSE "unproven"
    BY <1>3, <2>1 DEF RowChangesAt, Stages, StageOf, Live
  <2>3. Life!Free(u, row.email)
    BY <1>3, FreeAddress DEF RowChangesAt, Life!Free, Logins
  <2>4. row.email \in Addrs \cup {None}
    BY <2>1 DEF Row
  <2>5. CASE row.sub # None
    <3>1. Life!Link(u, row.email)
      BY <2>1, <2>2, <2>3, <2>5 DEF Life!Link, Life!Set, Stages, Logins
    <3> QED
      BY <2>4, <3>1 DEF Life!Next
  <2>6. CASE row.sub = None /\ row.verified
    <3>1. row.email \in Addrs /\ rows[u].sub = None
      BY <1>3, <2>4, <2>6 DEF RowChangesAt, RowOK, Change
    <3>2. Life!Prove(u, row.email)
      BY <2>1, <2>2, <2>3, <2>6, <3>1 DEF Life!Prove, Life!Set, Stages, Logins
    <3> QED
      BY <3>1, <3>2 DEF Life!Next
  <2>7. CASE row.sub = None /\ ~row.verified
    <3>1. row.email = rows[u].email /\ rows[u].sub = None /\ ~rows[u].verified
      BY <1>3, <2>7 DEF RowChangesAt, Change, Later
    <3>2. Stages' = Stages /\ Logins' = Logins
      <4>1. StageOf(u)' = Stages[u] /\ row.email = Logins[u]
        BY <2>2, <2>7, <3>1 DEF Logins
      <4> QED
        BY <2>1, <4>1 DEF Stages, Logins
    <3> QED
      BY <3>2
  <2> QED
    BY <2>5, <2>6, <2>7
<1>4. ASSUME NEW u \in Users, RowDeletedAt(u)
      PROVE  Life!Next \/ UNCHANGED <<Stages, Logins>>
  <2>1. NewRow \in Row /\ NewRow.email = None
    BY Nulls DEF NewRow, Row
  <2>2. /\ Stages' = [Stages EXCEPT ![u] = "closed"] /\ Logins' = [Logins EXCEPT ![u] = None]
    BY <1>4, <2>1, OneRow DEF RowDeletedAt, StageOf
  <2>3. CASE Live(u)
    <3>1. Stages[u] \in {"unproven", "proven", "google"}
      BY <2>3 DEF Stages, StageOf, Live
    <3>2. Life!Close(u)
      BY <2>2, <3>1 DEF Life!Close, Life!Set, Life!Free, Stages, Logins
    <3> QED
      BY <3>2 DEF Life!Next
  <2>4. CASE ~Live(u)
    <3>1. Stages[u] = "closed" /\ Logins[u] = None
      BY <1>4, <2>1, <2>4 DEF RowDeletedAt, Stages, Logins, StageOf, Live, IInv, TypeOK, RowsOK
    <3> QED
      BY <2>2, <3>1 DEF Stages, Logins
  <2> QED
    BY <2>3, <2>4
<1> QED
  BY <1>1, <1>2, <1>3, <1>4, TableStep

(* The endpoints implement AccountLife, however requests overlap.          *)
THEOREM EndpointsImplementLife == Spec => ImplementsAccountLife
<1>1. IInv /\ [Next]_vars =>
        [Life!Next]_<<[u \in Users |-> StageOf(u)], [u \in Users |-> rows[u].email]>>
  BY StepLife DEF Stages, Logins
<1>2. Spec => Life!Spec
  BY <1>1, InitLife, AlwaysIInv, PTL DEF Spec, Life!Spec
<1> QED
  BY <1>2 DEF ImplementsAccountLife

(* What AccountLife promises holds of the endpoints, however requests      *)
(* overlap: a proven account does not turn unproven, a Google account does *)
(* not lose its way in, a closed one does not come back, and the address   *)
(* of an open one changes only together with a proof (auth.py:170-189,     *)
(* 275-297, 443).                                                          *)
MovesOnward(u) ==
    /\ Stages[u] = "proven" => Stages'[u] \in {"proven", "google", "closed"}
    /\ Stages[u] = "google" => Stages'[u] \in {"google", "closed"}
    /\ Stages[u] = "closed" => Stages'[u] = "closed"
    /\ Logins'[u] # Logins[u] /\ Stages[u] # "absent" =>
           Stages'[u] \in {"proven", "google", "closed"}
OnlyOnward == [][\A u \in Users : MovesOnward(u)]_vars

LEMMA LifeMovesOnward ==
    ASSUME [Life!Next]_<<Stages, Logins>>, NEW u \in Users
    PROVE  MovesOnward(u)
<1>1. CASE UNCHANGED <<Stages, Logins>>
  BY <1>1 DEF MovesOnward
<1>2. ASSUME NEW v \in Users, NEW s, NEW a,
             Stages' = [Stages EXCEPT ![v] = s], Logins' = [Logins EXCEPT ![v] = a]
      PROVE  /\ Stages'[u] = IF u = v THEN s ELSE Stages[u]
             /\ Logins'[u] = IF u = v THEN a ELSE Logins[u]
  BY <1>2 DEF Stages, Logins
<1>3. ASSUME NEW v \in Users, NEW a, Life!Open(v, a) \/ Life!OpenGoogle(v, a)
      PROVE  MovesOnward(u)
  <2>1. Stages[v] = "absent"
    BY <1>3 DEF Life!Open, Life!OpenGoogle, Stages
  <2>2. PICK s : Stages' = [Stages EXCEPT ![v] = s] /\ Logins' = [Logins EXCEPT ![v] = a]
    BY <1>3 DEF Life!Open, Life!OpenGoogle, Life!Set, Stages, Logins
  <2> QED
    BY <1>2, <2>1, <2>2 DEF MovesOnward
<1>4. ASSUME NEW v \in Users, NEW a, Life!Prove(v, a) \/ Life!Link(v, a)
      PROVE  MovesOnward(u)
  <2>1. PICK s : /\ Stages' = [Stages EXCEPT ![v] = s] /\ Logins' = [Logins EXCEPT ![v] = a]
                 /\ \/ s = "google" /\ Stages[v] \in {"unproven", "proven", "google"}
                    \/ s = "proven" /\ Stages[v] \in {"unproven", "proven"}
    BY <1>4 DEF Life!Prove, Life!Link, Life!Set, Stages, Logins
  <2> QED
    BY <1>2, <2>1 DEF MovesOnward
<1>5. ASSUME NEW v \in Users, Life!Close(v) PROVE MovesOnward(u)
  <2>1. /\ Stages' = [Stages EXCEPT ![v] = "closed"] /\ Logins' = [Logins EXCEPT ![v] = None]
        /\ Stages[v] \in {"unproven", "proven", "google"}
    BY <1>5 DEF Life!Close, Life!Set, Stages, Logins
  <2> QED
    BY <1>2, <2>1 DEF MovesOnward
<1> QED
  BY <1>1, <1>3, <1>4, <1>5 DEF Life!Next

(* The account endpoints keep what AccountLife promises about stages and   *)
(* addresses, however requests overlap (auth.py:170-189, 275-297, 443).    *)
THEOREM AccountsMoveOnward == Spec => OnlyOnward
<1>1. IInv /\ [Next]_vars => [\A u \in Users : MovesOnward(u)]_vars
  BY StepLife, LifeMovesOnward
<1> QED
  BY <1>1, AlwaysIInv, PTL DEF Spec, OnlyOnward

(* An address belongs to at most one live account, also when two requests  *)
(* found it free at the same time: what the UNIQUE column refuses is a 409 *)
(* and no second account (models.py:106, auth.py:206-214, 487-492).        *)
OneAccountPerAddress ==
    \A u, v \in Users : rows[u].email # None /\ rows[u].email = rows[v].email => u = v

LEMMA LifeKeepsAddresses ==
    ASSUME OneAccountPerAddress, [Life!Next]_<<Stages, Logins>>
    PROVE  OneAccountPerAddress'
<1> DEFINE Unique(f) == \A u, v \in Users : f[u] # None /\ f[u] = f[v] => u = v
<1>1. Unique(Logins) /\ (Unique(Logins') => OneAccountPerAddress')
  BY DEF OneAccountPerAddress, Logins
<1>2. ASSUME NEW w \in Users, NEW s, NEW a, Life!Set(w, s, a) PROVE Unique(Logins')
  <2>1. /\ Logins' = [Logins EXCEPT ![w] = a]
        /\ a = None \/ \A v \in Users \ {w} : Logins[v] # a
    BY <1>2 DEF Life!Set, Life!Free, Logins
  <2>2. \A v \in Users : Logins'[v] = IF v = w THEN a ELSE Logins[v]
    BY <2>1 DEF Logins
  <2> HIDE DEF Logins
  <2> QED
    BY <1>1, <2>1, <2>2
<1>3. CASE UNCHANGED <<Stages, Logins>>
  BY <1>1, <1>3
<1>4. CASE Life!Next
  <2>1. PICK w \in Users : \/ \E a : Life!Open(w, a) \/ Life!OpenGoogle(w, a)
                          \/ \E a : Life!Prove(w, a) \/ Life!Link(w, a)
                          \/ Life!Close(w)
    BY <1>4 DEF Life!Next
  <2>2. \E s, a : Life!Set(w, s, a)
    BY <2>1 DEF Life!Open, Life!OpenGoogle, Life!Prove, Life!Link, Life!Close
  <2> QED
    BY <1>1, <1>2, <2>2
<1> QED
  BY <1>1, <1>2, <1>3, <1>4

(* An address belongs to at most one account, whatever requests overlap    *)
(* (models.py:106, auth.py:206-214, 487-492).                              *)
THEOREM AddressesAreUnique == Spec => []OneAccountPerAddress
<1>1. Init => OneAccountPerAddress
  BY DEF Init, NewRow, OneAccountPerAddress
<1>2. IInv /\ OneAccountPerAddress /\ [Next]_vars => OneAccountPerAddress'
  BY StepLife, LifeKeepsAddresses
<1> QED
  BY <1>1, <1>2, AlwaysIInv, PTL DEF Spec

----------------------------------------------------------------------------
(* No two requests on one account at a time: what overlapping requests     *)
(* break and requests on other accounts do not.  The row a request loaded  *)
(* is still the row, however many requests on other accounts commit in     *)
(* between; what it is about to commit can then be judged against the      *)
(* rows, the mail and the counters as they are.                            *)

Apart == \A c, d \in Clients : c # d /\ req[c].u = req[d].u => req[c].u = None

(* The codes that are live in a row, for its address and for a sign-in.    *)
Held(row) == {row.code, row.lcode} \ {NoCode}

(* A live code was never accepted, its misses are on its counter, and one  *)
(* for an address can only have gone to the address it would confirm.      *)
CodesOK(row) ==
    /\ row.code # NoCode =>
         /\ row.code < nextCode /\ row.code # row.lcode
         /\ uses[row.code] = 0 /\ misses[row.code] <= row.attempts
         /\ mailed[row.code] # None /\ ~ (row.verified /\ row.pending = None) =>
              mailed[row.code] = CodeTarget(row)
    /\ row.lcode # NoCode =>
         /\ row.lcode < nextCode
         /\ uses[row.lcode] = 0 /\ misses[row.lcode] <= row.lattempts

Proved(row, addrs) == row.verified /\ row.email # None => row.email \in addrs

SafeRow(row, addrs) ==
    /\ CodesOK(row)
    /\ Proved(row, addrs)
    /\ row.sub # None => ~ row.tfa

(* No other user holds a code of the row.                                  *)
OwnCodes(u, row) == \A v \in Users \ {u} : Held(rows[v]) \cap Held(row) = {}

(* What a request is about to commit.                                      *)
Ready(r) ==
    /\ SafeRow(r.tgt, proven[r.u] \cup Evidence(r, r.tgt))
    /\ OwnCodes(r.u, r.tgt)
    /\ r.missed # NoCode =>
         \/ r.missed = r.tgt.code /\ misses[r.missed] < r.tgt.attempts
         \/ r.missed = r.tgt.lcode /\ misses[r.missed] < r.tgt.lattempts
    /\ r.used # NoCode =>
         /\ r.used \in Held(r.snap) /\ r.used \notin Held(r.tgt)
         /\ r.addr = None /\ r.op # "login"

(* What is to be mailed, and where.                                        *)
Mailing(r) ==
    /\ r.addr # None => r.tgt.code # NoCode /\ r.addr = CodeTarget(r.tgt)
    /\ r.op = "login" => r.tgt.lcode # NoCode

(* What is being asked of the database before there is a row to commit.    *)
Probing(r) ==
    /\ r.missed = NoCode
    /\ \/ /\ r.op = "verify" /\ r.addr = None
          /\ r.used # NoCode /\ r.used = r.snap.code /\ mailed[r.used] # None
       \/ /\ r.op = "patch" /\ r.addr # None /\ r.used = NoCode
          /\ SafeRow(r.tgt, proven[r.u]) /\ Held(r.tgt) \subseteq Held(r.snap)

(* A reply that signs the client in to another account than before: one    *)
(* without a second factor, or by the code that was mailed for it.         *)
SignsIn(c, r) ==
    \/ r.reply.uid \in {None, cookie[c].uid}
    \/ /\ r.reply.uid = r.u
       /\ \/ r.pc \in {"issue", "reply", "mail"} /\ ~ rows[r.u].tfa
          \/ r.pc = "commit" /\ ~ r.tgt.tfa
          \/ /\ r.pc = "commit" /\ r.used # NoCode /\ r.used = r.snap.lcode
             /\ r.tgt.lcode = NoCode /\ mailed[r.used] # None

Sound(c, r) ==
    /\ r.pc = "insert" => Held(r.tgt) = {} /\ ~ r.tgt.tfa
    /\ r.pc \notin {"idle", "insert"} => SignsIn(c, r)
    /\ r.pc \in {"probe", "commit"} => Live(r.u) /\ rows[r.u] = r.snap
    /\ r.pc = "mail" => Live(r.u) /\ rows[r.u] = r.tgt /\ (r.addr # None \/ r.op = "login")
    /\ r.pc = "probe" => Probing(r)
    /\ r.pc = "commit" /\ r.op # "delete" => Ready(r)
    /\ r.pc = "commit" \/ r.pc = "mail" => Mailing(r)

Unissued == \A k \in Codes : k >= nextCode => mailed[k] = None /\ misses[k] = 0 /\ uses[k] = 0
SafeRows == \A u \in Users : SafeRow(rows[u], proven[u]) /\ OwnCodes(u, rows[u])
Requests == \A c \in Clients : Sound(c, req[c])

(* Requests about to commit to two accounts share no code.                 *)
CodesApart ==
    \A c, d \in Clients :
        Updates(req[c]) /\ Updates(req[d]) /\ req[c].u # req[d].u =>
            Held(req[c].tgt) \cap Held(req[d].tgt) = {}

SInv == CodesApart /\ Unissued /\ SafeRows /\ Requests /\ AttemptCap /\ SingleUse

(* What a step leaves of the codes in a set.                               *)
Untouched(codes) ==
    \A k \in codes : mailed'[k] = mailed[k] /\ misses'[k] = misses[k] /\ uses'[k] = uses[k]

LEMMA IdleSound ==
    ASSUME NEW c \in Clients, NEW r, r.pc = "idle"
    PROVE  Sound(c, r) /\ Sound(c, r)'
BY DEF Sound

(* A row stays safe when codes are drawn and its own are left alone.       *)
LEMMA SafeKept ==
    ASSUME NEW row, NEW addrs, SafeRow(row, addrs), row.code \in Nat, row.lcode \in Nat,
           Untouched(Held(row)), nextCode \in Nat, nextCode' \in Nat, nextCode <= nextCode'
    PROVE  SafeRow(row, addrs)'
<1>1. CodesOK(row)'
  <2>1. CodesOK(row)
    BY DEF SafeRow
  <2>2. \A n \in Nat : n < nextCode => n < nextCode'
    OBVIOUS
  <2>3. \A n \in {row.code, row.lcode} : n # NoCode => n \in Held(row)
    BY DEF Held
  <2> QED
    BY <2>1, <2>2, <2>3 DEF CodesOK, Untouched
<1> QED
  BY <1>1 DEF SafeRow, Proved

LEMMA SafeStays ==
    ASSUME NEW row, NEW addrs, SafeRow(row, addrs), row.code \in Nat, row.lcode \in Nat,
           UNCHANGED <<misses, uses, mailed>>,
           nextCode \in Nat, nextCode' \in Nat, nextCode <= nextCode'
    PROVE  SafeRow(row, addrs)'
BY SafeKept DEF Untouched

LEMMA CodeTypes ==
    ASSUME IInv
    PROVE  /\ nextCode \in Nat
           /\ \A row \in Row : row.code \in Nat /\ row.lcode \in Nat
           /\ FreshCode => nextCode' \in Nat /\ nextCode <= nextCode'
<1>1. nextCode \in Nat
  BY BoundsAssumption DEF IInv, TypeOK
<1>2. Codes \cup {NoCode} \subseteq Nat
  BY DEF Codes, NoCode
<1>3. \A row \in Row : row.code \in Nat /\ row.lcode \in Nat
  BY <1>2 DEF Row
<1> QED
  BY <1>1, <1>3 DEF FreshCode

(* A request stays sound through a step of another one that leaves its     *)
(* account, its codes and its client's cookie alone.                       *)
LEMMA OtherSound ==
    ASSUME IInv, SInv, NEW d \in Clients, NEW q, q = req[d], cookie'[d] = cookie[d],
           q.pc \notin {"idle", "insert"} =>
               rows'[q.u] = rows[q.u] /\ status'[q.u] = status[q.u] /\ proven'[q.u] = proven[q.u],
           nextCode' \in Nat, nextCode <= nextCode',
           q.pc \in {"probe", "commit"} => Untouched(Held(rows[q.u])),
           Updates(q) => Untouched(Held(q.tgt)) /\ OwnCodes(q.u, q.tgt)'
    PROVE  Sound(d, q)'
<1>1. q \in Request /\ Sound(d, q) /\ nextCode \in Nat
  BY Types, CodeTypes DEF SInv, Requests
<1>2. PICK s \in Row, t \in Row : s = q.snap /\ t = q.tgt
  BY <1>1 DEF Request
<1>3. /\ t.code \in Nat /\ t.lcode \in Nat
      /\ \A n \in {s.code, s.lcode} : n # NoCode => n \in Held(s)
  BY CodeTypes DEF Held
<1>4. q.pc \in {"probe", "commit"} => rows[q.u] = s /\ Untouched(Held(s))
  BY <1>1, <1>2 DEF Sound
<1>5. q.pc = "probe" => Probing(q)'
  <2>1. SUFFICES ASSUME q.pc = "probe" PROVE Probing(q)'
    OBVIOUS
  <2>2. Probing(q) /\ Untouched(Held(s)) /\ proven'[q.u] = proven[q.u]
    BY <1>1, <1>4, <2>1 DEF Sound
  <2>3. CASE q.op = "verify"
    <3>1. q.used # NoCode /\ q.used = s.code /\ mailed[q.used] # None /\ q.addr = None
      BY <1>2, <2>2, <2>3 DEF Probing
    <3>2. mailed'[q.used] = mailed[q.used]
      BY <1>3, <2>2, <3>1 DEF Untouched
    <3> QED
      BY <1>2, <2>2, <2>3, <3>1, <3>2 DEF Probing
  <2>4. CASE q.op # "verify"
    <3>1. SafeRow(t, proven[q.u]) /\ Held(t) \subseteq Held(s)
      BY <1>2, <2>2, <2>4 DEF Probing
    <3>2. PICK addrs : addrs = proven[q.u]
      OBVIOUS
    <3>3. SafeRow(t, addrs)'
      BY <1>1, <1>3, <2>2, <3>1, <3>2, SafeKept DEF Untouched
    <3>4. SafeRow(q.tgt, proven[q.u])'
      BY <1>2, <2>2, <3>2, <3>3
    <3> QED
      BY <2>2, <2>4, <3>4 DEF Probing
  <2> QED
    BY <2>3, <2>4
<1>6. Updates(q) => Ready(q)'
  <2>1. SUFFICES ASSUME Updates(q) PROVE Ready(q)'
    OBVIOUS
  <2>2. /\ Ready(q) /\ Untouched(Held(s)) /\ Untouched(Held(t)) /\ proven'[q.u] = proven[q.u]
        /\ q.pc = "commit"
    BY <1>1, <1>2, <1>4, <2>1 DEF Sound, Updates
  <2>3. q.used # NoCode => mailed'[q.used] = mailed[q.used]
    BY <1>2, <2>2 DEF Ready, Untouched
  <2>4. PICK addrs : addrs = proven[q.u] \cup Evidence(q, t)
    OBVIOUS
  <2>5. proven'[q.u] \cup Evidence(q, t)' = addrs
    BY <2>2, <2>3, <2>4 DEF Evidence
  <2>6. SafeRow(t, addrs)
    BY <1>2, <2>2, <2>4 DEF Ready
  <2>7. SafeRow(t, addrs)'
    BY <1>1, <1>3, <2>2, <2>6, SafeKept
  <2>8. SafeRow(q.tgt, proven[q.u] \cup Evidence(q, q.tgt))'
    BY <1>2, <2>5, <2>7
  <2>9. q.missed # NoCode => misses'[q.missed] = misses[q.missed]
    <3>1. q.missed # NoCode => q.missed \in Held(t)
      BY <1>2, <2>2 DEF Ready, Held
    <3> QED
      BY <2>2, <3>1 DEF Untouched
  <2> QED
    BY <2>1, <2>2, <2>8, <2>9 DEF Ready
<1>7. q.pc \notin {"idle", "insert"} => SignsIn(d, q)'
  <2>1. SUFFICES ASSUME q.pc \notin {"idle", "insert"} PROVE SignsIn(d, q)'
    OBVIOUS
  <2>2. SignsIn(d, q) /\ rows'[q.u] = rows[q.u]
    BY <1>1, <2>1 DEF Sound
  <2>3. q.pc = "commit" /\ q.used # NoCode /\ q.used = q.snap.lcode =>
          mailed'[q.used] = mailed[q.used]
    BY <1>2, <1>3, <1>4 DEF Untouched
  <2> QED
    BY <2>2, <2>3 DEF SignsIn
<1>8. Mailing(q)' <=> Mailing(q)
  BY DEF Mailing
<1>9. Live(q.u)' <=> status'[q.u] = "live"
  BY DEF Live
<1> QED
  BY <1>1, <1>5, <1>6, <1>7, <1>8, <1>9 DEF Sound, Updates, Live

(* A code a request is about to commit is no longer to be drawn, and none  *)
(* of a row is about to be committed to another.                           *)
LEMMA OthersCodes ==
    ASSUME IInv, SInv, NEW d \in Clients, Updates(req[d]), NEW u \in Users, u # req[d].u,
           NEW t, Held(t) \subseteq Held(rows[u]) \cup {nextCode}
    PROVE  Held(t) \cap Held(req[d].tgt) = {}
<1>1. PICK q \in Request : q = req[d]
  BY Types
<1>2. PICK s \in Row : s = q.tgt
  BY DEF Request
<1>3. Ready(q)
  BY <1>1 DEF SInv, Requests, Sound, Updates
<1>4. Held(rows[u]) \cap Held(s) = {} /\ CodesOK(s)
  BY <1>1, <1>2, <1>3 DEF Ready, OwnCodes, SafeRow
<1>5. s.code \in Nat /\ s.lcode \in Nat /\ nextCode \in Nat
  BY CodeTypes
<1>6. nextCode \notin Held(s)
  BY <1>4, <1>5 DEF Held, CodesOK
<1> QED
  BY <1>1, <1>2, <1>4, <1>6

(* A step of a request that leaves the rows and the mail alone: what it    *)
(* is about to commit has only codes of its row, and the next.             *)
LEMMA MoveStep ==
    ASSUME IInv, SInv, NEW c \in Clients, NEW r, Begin(c, r),
           UNCHANGED <<db, mailed>>, nextCode' = nextCode \/ FreshCode, Sound(c, r)',
           \A d \in Clients \ {c} : cookie'[d] = cookie[d],
           Updates(r) => r.u \in Users /\ Held(r.tgt) \subseteq Held(rows[r.u]) \cup {nextCode}
    PROVE  SInv'
<1>1. /\ nextCode \in Nat /\ nextCode' \in Nat /\ nextCode <= nextCode'
  BY CodeTypes
<1>2. \A d \in Clients : req'[d] = IF d = c THEN r ELSE req[d]
  BY DEF Begin, IInv, TypeOK
<1>3. CodesApart'
  <2>1. ASSUME NEW d \in Clients \ {c}, Updates(r), Updates(req[d]), r.u # req[d].u
        PROVE  Held(r.tgt) \cap Held(req[d].tgt) = {}
    BY <2>1, OthersCodes
  <2>2. ASSUME NEW d \in Clients, NEW e \in Clients, d # c, e # c,
               Updates(req[d]), Updates(req[e]), req[d].u # req[e].u
        PROVE  Held(req[d].tgt) \cap Held(req[e].tgt) = {}
    BY <2>2 DEF SInv, CodesApart
  <2>3. ASSUME NEW d \in Clients, NEW e \in Clients,
               Updates(req'[d]), Updates(req'[e]), req'[d].u # req'[e].u
        PROVE  Held(req'[d].tgt) \cap Held(req'[e].tgt) = {}
    BY <1>2, <2>1, <2>2, <2>3
  <2>4. Updates(req[c])' <=> Updates(req'[c])
    BY DEF Updates
  <2> QED
    BY <2>3 DEF CodesApart, Updates
<1>4. Unissued'
  <2>1. Unissued /\ mailed' = mailed /\ misses' = misses /\ uses' = uses
    BY DEF SInv, db
  <2>2. \A k \in Codes : k >= nextCode' => k >= nextCode
    BY <1>1 DEF Codes
  <2> QED
    BY <2>1, <2>2 DEF Unissued
<1>5. SafeRows'
  <2>1. ASSUME NEW u \in Users PROVE SafeRow(rows[u], proven[u])'
    <3>1. PICK row, addrs : row = rows[u] /\ addrs = proven[u]
      OBVIOUS
    <3>2. SafeRow(row, addrs) /\ row.code \in Nat /\ row.lcode \in Nat
      BY <3>1, CodeTypes, Types DEF SInv, SafeRows
    <3>3. SafeRow(row, addrs)'
      BY <1>1, <3>2, SafeStays DEF db
    <3>4. rows'[u] = row /\ proven'[u] = addrs
      BY <3>1 DEF db
    <3> QED
      BY <3>3, <3>4
  <2>2. ASSUME NEW u \in Users PROVE OwnCodes(u, rows[u])'
    BY DEF SInv, SafeRows, OwnCodes, db
  <2> QED
    BY <2>1, <2>2 DEF SafeRows
<1>6. Requests'
  <2>1. ASSUME NEW d \in Clients PROVE Sound(d, req[d])'
    <3>1. CASE d = c
      BY <1>2, <3>1
    <3>2. CASE d # c
      <4>1. PICK q : q = req[d]
        OBVIOUS
      <4>2. req'[d] = q /\ Sound(d, q)
        BY <1>2, <3>2, <4>1 DEF SInv, Requests
      <4>3. Untouched(Held(rows[q.u])) /\ Untouched(Held(q.tgt))
        BY DEF Untouched, db
      <4>4. Updates(q) => OwnCodes(q.u, q.tgt)'
        BY <4>2 DEF Sound, Updates, Ready, OwnCodes, db
      <4>5. Sound(d, q)'
        BY <1>1, <3>2, <4>1, <4>3, <4>4, OtherSound DEF db
      <4> QED
        BY <4>2, <4>5
    <3> QED
      BY <3>1, <3>2
  <2> QED
    BY <2>1 DEF Requests
<1>7. AttemptCap' /\ SingleUse'
  BY DEF SInv, AttemptCap, SingleUse, db
<1> QED
  BY <1>3, <1>4, <1>5, <1>6, <1>7 DEF SInv

(* A copy of a safe row that kept, cleared or counted against its codes.   *)
LEMMA DerivedSafe ==
    ASSUME IInv, NEW row \in Row, NEW t \in Row, NEW addrs, NEW more, SafeRow(row, addrs),
           t.code # NoCode =>
               /\ t.code = row.code /\ t.attempts >= row.attempts /\ t.pending = row.pending
               /\ t.verified \/ (t.verified = row.verified /\ t.email = row.email),
           t.lcode # NoCode => t.lcode = row.lcode /\ t.lattempts >= row.lattempts,
           Proved(t, more), t.sub # None => ~ t.tfa
    PROVE  SafeRow(t, more) /\ Held(t) \subseteq Held(row)
<1>1. CodesOK(row)
  BY DEF SafeRow
<1>2. /\ t.verified \in BOOLEAN /\ row.verified \in BOOLEAN
      /\ row.code \in Codes \cup {NoCode} /\ row.lcode \in Codes \cup {NoCode}
  BY DEF Row
<1>3. ASSUME NEW m \in Codes, NEW x \in 0..MaxAttempts, NEW y \in 0..MaxAttempts,
             misses[m] <= x, y >= x
      PROVE  misses[m] <= y
  <2>1. PICK n : n = misses[m]
    OBVIOUS
  <2>2. n \in Nat
    BY <2>1, BoundsAssumption DEF IInv, TypeOK
  <2> QED
    BY <1>3, <2>1, <2>2, BoundsAssumption
<1>4. t.code # NoCode => misses[t.code] <= t.attempts
  BY <1>1, <1>2, <1>3 DEF CodesOK, Row
<1>5. t.lcode # NoCode => misses[t.lcode] <= t.lattempts
  BY <1>1, <1>2, <1>3 DEF CodesOK, Row
<1>6. t.code # NoCode => t.code < nextCode /\ t.code # t.lcode /\ uses[t.code] = 0
  BY <1>1 DEF CodesOK
<1>7. t.lcode # NoCode => t.lcode < nextCode /\ uses[t.lcode] = 0
  BY <1>1 DEF CodesOK
<1>8. t.code # NoCode /\ mailed[t.code] # None /\ ~ (t.verified /\ t.pending = None) =>
          mailed[t.code] = CodeTarget(t)
  BY <1>1, <1>2 DEF CodesOK, CodeTarget
<1>9. CodesOK(t)
  BY <1>4, <1>5, <1>6, <1>7, <1>8 DEF CodesOK
<1>10. Held(t) \subseteq Held(row)
  BY DEF Held
<1> QED
  BY <1>9, <1>10 DEF SafeRow

(* No other user holds a code that was just drawn.                         *)
LEMMA DrawnIsOwn ==
    ASSUME IInv, SInv, NEW u \in Users, NEW t \in Row, NEW s \in Row, s = rows[u],
           Held(t) \subseteq Held(s) \cup {nextCode}
    PROVE  OwnCodes(u, t)
<1>1. ASSUME NEW v \in Users \ {u} PROVE Held(rows[v]) \cap Held(t) = {}
  <2>1. PICK row \in Row : row = rows[v]
    BY Types
  <2>2. Held(row) \cap Held(s) = {}
    BY <2>1 DEF SInv, SafeRows, OwnCodes
  <2>3. row.code \in Nat /\ row.lcode \in Nat /\ nextCode \in Nat
    BY CodeTypes
  <2>4. CodesOK(row)
    BY <2>1 DEF SInv, SafeRows, SafeRow
  <2>5. nextCode \notin Held(row)
    BY <2>3, <2>4 DEF Held, CodesOK
  <2> QED
    BY <2>1, <2>2, <2>5
<1> QED
  BY <1>1 DEF OwnCodes

(* A row with the next code stored in it, for its address or a sign-in.    *)
LEMMA DrawnSafe ==
    ASSUME IInv, SInv, FreshCode, UNCHANGED <<misses, uses, mailed>>,
           NEW t \in Row, NEW addrs, SafeRow(t, addrs), NEW k, k = nextCode
    PROVE  /\ SafeRow(StoreCode(t, k), addrs)'
           /\ SafeRow(StoreLoginCode(t, k), addrs)'
           /\ Held(StoreCode(t, k)) \subseteq Held(t) \cup {k}
           /\ Held(StoreLoginCode(t, k)) \subseteq Held(t) \cup {k}
           /\ CodeTarget(StoreCode(t, k)) = CodeTarget(t)
<1>1. /\ k \in Codes /\ nextCode' = k + 1 /\ k \in Nat /\ k # NoCode
  BY DEF FreshCode, Codes, NoCode
<1>2. mailed[k] = None /\ misses[k] = 0 /\ uses[k] = 0
  BY <1>1 DEF SInv, Unissued
<1>3. CodesOK(t) /\ t.code \in Nat /\ t.lcode \in Nat
  BY CodeTypes DEF SafeRow
<1>4. SafeRow(t, addrs)'
  BY <1>3, SafeStays, CodeTypes
<1>5. PICK p : p = StoreCode(t, k)
  OBVIOUS
<1>6. p.code = k /\ p.attempts = 0 /\ p.lcode = t.lcode /\ p.lattempts = t.lattempts
      /\ p.verified = t.verified /\ p.email = t.email /\ p.pending = t.pending
      /\ p.sub = t.sub /\ p.tfa = t.tfa
  BY <1>5 DEF StoreCode, Row
<1>7. PICK q : q = StoreLoginCode(t, k)
  OBVIOUS
<1>8. q.lcode = k /\ q.lattempts = 0 /\ q.code = t.code /\ q.attempts = t.attempts
      /\ q.verified = t.verified /\ q.email = t.email /\ q.pending = t.pending
      /\ q.sub = t.sub /\ q.tfa = t.tfa
  BY <1>7 DEF StoreLoginCode, Row
<1>9. t.lcode # k /\ t.code # k
  BY <1>1, <1>3 DEF CodesOK
<1>10. CodesOK(p)'
  BY <1>1, <1>2, <1>4, <1>6, <1>9 DEF SafeRow, CodesOK
<1>11. CodesOK(q)'
  BY <1>1, <1>2, <1>4, <1>8, <1>9 DEF SafeRow, CodesOK, CodeTarget
<1>12. SafeRow(p, addrs)' /\ SafeRow(q, addrs)'
  BY <1>4, <1>6, <1>8, <1>10, <1>11 DEF SafeRow, Proved
<1>13. Held(p) \subseteq Held(t) \cup {k} /\ Held(q) \subseteq Held(t) \cup {k}
  BY <1>6, <1>8 DEF Held
<1>14. CodeTarget(p) = CodeTarget(t)
  BY <1>6 DEF CodeTarget
<1> QED
  BY <1>5, <1>7, <1>12, <1>13, <1>14

(* A request that is loaded, or goes on, to commit.                        *)
LEMMA CommittingStep ==
    ASSUME IInv, SInv, NEW c \in Clients,
           NEW r, Begin(c, r), UNCHANGED <<db, cookie, mailed>>,
           nextCode' = nextCode \/ FreshCode,
           r.pc = "commit", Live(r.u), rows[r.u] = r.snap, r.u \in Users,
           r.op # "delete" =>
               /\ SafeRow(r.tgt, proven[r.u] \cup Evidence(r, r.tgt))'
               /\ r.tgt \in Row /\ Held(r.tgt) \subseteq Held(rows[r.u]) \cup {nextCode}
               /\ r.missed # NoCode =>
                    \/ r.missed = r.tgt.code /\ misses[r.missed] < r.tgt.attempts
                    \/ r.missed = r.tgt.lcode /\ misses[r.missed] < r.tgt.lattempts
               /\ r.used # NoCode =>
                    /\ r.used \in Held(r.snap) /\ r.used \notin Held(r.tgt)
                    /\ r.addr = None /\ r.op # "login",
           Mailing(r), SignsIn(c, r)
    PROVE  SInv'
<1>1. r.op # "delete" => Ready(r)'
  <2>1. rows[r.u] \in Row
    BY Types
  <2>2. r.op # "delete" => OwnCodes(r.u, r.tgt)
    BY <2>1, DrawnIsOwn
  <2>3. r.op # "delete" => OwnCodes(r.u, r.tgt)'
    BY <2>2 DEF OwnCodes, db
  <2> QED
    BY <2>3 DEF Ready, db
<1>2. SignsIn(c, r)' /\ Mailing(r)'
  BY DEF SignsIn, Mailing, db
<1>3. Sound(c, r)'
  BY <1>1, <1>2 DEF Sound, Live, db
<1> QED
  BY <1>3, MoveStep DEF Updates

(* The rows as SInv has them.                                              *)
LEMMA RowsAreSafe ==
    ASSUME IInv, SInv, NEW u \in Users
    PROVE  /\ rows[u] \in Row /\ SafeRow(rows[u], proven[u])
           /\ rows[u].code \in Nat /\ rows[u].lcode \in Nat
           /\ \A t : Held(t) \subseteq Held(rows[u]) => OwnCodes(u, t)
BY Types, CodeTypes DEF SInv, SafeRows, OwnCodes

(* What a request can change in its copy of a safe row without drawing a   *)
(* code: nothing, a miss more, or a code used up.                          *)
LEMMA SafeEdits ==
    ASSUME IInv, NEW row \in Row, NEW addrs, SafeRow(row, addrs)
    PROVE  /\ Held(row) \subseteq Held(row)
           /\ SafeRow(ClearCode(row), addrs)
           /\ Held(ClearCode(row)) = Held(row) \ {row.code}
           /\ SafeRow(ClearLoginCode(row), addrs)
           /\ Held(ClearLoginCode(row)) = Held(row) \ {row.lcode}
<1>1. ASSUME NEW t \in Row,
             t.code = NoCode \/ (t.code = row.code /\ t.attempts = row.attempts),
             t.lcode = NoCode \/ (t.lcode = row.lcode /\ t.lattempts = row.lattempts),
             t.pending = row.pending, t.email = row.email, t.verified = row.verified,
             t.sub = row.sub, t.tfa = row.tfa
      PROVE  SafeRow(t, addrs)
  <2>1. Proved(t, addrs) /\ (t.sub # None => ~ t.tfa)
    BY <1>1 DEF SafeRow, Proved
  <2>2. row.attempts >= row.attempts /\ row.lattempts >= row.lattempts
    BY BoundsAssumption DEF Row
  <2> QED
    BY <1>1, <2>1, <2>2, DerivedSafe
<1>2. PICK p \in Row : p = ClearCode(row)
  BY RowChanges
<1>3. PICK q \in Row : q = ClearLoginCode(row)
  BY RowChanges
<1>4. /\ p.code = NoCode /\ p.lcode = row.lcode /\ p.lattempts = row.lattempts
      /\ p.pending = row.pending /\ p.email = row.email /\ p.verified = row.verified
      /\ p.sub = row.sub /\ p.tfa = row.tfa
  BY <1>2 DEF ClearCode, Row
<1>5. /\ q.lcode = NoCode /\ q.code = row.code /\ q.attempts = row.attempts
      /\ q.pending = row.pending /\ q.email = row.email /\ q.verified = row.verified
      /\ q.sub = row.sub /\ q.tfa = row.tfa
  BY <1>3 DEF ClearLoginCode, Row
<1>6. SafeRow(p, addrs) /\ SafeRow(q, addrs)
  BY <1>1, <1>4, <1>5
<1>7. row.code # NoCode => row.code # row.lcode
  BY DEF SafeRow, CodesOK
<1>8. Held(p) = Held(row) \ {row.code} /\ Held(q) = Held(row) \ {row.lcode}
  BY <1>4, <1>5, <1>7 DEF Held
<1> QED
  BY <1>2, <1>3, <1>6, <1>8

LEMMA RegisterSafe ==
    ASSUME IInv, SInv, NEW c \in Clients, NEW a \in Addrs, Register(c, a)
    PROVE  SInv'
<1>1. PICK r : r = Inserting(c, "register", [NewRow EXCEPT !.email = a, !.pwd = TRUE])
  OBVIOUS
<1>2. r.pc = "insert" /\ Held(r.tgt) = {} /\ ~ r.tgt.tfa
  BY <1>1 DEF Inserting, NewRow, Held
<1>3. Sound(c, r)'
  BY <1>2 DEF Sound
<1> QED
  BY <1>1, <1>2, <1>3, MoveStep DEF Register, Updates

LEMMA DrawnRow ==
    ASSUME FreshCode, NEW row \in Row, NEW k, k = nextCode
    PROVE  /\ k \in Codes /\ k # NoCode
           /\ StoreCode(row, k) \in Row /\ StoreCode(row, k).code = k
           /\ StoreLoginCode(row, k) \in Row /\ StoreLoginCode(row, k).lcode = k
<1>1. k \in Codes /\ k # NoCode
  BY DEF FreshCode, Codes, NoCode
<1>2. StoreCode(row, k) \in Row /\ StoreLoginCode(row, k) \in Row
  BY <1>1, RowChanges
<1>3. StoreCode(row, k).code = k /\ StoreLoginCode(row, k).lcode = k
  BY DEF StoreCode, StoreLoginCode, Row
<1> QED
  BY <1>1, <1>2, <1>3

LEMMA IssueVerificationSafe ==
    ASSUME IInv, SInv, NEW c \in Clients,
           NEW u \in Users, Live(u), NEW op \in {"register", "resend"},
           NEW reply \in Cookie,
           reply.uid \in {None, cookie[c].uid} \/ (reply.uid = u /\ ~ rows[u].tfa),
           IssueVerification(c, op, u, reply), UNCHANGED <<db, cookie, mailed, expired>>
    PROVE  SInv'
<1> DEFINE a == CodeTarget(rows[u])
<1>1. PICK row \in Row : row = rows[u]
  BY Types
<1>2. SafeRow(row, proven[u])
  BY <1>1, RowsAreSafe
<1>3. CASE a = None
  <2>1. PICK r : r = [Loaded(c, op, "reply", u, rows[u]) EXCEPT !.reply = reply]
    OBVIOUS
  <2>2. r.pc = "reply" /\ r.reply = reply /\ r.u = u
    BY <2>1 DEF Loaded
  <2>3. Sound(c, r)'
    BY <2>2 DEF Sound, SignsIn, db
  <2>4. Begin(c, r) /\ nextCode' = nextCode
    BY <1>3, <2>1 DEF IssueVerification
  <2> QED
    BY <2>2, <2>3, <2>4, MoveStep DEF Updates
<1>4. CASE a # None
  <2>1. PICK k, addrs : k = nextCode /\ addrs = proven[u]
    OBVIOUS
  <2>2. PICK t : t = StoreCode(row, k)
    OBVIOUS
  <2>3. PICK r : r = [Loaded(c, op, "commit", u, StoreCode(rows[u], nextCode))
                        EXCEPT !.addr = a, !.reply = reply]
    OBVIOUS
  <2>4. Begin(c, r) /\ FreshCode
    BY <1>4, <2>3 DEF IssueVerification
  <2>5. /\ r.op = op /\ r.pc = "commit" /\ r.u = u /\ r.snap = row /\ r.tgt = t /\ r.addr = a
        /\ r.missed = NoCode /\ r.used = NoCode /\ r.reply = reply
    BY <1>1, <2>1, <2>2, <2>3 DEF Loaded
  <2>6. SafeRow(t, addrs)' /\ Held(t) \subseteq Held(row) \cup {k} /\ CodeTarget(t) = CodeTarget(row)
    BY <1>2, <2>1, <2>2, <2>4, DrawnSafe DEF db
  <2>7. t \in Row /\ t.code = k /\ k # NoCode
    BY <2>1, <2>2, <2>4, DrawnRow
  <2>8. Held(t) \subseteq Held(rows[u]) \cup {nextCode}
    BY <1>1, <2>1, <2>6
  <2>9. Mailing(r)
    BY <1>1, <2>5, <2>6, <2>7 DEF Mailing
  <2>10. SignsIn(c, r)
    <3>1. t.tfa = row.tfa
      BY <2>2 DEF StoreCode, Row
    <3> QED
      BY <1>1, <2>5, <3>1 DEF SignsIn
  <2>11. Evidence(r, r.tgt)' = {} /\ proven'[u] = addrs
    BY <2>1, <2>5 DEF Evidence, db
  <2>12. SafeRow(r.tgt, proven[r.u] \cup Evidence(r, r.tgt))'
    <3>1. addrs \cup {} = addrs
      OBVIOUS
    <3> QED
      BY <2>5, <2>6, <2>11, <3>1
  <2> QED
    BY <1>1, <2>4, <2>5, <2>7, <2>8, <2>9, <2>10, <2>12, CommittingStep
<1> QED
  BY <1>3, <1>4

LEMMA ResendSafe ==
    ASSUME IInv, SInv, NEW c \in Clients, NEW u \in Users, Resend(c, u)
    PROVE  SInv'
<1>1. Live(u) /\ IssueVerification(c, "resend", u, cookie[c]) /\ cookie[c] \in Cookie
  BY Types DEF Resend, SessionUser
<1> QED
  BY <1>1, IssueVerificationSafe DEF Resend

LEMMA LoginSafe ==
    ASSUME IInv, SInv, NEW c \in Clients, NEW u \in Users, Login(c, u)
    PROVE  SInv'
<1>1. PICK row \in Row : row = rows[u]
  BY Types
<1>2. SafeRow(row, proven[u]) /\ Live(u) /\ UNCHANGED <<db, cookie, mailed>>
  BY <1>1, RowsAreSafe DEF Login
<1>3. CASE ~ row.tfa
  <2>1. PICK r : r = [Loaded(c, "login", "reply", u, rows[u]) EXCEPT !.reply = Session(u)]
    OBVIOUS
  <2>2. r.pc = "reply" /\ r.reply.uid = u /\ r.u = u
    BY <2>1 DEF Loaded, Session
  <2>3. Sound(c, r)'
    BY <1>1, <1>2, <1>3, <2>2 DEF Sound, SignsIn, db
  <2>4. Begin(c, r) /\ nextCode' = nextCode
    BY <1>1, <1>3, <2>1 DEF Login
  <2> QED
    BY <1>2, <2>2, <2>3, <2>4, MoveStep DEF Updates
<1>4. CASE row.tfa
  <2>1. PICK k, addrs : k = nextCode /\ addrs = proven[u]
    OBVIOUS
  <2>2. PICK t : t = StoreLoginCode(row, k)
    OBVIOUS
  <2>3. PICK r : r = [Loaded(c, "login", "commit", u, StoreLoginCode(rows[u], nextCode))
                        EXCEPT !.reply = Challenge(u)]
    OBVIOUS
  <2>4. Begin(c, r) /\ FreshCode
    BY <1>1, <1>4, <2>3 DEF Login
  <2>5. /\ r.op = "login" /\ r.pc = "commit" /\ r.u = u /\ r.snap = row /\ r.tgt = t
        /\ r.addr = None /\ r.missed = NoCode /\ r.used = NoCode /\ r.reply.uid = None
    BY <1>1, <2>1, <2>2, <2>3 DEF Loaded, Challenge
  <2>6. SafeRow(t, addrs)' /\ Held(t) \subseteq Held(row) \cup {k}
    BY <1>2, <2>1, <2>2, <2>4, DrawnSafe DEF db
  <2>7. t \in Row /\ t.lcode = k /\ k # NoCode
    BY <2>1, <2>2, <2>4, DrawnRow
  <2>8. Held(t) \subseteq Held(rows[u]) \cup {nextCode}
    BY <1>1, <2>1, <2>6
  <2>9. Mailing(r) /\ SignsIn(c, r)
    BY <2>5, <2>7 DEF Mailing, SignsIn
  <2>10. Evidence(r, r.tgt)' = {} /\ proven'[u] = addrs /\ addrs \cup {} = addrs
    BY <1>2, <2>1, <2>5 DEF Evidence, db
  <2>11. SafeRow(r.tgt, proven[r.u] \cup Evidence(r, r.tgt))'
    BY <2>5, <2>6, <2>10
  <2> QED
    BY <1>1, <1>2, <2>4, <2>5, <2>7, <2>8, <2>9, <2>11, CommittingStep
<1> QED
  BY <1>3, <1>4

(* A request that draws no code and goes to commit its edit of the row.    *)
LEMMA EditingStep ==
    ASSUME IInv, SInv, NEW c \in Clients,
           NEW u \in Users, Live(u), NEW row \in Row, row = rows[u],
           NEW r, r.pc = "commit", r.u = u, r.snap = row, r.op # "login",
           r.addr = None, r.tgt \in Row, Held(r.tgt) \subseteq Held(row),
           NEW more, more = Evidence(r, r.tgt), SafeRow(r.tgt, proven[u] \cup more),
           r.missed # NoCode =>
               \/ r.missed = r.tgt.code /\ misses[r.missed] < r.tgt.attempts
               \/ r.missed = r.tgt.lcode /\ misses[r.missed] < r.tgt.lattempts,
           r.used # NoCode => r.used \in Held(row) /\ r.used \notin Held(r.tgt),
           SignsIn(c, r), Begin(c, r), UNCHANGED <<db, cookie, nextCode, mailed>>
    PROVE  SInv'
<1>1. PICK t, addrs : t = r.tgt /\ addrs = proven[u] \cup more
  OBVIOUS
<1>2. SafeRow(t, addrs)'
  BY <1>1, SafeStays, CodeTypes DEF db
<1>3. proven'[u] \cup Evidence(r, r.tgt)' = addrs
  <2>1. Evidence(r, r.tgt)' = Evidence(r, r.tgt)
    BY DEF Evidence
  <2> QED
    BY <1>1, <2>1 DEF db
<1>4. SafeRow(r.tgt, proven[r.u] \cup Evidence(r, r.tgt))'
  BY <1>1, <1>2, <1>3
<1>5. Mailing(r)
  BY DEF Mailing
<1> QED
  BY <1>4, <1>5, CommittingStep

(* One miss more on the counter of a live code.                            *)
LEMMA MissSafe ==
    ASSUME IInv, NEW row \in Row, NEW addrs, SafeRow(row, addrs)
    PROVE  /\ row.attempts < MaxAttempts =>
                LET t == [row EXCEPT !.attempts = @ + 1] IN
                /\ t \in Row /\ SafeRow(t, addrs) /\ Held(t) = Held(row) /\ t.code = row.code
                /\ row.code # NoCode => misses[row.code] < t.attempts
           /\ row.lattempts < MaxAttempts =>
                LET t == [row EXCEPT !.lattempts = @ + 1] IN
                /\ t \in Row /\ SafeRow(t, addrs) /\ Held(t) = Held(row) /\ t.lcode = row.lcode
                /\ row.lcode # NoCode => misses[row.lcode] < t.lattempts
<1>1. PICK n, m : n = row.attempts /\ m = row.lattempts
  OBVIOUS
<1>2. n \in 0..MaxAttempts /\ m \in 0..MaxAttempts
  BY <1>1 DEF Row
<1>3. \A k \in Codes : misses[k] \in Nat
  BY BoundsAssumption DEF IInv, TypeOK
<1>4. ASSUME n < MaxAttempts
      PROVE  LET t == [row EXCEPT !.attempts = @ + 1] IN
             /\ t \in Row /\ SafeRow(t, addrs) /\ Held(t) = Held(row) /\ t.code = row.code
             /\ row.code # NoCode => misses[row.code] < t.attempts
  <2>1. PICK p : p = n + 1
    OBVIOUS
  <2>2. p \in 0..MaxAttempts /\ p >= n
    BY <1>2, <1>4, <2>1, BoundsAssumption
  <2>3. PICK t : t = [row EXCEPT !.attempts = p]
    OBVIOUS
  <2>4. t \in Row
    BY <2>2, <2>3, Zenon DEF Row
  <2>5. /\ t.code = row.code /\ t.lcode = row.lcode /\ t.lattempts = row.lattempts
        /\ t.attempts = p /\ t.pending = row.pending /\ t.email = row.email
        /\ t.verified = row.verified /\ t.sub = row.sub /\ t.tfa = row.tfa
    BY <2>3 DEF Row
  <2>6. Proved(t, addrs) /\ (t.sub # None => ~ t.tfa)
    BY <2>5 DEF SafeRow, Proved
  <2>7. m >= m
    BY <1>2, BoundsAssumption
  <2>8. SafeRow(t, addrs)
    BY <1>1, <2>2, <2>4, <2>5, <2>6, <2>7, DerivedSafe
  <2>9. ASSUME row.code # NoCode PROVE misses[row.code] < p
    <3>1. row.code \in Codes /\ misses[row.code] <= n
      BY <1>1, <2>9 DEF SafeRow, CodesOK, Row
    <3>2. PICK x : x = misses[row.code]
      OBVIOUS
    <3> QED
      BY <1>2, <1>3, <2>1, <3>1, <3>2, BoundsAssumption
  <2>10. Held(t) = Held(row)
    BY <2>5 DEF Held
  <2>11. t = [row EXCEPT !.attempts = @ + 1]
    BY <1>1, <2>1, <2>3
  <2> QED
    BY <2>4, <2>5, <2>8, <2>9, <2>10, <2>11
<1>5. ASSUME m < MaxAttempts
      PROVE  LET t == [row EXCEPT !.lattempts = @ + 1] IN
             /\ t \in Row /\ SafeRow(t, addrs) /\ Held(t) = Held(row) /\ t.lcode = row.lcode
             /\ row.lcode # NoCode => misses[row.lcode] < t.lattempts
  <2>1. PICK p : p = m + 1
    OBVIOUS
  <2>2. p \in 0..MaxAttempts /\ p >= m
    BY <1>2, <1>5, <2>1, BoundsAssumption
  <2>3. PICK t : t = [row EXCEPT !.lattempts = p]
    OBVIOUS
  <2>4. t \in Row
    BY <2>2, <2>3, Zenon DEF Row
  <2>5. /\ t.code = row.code /\ t.lcode = row.lcode /\ t.attempts = row.attempts
        /\ t.lattempts = p /\ t.pending = row.pending /\ t.email = row.email
        /\ t.verified = row.verified /\ t.sub = row.sub /\ t.tfa = row.tfa
    BY <2>3 DEF Row
  <2>6. Proved(t, addrs) /\ (t.sub # None => ~ t.tfa)
    BY <2>5 DEF SafeRow, Proved
  <2>7. n >= n
    BY <1>2, BoundsAssumption
  <2>8. SafeRow(t, addrs)
    BY <1>1, <2>2, <2>4, <2>5, <2>6, <2>7, DerivedSafe
  <2>9. ASSUME row.lcode # NoCode PROVE misses[row.lcode] < p
    <3>1. row.lcode \in Codes /\ misses[row.lcode] <= m
      BY <1>1, <2>9 DEF SafeRow, CodesOK, Row
    <3>2. PICK x : x = misses[row.lcode]
      OBVIOUS
    <3> QED
      BY <1>2, <1>3, <2>1, <3>1, <3>2, BoundsAssumption
  <2>10. Held(t) = Held(row)
    BY <2>5 DEF Held
  <2>11. t = [row EXCEPT !.lattempts = @ + 1]
    BY <1>1, <2>1, <2>3
  <2> QED
    BY <2>4, <2>5, <2>8, <2>9, <2>10, <2>11
<1> QED
  BY <1>1, <1>4, <1>5

LEMMA LoginTwoFactorSafe ==
    ASSUME IInv, SInv, NEW c \in Clients, NEW guess, LoginTwoFactor(c, guess)
    PROVE  SInv'
<1> DEFINE u == cookie[c].pend
<1>1. u \in Users /\ Live(u) /\ UNCHANGED <<db, cookie, nextCode, mailed>>
  BY Types DEF LoginTwoFactor, Cookie
<1>2. PICK row \in Row : row = rows[u]
  BY <1>1, Types
<1>3. PICK addrs : addrs = proven[u]
  OBVIOUS
<1>4. SafeRow(row, addrs) /\ row.lcode # NoCode /\ row.lattempts < MaxAttempts
  BY <1>1, <1>2, <1>3, RowsAreSafe DEF LoginTwoFactor, Judges
<1> HIDE DEF u
<1>5. CASE guess = "wrong"
  <2>1. PICK t : t = [row EXCEPT !.lattempts = @ + 1]
    OBVIOUS
  <2>2. PICK r : r = [Loaded(c, "login2fa", "commit", u, t) EXCEPT !.missed = row.lcode]
    OBVIOUS
  <2>3. Begin(c, r)
    BY <1>2, <1>5, <2>1, <2>2 DEF LoginTwoFactor, u
  <2>4. /\ r.op = "login2fa" /\ r.pc = "commit" /\ r.u = u /\ r.snap = row /\ r.tgt = t
        /\ r.addr = None /\ r.missed = row.lcode /\ r.used = NoCode /\ r.reply = cookie[c]
    BY <1>2, <2>2 DEF Loaded
  <2>5. /\ t \in Row /\ SafeRow(t, addrs) /\ Held(t) = Held(row) /\ t.lcode = row.lcode
        /\ misses[row.lcode] < t.lattempts
    BY <1>4, <2>1, MissSafe
  <2>6. Evidence(r, r.tgt) = {} /\ addrs \cup {} = addrs
    BY <2>4 DEF Evidence
  <2>7. SignsIn(c, r)
    BY <2>4 DEF SignsIn
  <2> QED
    BY <1>1, <1>2, <1>3, <2>3, <2>4, <2>5, <2>6, <2>7, EditingStep
<1>6. CASE guess # "wrong"
  <2>1. PICK t : t = ClearLoginCode(row)
    OBVIOUS
  <2>2. PICK r : r = [Loaded(c, "login2fa", "commit", u, t)
                        EXCEPT !.used = row.lcode, !.reply = Session(u)]
    OBVIOUS
  <2>3. Begin(c, r) /\ mailed[row.lcode] # None
    BY <1>2, <1>6, <2>1, <2>2 DEF LoginTwoFactor, Readable, u
  <2>4. /\ r.op = "login2fa" /\ r.pc = "commit" /\ r.u = u /\ r.snap = row /\ r.tgt = t
        /\ r.addr = None /\ r.missed = NoCode /\ r.used = row.lcode /\ r.reply.uid = u
    BY <1>2, <2>2 DEF Loaded, Session
  <2>5. t \in Row /\ SafeRow(t, addrs) /\ Held(t) = Held(row) \ {row.lcode}
    BY <1>4, <2>1, RowChanges, SafeEdits
  <2>6. Evidence(r, r.tgt) = {} /\ addrs \cup {} = addrs
    BY <2>4 DEF Evidence
  <2>7. t.lcode = NoCode
    BY <2>1 DEF ClearLoginCode, Row
  <2>8. SignsIn(c, r)
    BY <1>4, <2>3, <2>4, <2>7 DEF SignsIn
  <2>9. row.lcode \in Held(row)
    BY <1>4 DEF Held
  <2> QED
    BY <1>1, <1>2, <1>3, <2>3, <2>4, <2>5, <2>6, <2>8, <2>9, EditingStep
<1> QED
  BY <1>5, <1>6

LEMMA VerifySafe ==
    ASSUME IInv, SInv, NEW c \in Clients, NEW u \in Users, NEW guess,
           Verify(c, u, guess)
    PROVE  SInv'
<1>1. Live(u) /\ UNCHANGED <<db, cookie, nextCode, mailed>>
  BY DEF Verify, SessionUser
<1>2. PICK row \in Row : row = rows[u]
  BY Types
<1>3. PICK addrs : addrs = proven[u]
  OBVIOUS
<1>4. /\ SafeRow(row, addrs) /\ row.code # NoCode /\ row.attempts < MaxAttempts
      /\ ~ (row.verified /\ row.pending = None)
  BY <1>2, <1>3, RowsAreSafe DEF Verify, Judges
<1>5. CASE guess = "wrong"
  <2>1. PICK t : t = [row EXCEPT !.attempts = @ + 1]
    OBVIOUS
  <2>2. PICK r : r = [Loaded(c, "verify", "commit", u, t) EXCEPT !.missed = row.code]
    OBVIOUS
  <2>3. Begin(c, r)
    BY <1>2, <1>5, <2>1, <2>2 DEF Verify
  <2>4. /\ r.op = "verify" /\ r.pc = "commit" /\ r.u = u /\ r.snap = row /\ r.tgt = t
        /\ r.addr = None /\ r.missed = row.code /\ r.used = NoCode /\ r.reply = cookie[c]
    BY <1>2, <2>2 DEF Loaded
  <2>5. /\ t \in Row /\ SafeRow(t, addrs) /\ Held(t) = Held(row) /\ t.code = row.code
        /\ misses[row.code] < t.attempts
    BY <1>4, <2>1, MissSafe
  <2>6. Evidence(r, r.tgt) = {} /\ addrs \cup {} = addrs
    BY <2>4 DEF Evidence
  <2>7. SignsIn(c, r)
    BY <2>4 DEF SignsIn
  <2> QED
    BY <1>1, <1>2, <1>3, <2>3, <2>4, <2>5, <2>6, <2>7, EditingStep
<1>6. CASE guess # "wrong" /\ row.pending = None
  <2>1. PICK p \in Row : p = [row EXCEPT !.verified = TRUE]
    <3>1. [row EXCEPT !.verified = TRUE] \in Row
      BY Zenon DEF Row
    <3> QED
      BY <3>1
  <2>2. PICK t \in Row : t = ClearCode(p)
    BY RowChanges
  <2>3. PICK r : r = [Loaded(c, "verify", "commit", u, t) EXCEPT !.used = row.code]
    OBVIOUS
  <2>4. Begin(c, r) /\ mailed[row.code] # None
    BY <1>2, <1>6, <2>1, <2>2, <2>3 DEF Verify, Readable
  <2>5. /\ r.op = "verify" /\ r.pc = "commit" /\ r.u = u /\ r.snap = row /\ r.tgt = t
        /\ r.addr = None /\ r.missed = NoCode /\ r.used = row.code /\ r.reply = cookie[c]
    BY <1>2, <2>3 DEF Loaded
  <2>6. /\ t.code = NoCode /\ t.lcode = row.lcode /\ t.lattempts = row.lattempts
        /\ t.email = row.email /\ t.sub = row.sub /\ t.tfa = row.tfa
    BY <2>1, <2>2 DEF ClearCode, Row
  <2>7. mailed[row.code] = row.email
    BY <1>4, <1>6, <2>4 DEF SafeRow, CodesOK, CodeTarget
  <2>8. Evidence(r, r.tgt) = {row.email}
    BY <1>4, <2>4, <2>5, <2>7 DEF Evidence
  <2>9. PICK more : more = Evidence(r, r.tgt)
    OBVIOUS
  <2>10. Proved(t, addrs \cup more) /\ (t.sub # None => ~ t.tfa)
    BY <1>4, <2>6, <2>8, <2>9 DEF Proved, SafeRow
  <2>11. row.lattempts >= row.lattempts
    BY BoundsAssumption DEF Row
  <2>12. SafeRow(t, addrs \cup more) /\ Held(t) \subseteq Held(row)
    BY <1>4, <2>6, <2>10, <2>11, DerivedSafe
  <2>13. row.code \in Held(row) /\ row.code \notin Held(t)
    BY <1>4, <2>6 DEF Held, SafeRow, CodesOK
  <2>14. SignsIn(c, r)
    BY <2>5 DEF SignsIn
  <2> QED
    BY <1>1, <1>2, <1>3, <2>4, <2>5, <2>9, <2>12, <2>13, <2>14, EditingStep
<1>7. CASE guess # "wrong" /\ row.pending # None
  <2>1. PICK r : r = [Loaded(c, "verify", "probe", u, row) EXCEPT !.used = row.code]
    OBVIOUS
  <2>2. Begin(c, r) /\ mailed[row.code] # None
    BY <1>2, <1>7, <2>1 DEF Verify, Readable
  <2>3. /\ r.op = "verify" /\ r.pc = "probe" /\ r.u = u /\ r.snap = row
        /\ r.addr = None /\ r.missed = NoCode /\ r.used = row.code /\ r.reply = cookie[c]
    BY <1>2, <2>1 DEF Loaded
  <2>4. Probing(r)' /\ SignsIn(c, r)'
    BY <1>1, <1>4, <2>2, <2>3 DEF Probing, SignsIn
  <2>5. Sound(c, r)'
    BY <1>1, <1>2, <2>3, <2>4 DEF Sound, Live, db
  <2> QED
    BY <1>1, <2>2, <2>3, <2>5, MoveStep DEF Updates
<1> QED
  BY <1>5, <1>6, <1>7

LEMMA PatchSafe ==
    ASSUME IInv, SInv, NEW c \in Clients, NEW u \in Users,
           NEW a \in Addrs \cup {None}, NEW t \in {"on", "off", "omit"}, Patch(c, u, a, t)
    PROVE  SInv'
<1>1. Live(u) /\ UNCHANGED <<db, cookie, nextCode, mailed>>
  BY DEF Patch, SessionUser
<1>2. PICK row \in Row : row = rows[u]
  BY Types
<1>3. PICK addrs : addrs = proven[u]
  OBVIOUS
<1>4. SafeRow(row, addrs)
  BY <1>2, <1>3, RowsAreSafe
<1> DEFINE changing == a # None /\ a # row.email
           toggling == t # "omit" /\ (t = "on") # row.tfa
           turned == [row EXCEPT !.tfa = (t = "on")]
           toggled == IF toggling THEN ClearLoginCode(turned) ELSE row
           dropped == [toggled EXCEPT !.pending = None]
           kept == IF a # None /\ row.pending # None THEN ClearCode(dropped) ELSE toggled
<1>5. toggling => row.sub = None
  BY <1>2 DEF Patch, ToggleAllowed
<1>6. Begin(c, IF changing THEN [Loaded(c, "patch", "probe", u, toggled) EXCEPT !.addr = a]
               ELSE Loaded(c, "patch", "commit", u, kept))
  BY <1>2 DEF Patch
<1>7. turned \in Row
  BY Zenon DEF Row
<1>8. PICK g \in Row : g = toggled
  BY <1>7, RowChanges
<1>9. row.attempts >= row.attempts /\ row.lattempts >= row.lattempts
  BY BoundsAssumption DEF Row
<1>10. SafeRow(g, addrs) /\ Held(g) \subseteq Held(row)
  <2>1. CASE toggling
    <3>1. /\ g.lcode = NoCode /\ g.code = row.code /\ g.attempts = row.attempts
          /\ g.pending = row.pending /\ g.email = row.email /\ g.verified = row.verified
          /\ g.sub = row.sub
      BY <1>8, <2>1 DEF ClearLoginCode, Row
    <3>2. Proved(g, addrs) /\ (g.sub # None => ~ g.tfa)
      BY <1>4, <1>5, <2>1, <3>1 DEF Proved, SafeRow
    <3> QED
      BY <1>4, <1>9, <3>1, <3>2, DerivedSafe
  <2>2. CASE ~ toggling
    BY <1>4, <1>8, <2>2
  <2> QED
    BY <2>1, <2>2
<1>11. PICK h \in Row : h = kept
  <2>1. [g EXCEPT !.pending = None] \in Row
    BY Zenon DEF Row
  <2> QED
    BY <1>8, <2>1, RowChanges
<1>12. SafeRow(h, addrs) /\ Held(h) \subseteq Held(row)
  <2>1. CASE a # None /\ row.pending # None
    <3>1. /\ h.code = NoCode /\ h.lcode = g.lcode /\ h.lattempts = g.lattempts
          /\ h.email = g.email /\ h.verified = g.verified /\ h.sub = g.sub /\ h.tfa = g.tfa
      BY <1>8, <1>11, <2>1 DEF ClearCode, Row
    <3>2. Proved(h, addrs) /\ (h.sub # None => ~ h.tfa)
      BY <1>10, <3>1 DEF Proved, SafeRow
    <3>3. g.lattempts >= g.lattempts
      BY BoundsAssumption DEF Row
    <3>4. SafeRow(h, addrs) /\ Held(h) \subseteq Held(g)
      BY <1>10, <3>1, <3>2, <3>3, DerivedSafe
    <3> QED
      BY <1>10, <3>4
  <2>2. CASE ~ (a # None /\ row.pending # None)
    BY <1>8, <1>10, <1>11, <2>2
  <2> QED
    BY <2>1, <2>2
<1> HIDE DEF toggled, kept
<1>13. CASE changing
  <2>1. PICK r : r = [Loaded(c, "patch", "probe", u, g) EXCEPT !.addr = a]
    OBVIOUS
  <2>2. /\ r.op = "patch" /\ r.pc = "probe" /\ r.u = u /\ r.snap = row /\ r.tgt = g
        /\ r.addr = a /\ r.missed = NoCode /\ r.used = NoCode /\ r.reply = cookie[c]
    BY <1>2, <2>1 DEF Loaded
  <2>3. SafeRow(g, addrs)'
    BY <1>1, <1>10, SafeStays, CodeTypes DEF db
  <2>4. proven'[u] = addrs
    BY <1>1, <1>3 DEF db
  <2>5. SafeRow(r.tgt, proven[r.u])'
    BY <2>2, <2>3, <2>4
  <2>6. Probing(r)' /\ SignsIn(c, r)'
    BY <1>1, <1>10, <1>13, <2>2, <2>5 DEF Probing, SignsIn
  <2>7. Sound(c, r)'
    BY <1>1, <1>2, <2>2, <2>6 DEF Sound, Live, db
  <2> QED
    BY <1>1, <1>6, <1>8, <1>13, <2>1, <2>2, <2>7, MoveStep DEF Updates
<1>14. CASE ~ changing
  <2>1. PICK r : r = Loaded(c, "patch", "commit", u, h)
    OBVIOUS
  <2>2. /\ r.op = "patch" /\ r.pc = "commit" /\ r.u = u /\ r.snap = row /\ r.tgt = h
        /\ r.addr = None /\ r.missed = NoCode /\ r.used = NoCode /\ r.reply = cookie[c]
    BY <1>2, <2>1 DEF Loaded
  <2>3. Evidence(r, r.tgt) = {} /\ addrs \cup {} = addrs
    BY <2>2 DEF Evidence
  <2>4. SignsIn(c, r)
    BY <2>2 DEF SignsIn
  <2>5. Begin(c, r)
    BY <1>6, <1>11, <1>14, <2>1
  <2> QED
    BY <1>1, <1>2, <1>3, <1>12, <2>2, <2>3, <2>4, <2>5, EditingStep
<1> QED
  BY <1>13, <1>14

LEMMA CallbackSafe ==
    ASSUME IInv, SInv, NEW c \in Clients, NEW s \in Subs,
           NEW a \in Addrs \cup {None}, Callback(c, s, a)
    PROVE  SInv'
<1>1. UNCHANGED <<db, cookie, nextCode, mailed>>
  BY DEF Callback
<1>2. ASSUME NEW u \in Users, Live(u), NEW row \in Row, row = rows[u], NEW g \in Row,
             g.code = row.code, g.attempts = row.attempts, g.pending = row.pending,
             g.email = row.email, g.verified = row.verified, ~ g.tfa,
             g.lcode = NoCode \/ (g.lcode = row.lcode /\ g.lattempts = row.lattempts),
             Begin(c, [Loaded(c, "callback", "commit", u, SignedIn(g, s, a))
                         EXCEPT !.reply.uid = u])
      PROVE  SInv'
  <2>1. PICK t \in Row : t = SignedIn(g, s, a)
    <3>1. [g EXCEPT !.sub = s] \in Row
      BY Zenon DEF Row
    <3>2. [g EXCEPT !.sub = s, !.email = a, !.verified = TRUE] \in Row
      BY Zenon DEF Row
    <3> QED
      BY <3>1, <3>2 DEF SignedIn
  <2>2. /\ t.code = row.code /\ t.attempts = row.attempts /\ t.pending = row.pending
        /\ t.verified \/ (t.verified = row.verified /\ t.email = row.email)
        /\ t.lcode = g.lcode /\ t.lattempts = g.lattempts /\ t.tfa = g.tfa
    BY <1>2, <2>1 DEF SignedIn, Row
  <2>3. PICK r : r = [Loaded(c, "callback", "commit", u, t) EXCEPT !.reply.uid = u]
    OBVIOUS
  <2>4. cookie[c] \in Cookie
    BY Types
  <2>5. /\ r.op = "callback" /\ r.pc = "commit" /\ r.u = u /\ r.snap = row /\ r.tgt = t
        /\ r.addr = None /\ r.missed = NoCode /\ r.used = NoCode /\ r.reply.uid = u
    BY <1>2, <2>3, <2>4 DEF Loaded, Cookie
  <2>6. PICK more : more = Evidence(r, r.tgt)
    OBVIOUS
  <2>7. PICK addrs : addrs = proven[u]
    OBVIOUS
  <2>8. Proved(t, addrs \cup more) /\ (t.sub # None => ~ t.tfa)
    BY <1>2, <2>2, <2>5, <2>6 DEF Proved, Evidence
  <2>9. row.attempts >= row.attempts /\ row.lattempts >= row.lattempts
    BY BoundsAssumption DEF Row
  <2>10. SafeRow(row, addrs)
    BY <1>2, <2>7, RowsAreSafe
  <2>11. SafeRow(t, addrs \cup more) /\ Held(t) \subseteq Held(row)
    BY <1>2, <2>2, <2>8, <2>9, <2>10, DerivedSafe
  <2>12. SignsIn(c, r)
    BY <1>2, <2>2, <2>5 DEF SignsIn
  <2>13. Begin(c, r)
    BY <1>2, <2>1, <2>3
  <2>14. r.used = NoCode /\ r.missed = NoCode /\ r.op # "login"
    BY <2>5
  <2> QED
    BY <1>1, <1>2, <2>5, <2>6, <2>7, <2>11, <2>12, <2>13, <2>14, EditingStep
<1>3. CASE \E u \in Users : /\ Live(u) /\ rows[u].sub = s
                            /\ Begin(c, [Loaded(c, "callback", "commit", u,
                                                 SignedIn(rows[u], s, a))
                                            EXCEPT !.reply.uid = u])
  <2>1. PICK u \in Users : /\ Live(u) /\ rows[u].sub = s
                            /\ Begin(c, [Loaded(c, "callback", "commit", u,
                                                 SignedIn(rows[u], s, a))
                                            EXCEPT !.reply.uid = u])
    BY <1>3
  <2>2. PICK row \in Row : row = rows[u]
    BY Types
  <2>3. ~ row.tfa
    BY <2>1, <2>2, RowsAreSafe, NoneAssumption DEF SafeRow
  <2> QED
    BY <1>2, <2>1, <2>2, <2>3
<1>4. CASE \E u \in Users : /\ Live(u)
                            /\ Begin(c, [Loaded(c, "callback", "commit", u,
                                                 SignedIn(Linked(rows[u]), s, a))
                                            EXCEPT !.reply.uid = u])
  <2>1. PICK u \in Users : /\ Live(u)
                            /\ Begin(c, [Loaded(c, "callback", "commit", u,
                                                 SignedIn(Linked(rows[u]), s, a))
                                            EXCEPT !.reply.uid = u])
    BY <1>4
  <2>2. PICK row \in Row : row = rows[u]
    BY Types
  <2>3. PICK g \in Row : g = Linked(row)
    <3>1. [row EXCEPT !.pwd = FALSE, !.tfa = FALSE] \in Row
      BY Zenon DEF Row
    <3>2. Linked(row) \in Row
      BY <3>1, RowChanges DEF Linked
    <3> QED
      BY <3>2
  <2>4. ~ row.pwd => ~ row.tfa
    BY <2>1, <2>2, RowsAreSafe, Types DEF SafeRow, RowOK
  <2>5. /\ g.code = row.code /\ g.attempts = row.attempts /\ g.pending = row.pending
        /\ g.email = row.email /\ g.verified = row.verified /\ ~ g.tfa
        /\ g.lcode = NoCode \/ (g.lcode = row.lcode /\ g.lattempts = row.lattempts)
    BY <2>3, <2>4 DEF Linked, ClearLoginCode, Row
  <2> QED
    BY <1>2, <2>1, <2>2, <2>3, <2>5
<1>5. CASE Begin(c, Inserting(c, "callback", SignedIn(NewRow, s, a)))
  <2>1. PICK r : r = Inserting(c, "callback", SignedIn(NewRow, s, a))
    OBVIOUS
  <2>2. r.pc = "insert" /\ Held(r.tgt) = {} /\ ~ r.tgt.tfa
    BY <2>1 DEF Inserting, SignedIn, NewRow, Held
  <2>3. Sound(c, r)'
    BY <2>2 DEF Sound
  <2> QED
    BY <1>1, <1>5, <2>1, <2>2, <2>3, MoveStep DEF Updates
<1> QED
  BY <1>3, <1>4, <1>5 DEF Callback

LEMMA DeleteMeSafe ==
    ASSUME IInv, SInv, NEW c \in Clients, NEW u \in Users, DeleteMe(c, u)
    PROVE  SInv'
<1>1. PICK r : r = [Loaded(c, "delete", "commit", u, rows[u]) EXCEPT !.reply = NoCookie]
  OBVIOUS
<1>2. /\ r.op = "delete" /\ r.pc = "commit" /\ r.u = u /\ r.snap = rows[u]
      /\ r.addr = None /\ r.reply.uid = None
  BY <1>1 DEF Loaded, NoCookie
<1>3. Mailing(r) /\ SignsIn(c, r)
  BY <1>2 DEF Mailing, SignsIn
<1> QED
  BY <1>1, <1>2, <1>3, CommittingStep DEF DeleteMe, SessionUser

(* The reply of a request that left the database as it was.                *)
LEMMA EndSafe ==
    ASSUME IInv, SInv, NEW c \in Clients, Done(c),
           UNCHANGED <<db, mailed>>, nextCode' = nextCode,
           \A d \in Clients \ {c} : cookie'[d] = cookie[d]
    PROVE  SInv'
<1>1. PICK r : r = Idle
  OBVIOUS
<1>2. r.pc = "idle" /\ Begin(c, r)
  BY <1>1 DEF Idle, Done
<1> QED
  BY <1>2, IdleSound, MoveStep DEF Updates

(* Cookies of clients that wait for no reply, and time, do not matter.     *)
LEMMA CookieSafe ==
    ASSUME IInv, SInv, UNCHANGED <<db, req, nextCode, mailed>>,
           \A d \in Clients : cookie'[d] = cookie[d] \/ req[d].pc = "idle"
    PROVE  SInv'
<1>1. CodesApart' /\ Unissued' /\ AttemptCap' /\ SingleUse'
  BY DEF SInv, CodesApart, Updates, Unissued, AttemptCap, SingleUse, db
<1>2. SafeRows'
  BY DEF SInv, SafeRows, SafeRow, CodesOK, Proved, OwnCodes, db
<1>3. ASSUME NEW d \in Clients PROVE Sound(d, req[d])'
  <2>1. PICK q : q = req[d]
    OBVIOUS
  <2>2. req'[d] = q /\ Sound(d, q)
    BY <2>1 DEF SInv, Requests
  <2>3. CASE q.pc = "idle"
    BY <2>2, <2>3, IdleSound
  <2>4. CASE cookie'[d] = cookie[d]
    <3>1. (q.pc = "commit" /\ q.op # "delete" => Ready(q)') /\ (q.pc = "probe" => Probing(q)')
      BY <2>2 DEF Sound, Ready, Probing, SafeRow, CodesOK, Proved, OwnCodes, Evidence, db
    <3>2. Mailing(q)' <=> Mailing(q)
      BY DEF Mailing
    <3>3. q.pc \notin {"idle", "insert"} => SignsIn(d, q)'
      BY <2>2, <2>4 DEF Sound, SignsIn, db
    <3>4. Sound(d, q)'
      BY <2>2, <3>1, <3>2, <3>3 DEF Sound, Live, db
    <3> QED
      BY <2>2, <3>4
  <2> QED
    BY <2>1, <2>3, <2>4
<1> QED
  BY <1>1, <1>2, <1>3 DEF SInv, Requests

LEMMA EndsSafe ==
    ASSUME IInv, SInv, NEW c \in Clients,
           \/ LoginTwoFactorStale(c) \/ Logout(c) \/ StaleCookie(c)
           \/ InsertRefused(c) \/ CommitFails(c) \/ Crash(c) \/ Reply(c)
    PROVE  SInv'
<1>1. CASE InsertRefused(c) \/ CommitFails(c) \/ Crash(c) \/ Reply(c)
  <2>1. Done(c) /\ UNCHANGED <<db, mailed, nextCode>>
    BY <1>1 DEF InsertRefused, CommitFails, Crash, Reply
  <2>2. \A d \in Clients \ {c} : cookie'[d] = cookie[d]
    BY <1>1 DEF InsertRefused, CommitFails, Crash, Reply, Replies, IInv, TypeOK
  <2> QED
    BY <2>1, <2>2, EndSafe
<1>2. CASE LoginTwoFactorStale(c) \/ Logout(c) \/ StaleCookie(c)
  <2>1. req[c].pc = "idle" /\ UNCHANGED <<db, req, nextCode, mailed>>
    BY <1>2 DEF LoginTwoFactorStale, Logout, StaleCookie, Enter
  <2>2. \A d \in Clients : d # c => cookie'[d] = cookie[d]
    BY <1>2 DEF LoginTwoFactorStale, Logout, StaleCookie, IInv, TypeOK
  <2> QED
    BY <2>1, <2>2, CookieSafe
<1> QED
  BY <1>1, <1>2

LEMMA IssueSafe ==
    ASSUME IInv, SInv, NEW c \in Clients, Issue(c)
    PROVE  SInv'
<1>1. PICK r : r = req[c]
  OBVIOUS
<1>2. /\ r.pc = "issue" /\ Sound(c, r) /\ r.u \in Users /\ r.reply \in Cookie
  BY <1>1, Types DEF Issue, RequestOK, Request, SInv, Requests
<1>3. CASE Live(r.u)
  <2>1. IssueVerification(c, "register", r.u, r.reply)
    BY <1>1, <1>3 DEF Issue
  <2>2. r.reply.uid \in {None, cookie[c].uid} \/ (r.reply.uid = r.u /\ ~ rows[r.u].tfa)
    BY <1>2 DEF Sound, SignsIn
  <2> QED
    BY <1>1, <1>2, <1>3, <2>1, <2>2, IssueVerificationSafe DEF Issue
<1>4. CASE ~ Live(r.u)
  BY <1>1, <1>2, <1>4, EndSafe DEF Issue
<1> QED
  BY <1>3, <1>4

LEMMA ProbeVerifySafe ==
    ASSUME IInv, SInv, NEW c \in Clients, ProbeVerify(c)
    PROVE  SInv'
<1>1. PICK r : r = req[c]
  OBVIOUS
<1>2. /\ r \in Request /\ RequestOK(r) /\ Sound(c, r) /\ r.pc = "probe" /\ r.op = "verify"
      /\ UNCHANGED <<db, cookie, nextCode, mailed>>
  BY <1>1, Types DEF ProbeVerify, SInv, Requests
<1>3. PICK row \in Row : row = r.snap
  BY <1>2 DEF Request
<1>4. PICK u \in Users : u = r.u
  BY <1>2 DEF RequestOK
<1>5. PICK addrs : addrs = proven[u]
  OBVIOUS
<1>6. Live(u) /\ rows[u] = row /\ Probing(r) /\ SignsIn(c, r) /\ row.pending # None
  BY <1>2, <1>3, <1>4 DEF Sound, RequestOK
<1>7. SafeRow(row, addrs)
  BY <1>5, <1>6, RowsAreSafe
<1>8. /\ r.missed = NoCode /\ r.addr = None /\ r.used # NoCode /\ r.used = row.code
      /\ mailed[row.code] # None
  BY <1>2, <1>3, <1>6 DEF Probing
<1> DEFINE unset == [row EXCEPT !.pending = None]
           moved == [row EXCEPT !.email = row.pending, !.pending = None, !.verified = TRUE]
<1>9. unset \in Row /\ moved \in Row
  BY <1>6, Zenon DEF Row
<1>10. PICK t \in Row : t = IF EmailTaken(u, row.pending) THEN ClearCode(unset) ELSE ClearCode(moved)
  BY <1>9, RowChanges
<1>11. PICK q : q = [r EXCEPT !.pc = "commit", !.tgt = t]
  OBVIOUS
<1>12. Begin(c, q)
  BY <1>1, <1>3, <1>4, <1>10, <1>11 DEF ProbeVerify, Begin
<1>13. /\ q.pc = "commit" /\ q.tgt = t /\ q.op = "verify" /\ q.u = u /\ q.snap = row
       /\ q.addr = None /\ q.missed = NoCode /\ q.used = row.code /\ q.reply = r.reply
  BY <1>2, <1>3, <1>4, <1>8, <1>11 DEF Request
<1>14. mailed[row.code] = row.pending
  BY <1>6, <1>7, <1>8 DEF SafeRow, CodesOK, CodeTarget
<1>15. PICK more : more = Evidence(q, q.tgt)
  OBVIOUS
<1>16. more = {row.pending}
  BY <1>8, <1>13, <1>14, <1>15 DEF Evidence
<1>17. /\ t.code = NoCode /\ t.lcode = row.lcode /\ t.lattempts = row.lattempts
       /\ t.sub = row.sub /\ t.tfa = row.tfa
       /\ t.email = row.pending \/ (t.email = row.email /\ t.verified = row.verified)
  BY <1>10 DEF ClearCode, Row
<1>18. Proved(t, addrs \cup more) /\ (t.sub # None => ~ t.tfa)
  BY <1>7, <1>16, <1>17 DEF Proved, SafeRow
<1>19. row.lattempts >= row.lattempts
  BY BoundsAssumption DEF Row
<1>20. SafeRow(t, addrs \cup more) /\ Held(t) \subseteq Held(row)
  BY <1>7, <1>17, <1>18, <1>19, DerivedSafe
<1>21. row.code \in Held(row) /\ row.code \notin Held(t)
  BY <1>7, <1>8, <1>17 DEF Held, SafeRow, CodesOK
<1>22. SignsIn(c, q)
  BY <1>2, <1>4, <1>6, <1>13 DEF SignsIn
<1> QED
  BY <1>2, <1>5, <1>6, <1>12, <1>13, <1>15, <1>20, <1>21, <1>22, EditingStep

LEMMA ProbePatchSafe ==
    ASSUME IInv, SInv, NEW c \in Clients, ProbePatch(c)
    PROVE  SInv'
<1>1. PICK r : r = req[c]
  OBVIOUS
<1>2. /\ r \in Request /\ RequestOK(r) /\ Sound(c, r) /\ r.pc = "probe" /\ r.op = "patch"
      /\ UNCHANGED <<db, cookie, mailed>>
  BY <1>1, Types DEF ProbePatch, SInv, Requests
<1>3. CASE EmailTaken(r.u, r.addr)
  BY <1>1, <1>2, <1>3, EndSafe DEF ProbePatch
<1>4. CASE ~ EmailTaken(r.u, r.addr)
  <2>1. PICK row \in Row, g \in Row : row = r.snap /\ g = r.tgt
    BY <1>2 DEF Request
  <2>2. PICK u \in Users : u = r.u
    BY <1>2 DEF RequestOK
  <2>3. PICK addrs, k : addrs = proven[u] /\ k = nextCode
    OBVIOUS
  <2>4. /\ Live(u) /\ rows[u] = row /\ SignsIn(c, r) /\ r.addr # None /\ r.used = NoCode
        /\ r.missed = NoCode /\ SafeRow(g, addrs) /\ Held(g) \subseteq Held(row)
    BY <1>2, <2>1, <2>2, <2>3 DEF Sound, Probing
  <2>5. PICK w : w = [g EXCEPT !.pending = r.addr]
    OBVIOUS
  <2>6. w \in Row
    BY <1>2, <2>5, Zenon DEF Row, Request
  <2>7. PICK p \in Row : p = ClearCode(w)
    BY <2>6, RowChanges
  <2>8. /\ p.code = NoCode /\ p.lcode = g.lcode /\ p.lattempts = g.lattempts
        /\ p.email = g.email /\ p.verified = g.verified /\ p.sub = g.sub /\ p.tfa = g.tfa
        /\ p.pending = r.addr
    BY <2>5, <2>7 DEF ClearCode, Row
  <2>9. Proved(p, addrs) /\ (p.sub # None => ~ p.tfa)
    BY <2>4, <2>8 DEF Proved, SafeRow
  <2>10. g.lattempts >= g.lattempts
    BY BoundsAssumption DEF Row
  <2>11. SafeRow(p, addrs) /\ Held(p) \subseteq Held(g)
    BY <2>4, <2>8, <2>9, <2>10, DerivedSafe
  <2>12. PICK q : q = [r EXCEPT !.pc = "commit",
                                !.tgt = StoreCode([r.tgt EXCEPT !.pending = r.addr], nextCode)]
    OBVIOUS
  <2>13. Begin(c, q) /\ FreshCode
    BY <1>1, <1>4, <2>12 DEF ProbePatch, Begin
  <2>14. StoreCode(w, k) = StoreCode(p, k)
    BY <2>6, <2>7 DEF StoreCode, ClearCode, Row
  <2>15. PICK t \in Row : t = StoreCode(p, k)
    BY <2>3, <2>13, DrawnRow
  <2>16. /\ q.pc = "commit" /\ q.tgt = t /\ q.op = "patch" /\ q.u = u /\ q.snap = row
         /\ q.addr = r.addr /\ q.missed = NoCode /\ q.used = NoCode /\ q.reply = r.reply
    BY <1>2, <2>1, <2>2, <2>3, <2>4, <2>5, <2>12, <2>14, <2>15 DEF Request
  <2>17. SafeRow(t, addrs)' /\ Held(t) \subseteq Held(p) \cup {k} /\ CodeTarget(t) = CodeTarget(p)
    BY <1>2, <2>3, <2>11, <2>13, <2>15, DrawnSafe DEF db
  <2>18. t.code = k /\ k # NoCode
    BY <2>3, <2>13, <2>15, DrawnRow
  <2>19. Held(t) \subseteq Held(rows[u]) \cup {nextCode}
    BY <2>3, <2>4, <2>11, <2>17
  <2>20. Mailing(q)
    BY <2>4, <2>8, <2>16, <2>17, <2>18 DEF Mailing, CodeTarget
  <2>21. SignsIn(c, q)
    BY <1>2, <2>2, <2>4, <2>16 DEF SignsIn
  <2>22. Evidence(q, q.tgt)' = {} /\ proven'[u] = addrs /\ addrs \cup {} = addrs
    BY <1>2, <2>3, <2>16 DEF Evidence, db
  <2>23. SafeRow(q.tgt, proven[q.u] \cup Evidence(q, q.tgt))'
    BY <2>16, <2>17, <2>22
  <2> QED
    BY <1>2, <2>4, <2>13, <2>16, <2>19, <2>20, <2>21, <2>23, CommittingStep
<1> QED
  BY <1>3, <1>4

(* A step of a request on u that goes on to no commit: the requests on     *)
(* other accounts stay sound, whatever it writes to u and of u's codes.    *)
LEMMA OthersKept ==
    ASSUME IInv, SInv, NEW c \in Clients, NEW u \in Users, NEW q, Sound(c, q)', ~ Updates(q),
           \A d \in Clients : req'[d] = IF d = c THEN q ELSE req[d],
           \A d \in Clients \ {c} : cookie'[d] = cookie[d],
           \A v \in Users \ {u} :
               rows'[v] = rows[v] /\ status'[v] = status[v] /\ proven'[v] = proven[v],
           nextCode' = nextCode, rows'[u] \in Row, SafeRows',
           Untouched(Codes \ (Held(rows[u]) \cup Held(rows'[u]))),
           \A d \in Clients \ {c} : req[d].pc \notin {"idle", "insert"} => req[d].u # u,
           \A d \in Clients \ {c} : Updates(req[d]) => Held(req[d].tgt) \cap Held(rows'[u]) = {}
    PROVE  Requests' /\ CodesApart'
<1>1. ASSUME NEW d \in Clients, d # c PROVE Sound(d, req[d])'
  <2>1. PICK p \in Request : p = req[d]
    BY Types
  <2>2. req'[d] = p /\ Sound(d, p) /\ RequestOK(p) /\ cookie'[d] = cookie[d]
    BY <1>1, <2>1, Types DEF SInv, Requests
  <2>3. PICK t \in Row : t = p.tgt
    BY DEF Request
  <2>4. \A row \in Row : Held(row) \subseteq Codes
    BY DEF Held, Row
  <2>5. nextCode' \in Nat /\ nextCode <= nextCode'
    BY CodeTypes
  <2>6. CASE p.pc \in {"idle", "insert"}
    BY <1>1, <2>1, <2>2, <2>5, <2>6, OtherSound DEF Updates
  <2>7. CASE p.pc \notin {"idle", "insert"}
    <3>1. PICK v \in Users : v = p.u
      BY <2>2, <2>7 DEF RequestOK
    <3>2. v # u /\ rows'[v] = rows[v] /\ status'[v] = status[v] /\ proven'[v] = proven[v]
      BY <1>1, <2>1, <2>7, <3>1
    <3>3. Held(rows[v]) \cap Held(rows[u]) = {}
      BY <3>2 DEF SInv, SafeRows, OwnCodes
    <3>4. Held(rows[v]) \cap Held(rows'[u]) = {}
      BY <3>2 DEF SafeRows, OwnCodes
    <3>5. rows[v] \in Row
      BY Types
    <3>6. Untouched(Held(rows[v]))
      BY <2>4, <3>3, <3>4, <3>5 DEF Untouched
    <3>7. ASSUME Updates(p) PROVE Untouched(Held(t)) /\ OwnCodes(v, t)'
      <4>1. OwnCodes(v, t)
        BY <2>2, <2>3, <3>1, <3>7 DEF Sound, Updates, Ready
      <4>2. Held(t) \cap Held(rows'[u]) = {}
        BY <1>1, <2>1, <2>3, <3>7
      <4>3. Held(t) \cap Held(rows[u]) = {}
        BY <3>2, <4>1 DEF OwnCodes
      <4>4. Untouched(Held(t))
        BY <2>4, <4>2, <4>3 DEF Untouched
      <4>5. OwnCodes(v, t)'
        BY <4>1, <4>2 DEF OwnCodes
      <4> QED
        BY <4>4, <4>5
    <3> QED
      BY <2>1, <2>2, <2>3, <2>5, <3>1, <3>2, <3>6, <3>7, OtherSound
  <2> QED
    BY <2>6, <2>7
<1>2. Requests'
  <2>1. ASSUME NEW d \in Clients PROVE Sound(d, req[d])'
    BY <1>1
  <2> QED
    BY <2>1 DEF Requests
<1>3. ASSUME NEW d \in Clients, NEW e \in Clients, Updates(req'[d]), Updates(req'[e]),
             req'[d].u # req'[e].u
      PROVE  Held(req'[d].tgt) \cap Held(req'[e].tgt) = {}
  BY <1>3 DEF SInv, CodesApart
<1> QED
  BY <1>2, <1>3 DEF CodesApart, Updates

LEMMA InsertSafe ==
    ASSUME IInv, SInv, NEW c \in Clients, NEW u \in Users, Insert(c, u)
    PROVE  SInv'
<1>1. PICK r : r = req[c]
  OBVIOUS
<1>2. r \in Request /\ Sound(c, r) /\ r.pc = "insert" /\ Held(r.tgt) = {} /\ ~ r.tgt.tfa
  BY <1>1, Types DEF Insert, SInv, Requests, Sound
<1>3. PICK t \in Row : t = r.tgt
  BY <1>2 DEF Request
<1>4. PICK addrs : addrs = IF t.verified THEN {t.email} \ {None} ELSE {}
  OBVIOUS
<1>5. /\ rows' = [rows EXCEPT ![u] = t] /\ status' = [status EXCEPT ![u] = "live"]
      /\ proven' = [proven EXCEPT ![u] = addrs]
      /\ UNCHANGED <<misses, uses, nextCode, mailed>>
  BY <1>1, <1>3, <1>4 DEF Insert
<1>6. \A v \in Users : /\ rows'[v] = IF v = u THEN t ELSE rows[v]
                       /\ proven'[v] = IF v = u THEN addrs ELSE proven[v]
  BY <1>5 DEF IInv, TypeOK
<1>7. t.code = NoCode /\ t.lcode = NoCode /\ ~ t.tfa
  BY <1>2, <1>3 DEF Held
<1>8. SafeRow(t, addrs)'
  BY <1>4, <1>7 DEF SafeRow, CodesOK, Proved
<1>9. SafeRows'
  <2>1. ASSUME NEW v \in Users PROVE SafeRow(rows[v], proven[v])'
    <3>1. CASE v = u
      BY <1>6, <1>8, <3>1
    <3>2. CASE v # u
      <4>1. SafeRow(rows[v], proven[v]) /\ rows'[v] = rows[v] /\ proven'[v] = proven[v]
        BY <1>6, <3>2 DEF SInv, SafeRows
      <4> QED
        BY <1>5, <4>1 DEF SafeRow, CodesOK, Proved
    <3> QED
      BY <3>1, <3>2
  <2>2. ASSUME NEW v \in Users, NEW w \in Users, v # w
        PROVE  Held(rows'[w]) \cap Held(rows'[v]) = {}
    <3>1. Held(t) = {}
      BY <1>2, <1>3
    <3>2. Held(rows[w]) \cap Held(rows[v]) = {}
      BY <2>2 DEF SInv, SafeRows, OwnCodes
    <3>3. (rows'[w] = t \/ rows'[w] = rows[w]) /\ (rows'[v] = t \/ rows'[v] = rows[v])
      BY <1>6
    <3> QED
      BY <3>1, <3>2, <3>3
  <2>3. ASSUME NEW v \in Users PROVE OwnCodes(v, rows[v])'
    BY <2>2 DEF OwnCodes
  <2> QED
    BY <2>1, <2>3 DEF SafeRows
<1>10. PICK s : s = [r.reply EXCEPT !.uid = u]
  OBVIOUS
<1>11. s.uid = u
  BY <1>2, <1>10 DEF Request, Cookie
<1>12. PICK q : /\ req' = [req EXCEPT ![c] = q]
                /\ \/ q.pc = "idle"
                   \/ q.pc = "issue" /\ q.u = u /\ q.reply.uid = u
  <2>1. PICK n : n = [Idle EXCEPT !.op = "register", !.pc = "issue", !.u = u, !.reply = s]
    OBVIOUS
  <2>2. n.pc = "issue" /\ n.u = u /\ n.reply = s
    BY <2>1 DEF Idle
  <2>3. PICK e : e = Idle
    OBVIOUS
  <2>4. e.pc = "idle"
    BY <2>3 DEF Idle
  <2>5. req' = [req EXCEPT ![c] = e] \/ req' = [req EXCEPT ![c] = n]
    BY <1>1, <1>10, <2>1, <2>3 DEF Insert, Done, Begin
  <2> QED
    BY <1>11, <2>2, <2>4, <2>5
<1>13. \A d \in Clients : req'[d] = IF d = c THEN q ELSE req[d]
  BY <1>12 DEF IInv, TypeOK
<1>14. Sound(c, q)'
  <2>1. CASE q.pc = "idle"
    BY <2>1, IdleSound
  <2>2. CASE q.pc = "issue"
    <3>1. SignsIn(c, q)'
      BY <1>6, <1>7, <1>12, <2>2 DEF SignsIn
    <3> QED
      BY <2>2, <3>1 DEF Sound
  <2> QED
    BY <1>12, <2>1, <2>2
<1>15. Requests' /\ CodesApart'
  <2>1. ~ Updates(q)
    BY <1>12 DEF Updates
  <2>2. \A d \in Clients \ {c} : cookie'[d] = cookie[d]
    BY DEF Insert, Replies, IInv, TypeOK
  <2>3. \A v \in Users \ {u} : rows'[v] = rows[v] /\ status'[v] = status[v] /\ proven'[v] = proven[v]
    BY <1>5 DEF IInv, TypeOK
  <2>4. rows'[u] = t /\ Held(t) = {}
    BY <1>2, <1>3, <1>6
  <2>5. ASSUME NEW d \in Clients, req[d].pc \notin {"idle", "insert"} PROVE req[d].u # u
    BY <2>5, Types DEF Insert, RequestOK
  <2>6. nextCode' = nextCode /\ rows'[u] \in Row
    BY <1>3, <1>5, <2>4
  <2>7. Untouched(Codes \ (Held(rows[u]) \cup Held(rows'[u])))
    BY <1>5 DEF Untouched
  <2>8. \A d \in Clients : Held(req[d].tgt) \cap Held(rows'[u]) = {}
    BY <2>4
  <2> QED
    BY <1>9, <1>13, <1>14, <2>1, <2>2, <2>3, <2>5, <2>6, <2>7, <2>8, OthersKept
<1>16. Unissued' /\ AttemptCap' /\ SingleUse'
  BY <1>5 DEF SInv, Unissued, AttemptCap, SingleUse
<1> QED
  BY <1>9, <1>15, <1>16 DEF SInv

LEMMA CommitDeleteSafe ==
    ASSUME Apart, IInv, SInv, NEW c \in Clients, CommitDelete(c)
    PROVE  SInv'
<1>1. PICK u \in Users : u = req[c].u
  BY Types DEF CommitDelete, RequestOK
<1>2. /\ req[c].pc = "commit" /\ rows' = [rows EXCEPT ![u] = NewRow]
      /\ proven' = [proven EXCEPT ![u] = {}] /\ req' = [req EXCEPT ![c] = Idle]
      /\ UNCHANGED <<misses, uses, nextCode, mailed>>
  BY <1>1 DEF CommitDelete, Done, Begin
<1>3. \A v \in Users : /\ rows'[v] = IF v = u THEN NewRow ELSE rows[v]
                       /\ proven'[v] = IF v = u THEN {} ELSE proven[v]
  BY <1>2 DEF IInv, TypeOK
<1>4. PICK t : t = NewRow
  OBVIOUS
<1>5. t.code = NoCode /\ t.lcode = NoCode /\ ~ t.tfa /\ ~ t.verified
  BY <1>4 DEF NewRow
<1>6. SafeRow(t, {})' /\ Held(t) = {}
  BY <1>5 DEF SafeRow, CodesOK, Proved, Held
<1>7. SafeRows'
  <2>1. ASSUME NEW v \in Users PROVE SafeRow(rows[v], proven[v])'
    <3>1. CASE v = u
      BY <1>3, <1>4, <1>6, <3>1
    <3>2. CASE v # u
      <4>1. SafeRow(rows[v], proven[v]) /\ rows'[v] = rows[v] /\ proven'[v] = proven[v]
        BY <1>3, <3>2 DEF SInv, SafeRows
      <4> QED
        BY <1>2, <4>1 DEF SafeRow, CodesOK, Proved
    <3> QED
      BY <3>1, <3>2
  <2>2. ASSUME NEW v \in Users, NEW w \in Users, v # w
        PROVE  Held(rows'[w]) \cap Held(rows'[v]) = {}
    <3>1. Held(rows[w]) \cap Held(rows[v]) = {}
      BY <2>2 DEF SInv, SafeRows, OwnCodes
    <3>2. (rows'[w] = t \/ rows'[w] = rows[w]) /\ (rows'[v] = t \/ rows'[v] = rows[v])
      BY <1>3, <1>4
    <3> QED
      BY <1>6, <3>1, <3>2
  <2>3. ASSUME NEW v \in Users PROVE OwnCodes(v, rows[v])'
    BY <2>2 DEF OwnCodes
  <2> QED
    BY <2>1, <2>3 DEF SafeRows
<1>8. PICK q : q = Idle
  OBVIOUS
<1>9. q.pc = "idle" /\ \A d \in Clients : req'[d] = IF d = c THEN q ELSE req[d]
  BY <1>2, <1>8 DEF Idle, IInv, TypeOK
<1>10. Requests' /\ CodesApart'
  <2>1. \A d \in Clients \ {c} : cookie'[d] = cookie[d] /\ req[d].u # u
    BY <1>1, NoneAssumption DEF CommitDelete, Replies, IInv, TypeOK, Apart
  <2>2. \A v \in Users \ {u} : rows'[v] = rows[v] /\ status'[v] = status[v] /\ proven'[v] = proven[v]
    BY <1>1, <1>3 DEF CommitDelete, IInv, TypeOK
  <2>3. rows'[u] = t /\ Held(t) = {}
    BY <1>3, <1>4, <1>6
  <2>4. rows'[u] \in Row
    <3>1. NewRow \in Row
      BY Nulls DEF NewRow, Row
    <3> QED
      BY <1>3, <3>1
  <2>5. Sound(c, q)' /\ ~ Updates(q)
    BY <1>9, IdleSound DEF Updates
  <2>6. nextCode' = nextCode /\ \A d \in Clients : Held(req[d].tgt) \cap Held(rows'[u]) = {}
    BY <1>2, <2>3
  <2>7. Untouched(Codes \ (Held(rows[u]) \cup Held(rows'[u])))
    BY <1>2 DEF Untouched
  <2>8. \A d \in Clients : req'[d] = IF d = c THEN q ELSE req[d]
    BY <1>9
  <2> QED
    BY <1>1, <1>7, <2>1, <2>2, <2>4, <2>5, <2>6, <2>7, <2>8, OthersKept
<1>11. Unissued' /\ AttemptCap' /\ SingleUse'
  BY <1>2 DEF SInv, Unissued, AttemptCap, SingleUse
<1> QED
  BY <1>7, <1>10, <1>11 DEF SInv

(* With nothing between, the columns of the copy are those of the row.     *)
LEMMA FlushUnraced ==
    ASSUME NEW row \in Row, NEW t \in Row
    PROVE  Flush(row, row, t) = t
<1>1. DOMAIN row = DOMAIN t
  BY DEF Row
<1>2. \A col \in DOMAIN row : Flush(row, row, t)[col] = t[col]
  BY DEF Flush
<1>3. t = [col \in DOMAIN t |-> t[col]]
  BY DEF Row
<1> QED
  BY <1>1, <1>2, <1>3 DEF Flush

(* A commit: the misses and the uses of its codes are counted with it.     *)
LEMMA CommitSafe ==
    ASSUME Apart, IInv, SInv, NEW c \in Clients, Commit(c)
    PROVE  SInv'
<1>1. PICK r : r = req[c]
  OBVIOUS
<1>2. /\ r \in Request /\ RequestOK(r) /\ Sound(c, r) /\ r.pc = "commit" /\ r.op # "delete"
  BY <1>1, Types DEF Commit, Updates, SInv, Requests
<1>3. PICK u \in Users : u = r.u
  BY <1>2 DEF RequestOK
<1>4. PICK row \in Row, t \in Row : row = r.snap /\ t = r.tgt
  BY <1>2 DEF Request
<1>5. Live(u) /\ rows[u] = row /\ Ready(r) /\ Mailing(r)
  BY <1>2, <1>3, <1>4 DEF Sound
<1>6. Flush(rows[r.u], r.snap, r.tgt) = t
  BY <1>3, <1>4, <1>5, FlushUnraced
<1>7. PICK addrs : addrs = proven[u] \cup Evidence(r, t)
  OBVIOUS
<1>8. SafeRow(t, addrs) /\ OwnCodes(u, t)
  BY <1>3, <1>4, <1>5, <1>7 DEF Ready
<1>9. /\ rows' = [rows EXCEPT ![u] = t] /\ proven' = [proven EXCEPT ![u] = addrs]
      /\ misses' = Bump(misses, r.missed, MaxAttempts + 1) /\ uses' = Bump(uses, r.used, 2)
      /\ UNCHANGED <<status, nextCode, mailed>>
  BY <1>1, <1>3, <1>6, <1>7 DEF Commit
<1>10. \A v \in Users : /\ rows'[v] = IF v = u THEN t ELSE rows[v]
                        /\ proven'[v] = IF v = u THEN addrs ELSE proven[v]
  BY <1>9 DEF IInv, TypeOK
<1>11. \A n \in Users : CodesOK(rows[n])
  BY DEF SInv, SafeRows, SafeRow
<1>12. PICK j, k : j = r.missed /\ k = r.used
  OBVIOUS
<1>13. j \in Codes \cup {NoCode} /\ k \in Codes \cup {NoCode}
  BY <1>2, <1>12 DEF Request
<1>14. /\ \A m \in Codes : misses[m] \in Nat /\ uses[m] \in Nat
       /\ MaxAttempts \in Nat /\ nextCode \in Nat
       /\ \A m \in Codes : misses[m] <= MaxAttempts /\ uses[m] <= 1
  BY BoundsAssumption, CodeTypes DEF IInv, TypeOK, SInv, AttemptCap, SingleUse
<1>15. \A m \in Codes : misses'[m] = IF m = j THEN misses[m] + 1 ELSE misses[m]
  <2>1. \A m \in Codes : misses[m] < MaxAttempts + 1
    BY <1>14
  <2>2. misses \in [Codes -> 0..(MaxAttempts + 1)]
    BY DEF IInv, TypeOK
  <2>3. NoCode \notin Codes
    BY DEF NoCode, Codes
  <2> QED
    BY <1>9, <1>12, <1>13, <2>1, <2>2, <2>3 DEF Bump
<1>16. \A m \in Codes : uses'[m] = IF m = k THEN uses[m] + 1 ELSE uses[m]
  <2>1. \A m \in Codes : uses[m] < 2
    BY <1>14
  <2>2. uses \in [Codes -> 0..2]
    BY DEF IInv, TypeOK
  <2>3. NoCode \notin Codes
    BY DEF NoCode, Codes
  <2> QED
    BY <1>9, <1>12, <1>13, <2>1, <2>2, <2>3 DEF Bump
<1>17. k # NoCode => /\ k \in Held(row) /\ k \notin Held(t) /\ k < nextCode /\ uses[k] = 0
                     /\ r.addr = None /\ r.op # "login"
  BY <1>4, <1>5, <1>11, <1>12 DEF Ready, Held, CodesOK
<1>18. j # NoCode => /\ j \in Held(t) /\ j < nextCode /\ misses[j] < MaxAttempts
                     /\ j = t.code => misses[j] < t.attempts
                     /\ j = t.lcode => misses[j] < t.lattempts
  <2>1. ASSUME j # NoCode PROVE \/ j = t.code /\ j # t.lcode /\ misses[j] < t.attempts
                                \/ j = t.lcode /\ j # t.code /\ misses[j] < t.lattempts
    BY <1>4, <1>5, <1>8, <1>12, <2>1 DEF Ready, SafeRow, CodesOK
  <2>2. ASSUME j # NoCode PROVE j \in Held(t) /\ j < nextCode
    BY <1>8, <2>1, <2>2 DEF SafeRow, CodesOK, Held
  <2>3. t.attempts \in 0..MaxAttempts /\ t.lattempts \in 0..MaxAttempts
    BY DEF Row
  <2>4. ASSUME j # NoCode PROVE misses[j] < MaxAttempts
    <3>1. PICK x : x = misses[j]
      OBVIOUS
    <3>2. x \in Nat
      BY <1>13, <1>14, <2>4, <3>1
    <3> QED
      BY <1>14, <2>1, <2>3, <2>4, <3>1, <3>2
  <2> QED
    BY <2>1, <2>2, <2>4
<1>19. AttemptCap' /\ SingleUse'
  <2>1. ASSUME NEW m \in Codes PROVE misses'[m] <= MaxAttempts
    <3>1. PICK x : x = misses[m]
      OBVIOUS
    <3>2. CASE m = j
      <4>1. x \in Nat /\ x < MaxAttempts /\ misses'[m] = x + 1
        BY <1>14, <1>15, <1>18, <3>1, <3>2 DEF Codes, NoCode
      <4> QED
        BY <1>14, <4>1
    <3> QED
      BY <1>14, <1>15, <3>2
  <2>2. ASSUME NEW m \in Codes PROVE uses'[m] <= 1
    <3>1. CASE m = k
      <4>1. uses[m] = 0
        BY <1>17, <3>1 DEF Codes, NoCode
      <4> QED
        BY <1>16, <3>1, <4>1
    <3> QED
      BY <1>14, <1>16, <3>1
  <2> QED
    BY <2>1, <2>2 DEF AttemptCap, SingleUse
<1>20. Unissued'
  <2>1. ASSUME NEW m \in Codes, m >= nextCode
        PROVE  mailed[m] = None /\ misses'[m] = 0 /\ uses'[m] = 0
    <3>1. m \in Nat /\ m # NoCode
      BY DEF Codes, NoCode
    <3>2. m # j /\ m # k
      BY <1>14, <1>17, <1>18, <2>1, <3>1
    <3> QED
      BY <1>15, <1>16, <2>1, <3>2 DEF SInv, Unissued
  <2> QED
    BY <1>9, <2>1 DEF Unissued
<1>21. SafeRow(t, addrs)'
  <2>1. CodesOK(t) /\ t.code \in Codes \cup {NoCode} /\ t.lcode \in Codes \cup {NoCode}
    BY <1>8 DEF SafeRow, Row
  <2>2. t.code # NoCode => uses'[t.code] = 0
    BY <1>16, <1>17, <2>1 DEF CodesOK, Held
  <2>3. t.lcode # NoCode => uses'[t.lcode] = 0
    BY <1>16, <1>17, <2>1 DEF CodesOK, Held
  <2>4. PICK x, y : x = t.attempts /\ y = t.lattempts
    OBVIOUS
  <2>5. x \in Nat /\ y \in Nat
    BY <2>4, BoundsAssumption DEF Row
  <2>6. ASSUME t.code # NoCode PROVE misses'[t.code] <= x
    <3>1. PICK z : z = misses[t.code]
      OBVIOUS
    <3>2. z \in Nat /\ z <= x
      BY <1>14, <2>1, <2>4, <2>6, <3>1 DEF CodesOK
    <3>3. CASE t.code = j
      <4>1. z < x /\ misses'[t.code] = z + 1
        BY <1>15, <1>18, <2>1, <2>4, <2>6, <3>1, <3>3
      <4> QED
        BY <2>5, <3>2, <4>1
    <3>4. CASE t.code # j
      BY <1>15, <2>1, <2>6, <3>1, <3>2, <3>4
    <3> QED
      BY <3>3, <3>4
  <2>7. ASSUME t.lcode # NoCode PROVE misses'[t.lcode] <= y
    <3>1. PICK z : z = misses[t.lcode]
      OBVIOUS
    <3>2. z \in Nat /\ z <= y
      BY <1>14, <2>1, <2>4, <2>7, <3>1 DEF CodesOK
    <3>3. CASE t.lcode = j
      <4>1. z < y /\ misses'[t.lcode] = z + 1
        BY <1>15, <1>18, <2>1, <2>4, <2>7, <3>1, <3>3
      <4> QED
        BY <2>5, <3>2, <4>1
    <3>4. CASE t.lcode # j
      BY <1>15, <2>1, <2>7, <3>1, <3>2, <3>4
    <3> QED
      BY <3>3, <3>4
  <2>8. CodesOK(t)'
    BY <1>9, <2>1, <2>2, <2>3, <2>4, <2>6, <2>7 DEF CodesOK
  <2> QED
    BY <1>8, <2>8 DEF SafeRow, Proved
<1>22. SafeRows'
  <2>1. ASSUME NEW v \in Users PROVE SafeRow(rows[v], proven[v])'
    <3>1. CASE v = u
      BY <1>10, <1>21, <3>1
    <3>2. CASE v # u
      <4>1. PICK w \in Row : w = rows[v]
        BY Types
      <4>2. SafeRow(w, proven[v]) /\ rows'[v] = w /\ proven'[v] = proven[v]
        BY <1>10, <3>2, <4>1 DEF SInv, SafeRows
      <4>3. Held(w) \cap Held(t) = {} /\ Held(w) \cap Held(row) = {}
        BY <1>5, <1>8, <3>2, <4>1 DEF OwnCodes, SInv, SafeRows
      <4>4. j \notin Held(w) /\ k \notin Held(w)
        BY <1>17, <1>18, <4>3 DEF Held
      <4>5. \A m \in Held(w) : misses'[m] = misses[m] /\ uses'[m] = uses[m]
        <5>1. Held(w) \subseteq Codes
          BY DEF Held, Row
        <5> QED
          BY <1>15, <1>16, <4>4, <5>1
      <4> QED
        BY <1>9, <4>2, <4>5 DEF SafeRow, CodesOK, Proved, Held
    <3> QED
      BY <3>1, <3>2
  <2>2. ASSUME NEW v \in Users, NEW w \in Users, v # w
        PROVE  Held(rows'[w]) \cap Held(rows'[v]) = {}
    <3>1. Held(rows[w]) \cap Held(rows[v]) = {}
      BY <2>2 DEF SInv, SafeRows, OwnCodes
    <3>2. \A n \in Users \ {u} : Held(rows[n]) \cap Held(t) = {}
      BY <1>8 DEF OwnCodes
    <3> QED
      BY <1>10, <2>2, <3>1, <3>2
  <2>3. ASSUME NEW v \in Users PROVE OwnCodes(v, rows[v])'
    BY <2>2 DEF OwnCodes
  <2> QED
    BY <2>1, <2>3 DEF SafeRows
<1>23. \A d \in Clients \ {c} : req[d].u # u
  BY <1>1, <1>3, NoneAssumption DEF Apart
<1>24. ASSUME NEW q, Sound(c, q)', ~ Updates(q), req' = [req EXCEPT ![c] = q],
              \A d \in Clients \ {c} : cookie'[d] = cookie[d]
       PROVE  SInv'
  <2>1. \A d \in Clients : req'[d] = IF d = c THEN q ELSE req[d]
    BY <1>24 DEF IInv, TypeOK
  <2>2. \A v \in Users \ {u} : rows'[v] = rows[v] /\ status'[v] = status[v] /\ proven'[v] = proven[v]
    BY <1>9, <1>10
  <2>3. Untouched(Codes \ {j, k})
    BY <1>9, <1>15, <1>16 DEF Untouched
  <2>4. {j, k} \cap Codes \subseteq Held(row) \cup Held(t)
    BY <1>17, <1>18 DEF Codes, NoCode
  <2>5. rows[u] = row /\ rows'[u] = t
    BY <1>5, <1>10
  <2>6. Untouched(Codes \ (Held(rows[u]) \cup Held(rows'[u])))
    <3>1. Codes \ (Held(row) \cup Held(t)) \subseteq Codes \ {j, k}
      BY <2>4
    <3> QED
      BY <2>3, <2>5, <3>1 DEF Untouched
  <2>7. ASSUME NEW d \in Clients \ {c}, Updates(req[d])
        PROVE  Held(req[d].tgt) \cap Held(rows'[u]) = {}
    <3>1. Updates(r) /\ req[d].u # r.u
      BY <1>2, <1>3, <1>23 DEF Updates
    <3> QED
      BY <1>1, <1>4, <2>5, <2>7, <3>1 DEF SInv, CodesApart
  <2>8. nextCode' = nextCode /\ rows'[u] \in Row
    BY <1>4, <1>9, <2>5
  <2>9. Requests' /\ CodesApart'
    BY <1>3, <1>22, <1>23, <1>24, <2>1, <2>2, <2>6, <2>7, <2>8, OthersKept
  <2> QED
    BY <1>19, <1>20, <1>22, <2>9 DEF SInv
<1>25. CASE r.addr # None \/ r.op = "login"
  <2>1. PICK q : q = [r EXCEPT !.pc = "mail"]
    OBVIOUS
  <2>2. req' = [req EXCEPT ![c] = q] /\ cookie' = cookie
    BY <1>1, <1>25, <2>1 DEF Commit
  <2>3. /\ q.pc = "mail" /\ q.u = u /\ q.tgt = t /\ q.addr = r.addr /\ q.op = r.op
        /\ q.reply = r.reply
    BY <1>2, <1>3, <1>4, <2>1 DEF Request
  <2>4. Mailing(q)'
    BY <1>4, <1>5, <2>3 DEF Mailing
  <2>5. r.used = NoCode
    BY <1>12, <1>17, <1>25
  <2>6. SignsIn(c, r)
    BY <1>2 DEF Sound
  <2>7. q.reply.uid \in {None, cookie[c].uid} \/ (q.reply.uid = u /\ ~ t.tfa)
    BY <1>2, <1>3, <1>4, <2>3, <2>5, <2>6 DEF SignsIn
  <2>8. SignsIn(c, q)'
    BY <1>10, <2>2, <2>3, <2>7 DEF SignsIn
  <2>9. Sound(c, q)'
    BY <1>5, <1>9, <1>10, <1>25, <2>3, <2>4, <2>8 DEF Sound, Live
  <2> QED
    BY <1>24, <2>2, <2>3, <2>9 DEF Updates
<1>26. CASE ~ (r.addr # None \/ r.op = "login")
  <2>1. PICK q : q = Idle
    OBVIOUS
  <2>2. req' = [req EXCEPT ![c] = q] /\ q.pc = "idle"
    BY <1>1, <1>26, <2>1 DEF Commit, Done, Begin, Idle
  <2>3. \A d \in Clients \ {c} : cookie'[d] = cookie[d]
    BY <1>26 DEF Commit, Replies, IInv, TypeOK
  <2>4. Sound(c, q)' /\ ~ Updates(q)
    BY <2>2, IdleSound DEF Updates
  <2> QED
    BY <1>24, <2>2, <2>3, <2>4
<1> QED
  BY <1>25, <1>26

(* A mail goes to the address its code would confirm, and only that.       *)
LEMMA MailSafe ==
    ASSUME Apart, IInv, SInv, NEW c \in Clients, Mail(c)
    PROVE  SInv'
<1>1. PICK r : r = req[c]
  OBVIOUS
<1>2. /\ r \in Request /\ RequestOK(r) /\ Sound(c, r) /\ r.pc = "mail"
      /\ UNCHANGED <<db, nextCode>>
  BY <1>1, Types DEF Mail, SInv, Requests
<1>3. PICK u \in Users : u = r.u
  BY <1>2 DEF RequestOK
<1>4. PICK t \in Row : t = r.tgt
  BY <1>2 DEF Request
<1>5. Live(u) /\ rows[u] = t /\ Mailing(r) /\ (r.addr # None \/ r.op = "login")
  BY <1>2, <1>3, <1>4 DEF Sound
<1>6. SafeRow(t, proven[u]) /\ OwnCodes(u, t)
  BY <1>5 DEF SInv, SafeRows
<1>7. PICK k, a : /\ k \in Held(t) /\ \A m \in Codes : mailed'[m] = mailed[m] \/ (m = k /\ mailed'[m] = a)
                  /\ k = t.code => a = CodeTarget(t)
  <2>1. mailed \in [Codes -> Addrs \cup {None}]
    BY DEF IInv, TypeOK
  <2>2. CASE r.addr # None
    <3>1. t.code \in Held(t) /\ r.addr = CodeTarget(t)
      BY <1>4, <1>5, <2>2 DEF Mailing, Held
    <3>2. mailed' = mailed \/ mailed' = [mailed EXCEPT ![t.code] = r.addr]
      BY <1>1, <1>4, <2>2 DEF Mail
    <3> QED
      BY <2>1, <3>1, <3>2
  <2>3. CASE r.addr = None
    <3>1. t.lcode \in Held(t) /\ t.lcode # t.code
      BY <1>4, <1>5, <1>6, <2>3 DEF Mailing, Held, SafeRow, CodesOK
    <3>2. mailed' = mailed \/ mailed' = [mailed EXCEPT ![t.lcode] = rows[r.u].email]
      BY <1>1, <1>4, <2>3 DEF Mail
    <3> QED
      BY <2>1, <3>1, <3>2
  <2> QED
    BY <2>2, <2>3
<1>8. ASSUME NEW v \in Users PROVE SafeRow(rows[v], proven[v])'
  <2>1. PICK w \in Row : w = rows[v]
    BY Types
  <2>2. SafeRow(w, proven[v]) /\ rows'[v] = w /\ proven'[v] = proven[v]
    BY <1>2, <2>1 DEF SInv, SafeRows, db
  <2>3. w.code # NoCode => w.code \in Held(w) /\ w.code \in Codes
    BY DEF Held, Row
  <2>4. CASE v = u
    <3>1. w = t
      BY <1>5, <2>1, <2>4
    <3>2. w.code # NoCode => mailed'[w.code] = mailed[w.code] \/ mailed'[w.code] = CodeTarget(w)
      BY <1>7, <2>3, <3>1
    <3>3. CodesOK(w)'
      BY <1>2, <2>2, <3>2 DEF SafeRow, CodesOK, db
    <3> QED
      BY <2>2, <3>3 DEF SafeRow, Proved
  <2>5. CASE v # u
    <3>1. k \notin Held(w)
      BY <1>6, <1>7, <2>1, <2>5 DEF OwnCodes
    <3>2. w.code # NoCode => mailed'[w.code] = mailed[w.code]
      BY <1>7, <2>3, <3>1
    <3>3. CodesOK(w)'
      BY <1>2, <2>2, <3>2 DEF SafeRow, CodesOK, db
    <3> QED
      BY <2>2, <3>3 DEF SafeRow, Proved
  <2> QED
    BY <2>4, <2>5
<1>9. SafeRows'
  <2>1. ASSUME NEW v \in Users PROVE OwnCodes(v, rows[v])'
    BY <1>2 DEF SInv, SafeRows, OwnCodes, db
  <2> QED
    BY <1>8, <2>1 DEF SafeRows
<1>10. Unissued'
  <2>1. k < nextCode
    BY <1>6, <1>7 DEF SafeRow, CodesOK, Held
  <2>2. k \in Codes /\ nextCode \in Nat
    BY <1>7, CodeTypes DEF Held, Row
  <2>3. ASSUME NEW m \in Codes, m >= nextCode PROVE m # k
    BY <2>1, <2>2, <2>3 DEF Codes
  <2>4. ASSUME NEW m \in Codes, m >= nextCode' PROVE mailed'[m] = None /\ misses'[m] = 0 /\ uses'[m] = 0
    BY <1>2, <1>7, <2>3, <2>4 DEF SInv, Unissued, db
  <2> QED
    BY <2>4 DEF Unissued
<1>11. PICK q : q = Idle
  OBVIOUS
<1>12. q.pc = "idle" /\ \A d \in Clients : req'[d] = IF d = c THEN q ELSE req[d]
  BY <1>11 DEF Mail, Done, Begin, Idle, IInv, TypeOK
<1>13. Requests' /\ CodesApart'
  <2>1. \A d \in Clients \ {c} : cookie'[d] = cookie[d] /\ req[d].u # u
    BY <1>1, <1>3, NoneAssumption DEF Mail, Replies, IInv, TypeOK, Apart
  <2>2. UNCHANGED <<rows, status, proven, misses, uses, nextCode>>
    BY <1>2 DEF db
  <2>3. rows[u] = t /\ rows'[u] = t
    BY <1>5, <2>2
  <2>4. k \in Held(rows[u]) \cup Held(rows'[u])
    BY <1>7, <2>3
  <2>5. ASSUME NEW d \in Clients \ {c}, Updates(req[d])
        PROVE  Held(req[d].tgt) \cap Held(rows'[u]) = {}
    <3>1. OwnCodes(req[d].u, req[d].tgt)
      BY <2>5 DEF SInv, Requests, Sound, Updates, Ready
    <3>2. req[d].u # u
      BY <2>1
    <3> QED
      BY <2>2, <3>1, <3>2 DEF OwnCodes
  <2>6. Sound(c, q)' /\ ~ Updates(q)
    BY <1>12, IdleSound DEF Updates
  <2>7. Untouched(Codes \ (Held(rows[u]) \cup Held(rows'[u])))
    <3>1. \A m \in Codes \ {k} : mailed'[m] = mailed[m]
      BY <1>7
    <3> QED
      BY <2>2, <2>4, <3>1 DEF Untouched
  <2>8. rows'[u] \in Row
    BY <1>4, <2>3
  <2>9. \A d \in Clients : req'[d] = IF d = c THEN q ELSE req[d]
    BY <1>12
  <2> QED
    BY <1>9, <2>1, <2>2, <2>5, <2>6, <2>7, <2>8, <2>9, OthersKept
<1>14. AttemptCap' /\ SingleUse'
  BY <1>2 DEF SInv, AttemptCap, SingleUse, db
<1> QED
  BY <1>9, <1>10, <1>13, <1>14 DEF SInv

LEMMA InitSInv == Init => SInv
<1> SUFFICES ASSUME Init PROVE SInv
  OBVIOUS
<1>1. PICK t, q : t = NewRow /\ q = Idle
  OBVIOUS
<1>2. t.code = NoCode /\ t.lcode = NoCode /\ ~ t.verified /\ ~ t.tfa /\ q.pc = "idle"
  BY <1>1 DEF NewRow, Idle
<1>3. SafeRow(t, {}) /\ Held(t) = {}
  BY <1>2 DEF SafeRow, CodesOK, Proved, Held
<1>4. /\ \A u \in Users : rows[u] = t /\ proven[u] = {}
      /\ \A c \in Clients : req[c] = q
  BY <1>1 DEF Init
<1>5. SafeRows
  BY <1>3, <1>4 DEF SafeRows, OwnCodes
<1>6. Requests /\ CodesApart
  BY <1>2, <1>4, IdleSound DEF Requests, CodesApart, Updates
<1>7. Unissued /\ AttemptCap /\ SingleUse
  BY BoundsAssumption DEF Init, Unissued, AttemptCap, SingleUse
<1> QED
  BY <1>5, <1>6, <1>7 DEF SInv

LEMMA NextSInv == Apart /\ IInv /\ SInv /\ [Next]_vars => SInv'
<1> SUFFICES ASSUME Apart, IInv, SInv, [Next]_vars PROVE SInv'
  OBVIOUS
<1>1. CASE UNCHANGED vars
  BY <1>1, CookieSafe DEF vars, db
<1>2. ASSUME NEW k \in Codes, Expire(k) PROVE SInv'
  BY <1>2, CookieSafe DEF Expire
<1>3. CASE Next
  BY <1>2, <1>3, RegisterSafe, LoginSafe, LoginTwoFactorSafe, VerifySafe, ResendSafe, PatchSafe,
     CallbackSafe, DeleteMeSafe, IssueSafe, ProbeVerifySafe, ProbePatchSafe, CommitSafe,
     InsertSafe, CommitDeleteSafe, MailSafe, EndsSafe DEF Next
<1> QED
  BY <1>1, <1>3

LEMMA AlwaysSInv == Spec /\ []Apart => [](IInv /\ SInv)
<1>1. Init => IInv /\ SInv
  BY InitIInv, InitSInv
<1>2. Apart /\ (IInv /\ SInv) /\ [Next]_vars => (IInv /\ SInv)'
  BY NextIInv, NextSInv
<1> QED
  BY <1>1, <1>2, PTL DEF Spec

(* Where no two requests on an account overlap, a verified address is one  *)
(* its account proved to own (auth.py:279-281).                            *)
THEOREM VerifiedMeansProven == Spec /\ []Apart => []VerifiedEmailProven
<1>1. IInv /\ SInv => VerifiedEmailProven
  BY DEF SInv, SafeRows, SafeRow, Proved, VerifiedEmailProven
<1> QED
  BY <1>1, AlwaysSInv, PTL

(* Where no two requests on an account overlap, a code stands for no more  *)
(* wrong guesses than the cap (auth.py:110-120).                           *)
THEOREM GuessesAreCapped == Spec /\ []Apart => []AttemptCap
<1>1. IInv /\ SInv => AttemptCap
  BY DEF SInv
<1> QED
  BY <1>1, AlwaysSInv, PTL

(* Where no two requests on an account overlap, a code is accepted once    *)
(* (config.py:127).                                                        *)
THEOREM CodesAreSingleUse == Spec /\ []Apart => []SingleUse
<1>1. IInv /\ SInv => SingleUse
  BY DEF SInv
<1> QED
  BY <1>1, AlwaysSInv, PTL

(* The reply that signs a client in to another account.                    *)
LEMMA GuardStep ==
    ASSUME IInv, SInv, [Next]_vars, NEW c \in Clients, NEW u \in Users,
           cookie'[c].uid = u, cookie[c].uid # u, rows[u].tfa, rows'[u].tfa
    PROVE  /\ rows[u].lcode # NoCode /\ mailed[rows[u].lcode] # None
           /\ rows'[u].lcode = NoCode
<1> DEFINE Guarded == /\ rows[u].lcode # NoCode /\ mailed[rows[u].lcode] # None
                      /\ rows'[u].lcode = NoCode
<1>1. PICK r : r = req[c]
  OBVIOUS
<1>2. r \in Request /\ RequestOK(r) /\ Sound(c, r) /\ cookie[c] \in Cookie /\ u # None
  BY <1>1, Types, NoneAssumption DEF SInv, Requests
<1>3. ASSUME UNCHANGED rows, r.pc \in {"reply", "mail"}, cookie'[c] = r.reply PROVE FALSE
  BY <1>2, <1>3 DEF Sound, SignsIn
<1>4. ASSUME NEW d \in Clients, Commit(d) PROVE Guarded
  <2>1. cookie' = cookie \/ (cookie' = [cookie EXCEPT ![d] = req[d].reply] /\ req[d].addr = None)
    BY <1>4 DEF Commit, Replies
  <2>2. d = c /\ cookie'[c] = r.reply
    BY <1>1, <2>1 DEF IInv, TypeOK
  <2>3. r.pc = "commit" /\ r.op # "delete"
    BY <1>1, <1>4, <2>2 DEF Commit, Updates
  <2>4. PICK v \in Users : v = r.u
    BY <1>2, <2>3 DEF RequestOK
  <2>5. PICK row \in Row, t \in Row : row = r.snap /\ t = r.tgt
    BY <1>2 DEF Request
  <2>6. SignsIn(c, r) /\ rows[v] = row
    BY <1>2, <2>3, <2>4, <2>5 DEF Sound
  <2>7. rows' = [rows EXCEPT ![v] = t]
    <3>1. rows' = [rows EXCEPT ![r.u] = Flush(rows[r.u], r.snap, r.tgt)]
      BY <1>1, <1>4, <2>2 DEF Commit
    <3>2. rows' = [rows EXCEPT ![v] = Flush(row, row, t)]
      BY <2>4, <2>5, <2>6, <3>1
    <3>3. Flush(row, row, t) = t
      BY FlushUnraced
    <3> QED
      BY <3>2, <3>3
  <2>8. rows'[v] = t
    BY <2>7 DEF IInv, TypeOK
  <2>9. v = u
    BY <1>2, <2>2, <2>4, <2>6 DEF SignsIn
  <2>10. r.used # NoCode /\ r.used = row.lcode /\ t.lcode = NoCode /\ mailed[r.used] # None
    BY <1>2, <2>2, <2>3, <2>4, <2>5, <2>6, <2>8, <2>9 DEF SignsIn
  <2> QED
    BY <2>6, <2>8, <2>9, <2>10
<1>5. ASSUME NEW d \in Clients, NEW v \in Users, Insert(d, v) PROVE Guarded
  <2>1. PICK s : s = [req[d].reply EXCEPT !.uid = v]
    OBVIOUS
  <2>2. s.uid = v
    <3>1. req[d].reply \in Cookie
      BY Types DEF Request
    <3> QED
      BY <2>1, <3>1 DEF Cookie
  <2>3. cookie' = cookie \/ cookie' = [cookie EXCEPT ![d] = s]
    BY <1>5, <2>1 DEF Insert, Replies
  <2>4. v = u
    BY <2>2, <2>3 DEF IInv, TypeOK
  <2>5. rows[u] = NewRow
    BY <1>5, <2>4 DEF Insert, IInv, RowsOK, Live
  <2> QED
    BY <2>5 DEF NewRow
<1>6. ASSUME NEW d \in Clients, Mail(d) \/ Reply(d) PROVE Guarded
  <2>1. cookie' = cookie \/ cookie' = [cookie EXCEPT ![d] = req[d].reply]
    BY <1>6 DEF Mail, Reply, Replies
  <2>2. d = c /\ cookie'[c] = r.reply
    BY <1>1, <2>1 DEF IInv, TypeOK
  <2>3. r.pc \in {"reply", "mail"} /\ UNCHANGED rows
    BY <1>1, <1>6, <2>2 DEF Mail, Reply, db
  <2> QED
    BY <1>3, <2>2, <2>3
<1>7. ASSUME NEW d \in Clients, CommitDelete(d) PROVE Guarded
  <2>1. cookie' = cookie \/ cookie' = [cookie EXCEPT ![d] = req[d].reply]
    BY <1>7 DEF CommitDelete, Replies
  <2>2. d = c /\ cookie'[c] = r.reply
    BY <1>1, <2>1 DEF IInv, TypeOK
  <2>3. PICK v \in Users : v = r.u
    BY <1>1, <1>2, <1>7, <2>2 DEF CommitDelete, RequestOK
  <2>4. v = u
    BY <1>1, <1>2, <1>7, <2>2, <2>3 DEF CommitDelete, Sound, SignsIn
  <2>5. rows' = [rows EXCEPT ![v] = NewRow]
    BY <1>1, <1>7, <2>2, <2>3 DEF CommitDelete
  <2>6. rows'[u] = NewRow
    BY <2>4, <2>5 DEF IInv, TypeOK
  <2> QED
    BY <2>6 DEF NewRow
<1>8. ASSUME NEW d \in Clients, Logout(d) \/ StaleCookie(d) \/ LoginTwoFactorStale(d)
      PROVE  Guarded
  <2>1. \/ cookie' = [cookie EXCEPT ![d] = NoCookie]
        \/ cookie' = [cookie EXCEPT ![d].pend = None]
    BY <1>8 DEF Logout, StaleCookie, LoginTwoFactorStale
  <2>2. cookie'[c].uid \in {None, cookie[c].uid}
    BY <1>2, <2>1 DEF IInv, TypeOK, NoCookie, Cookie
  <2> QED
    BY <1>2, <2>2
<1>9. CASE UNCHANGED cookie
  BY <1>9
<1>10. CASE Next
  <2>1. ASSUME NEW d \in Clients,
               \/ \E a \in Addrs : Register(d, a)
               \/ \E v \in Users : Login(d, v)
               \/ \E guess \in {"right", "wrong"} : LoginTwoFactor(d, guess)
               \/ \E v \in Users, guess \in {"right", "wrong"} : Verify(d, v, guess)
               \/ \E v \in Users : Resend(d, v)
               \/ \E v \in Users, a \in Addrs \cup {None}, t \in {"on", "off", "omit"} :
                    Patch(d, v, a, t)
               \/ \E s \in Subs, a \in Addrs \cup {None} : Callback(d, s, a)
               \/ \E v \in Users : DeleteMe(d, v)
               \/ InsertRefused(d) \/ Issue(d) \/ ProbeVerify(d) \/ ProbePatch(d)
               \/ CommitFails(d) \/ Crash(d)
        PROVE  UNCHANGED cookie
    <3>1. ASSUME \/ \E a \in Addrs : Register(d, a)
                 \/ \E v \in Users : Login(d, v)
                 \/ \E guess \in {"right", "wrong"} : LoginTwoFactor(d, guess)
                 \/ \E v \in Users, guess \in {"right", "wrong"} : Verify(d, v, guess)
                 \/ \E v \in Users : Resend(d, v)
          PROVE  UNCHANGED cookie
      BY <3>1 DEF Register, Login, LoginTwoFactor, Verify, Resend
    <3>2. ASSUME \/ \E v \in Users, a \in Addrs \cup {None}, t \in {"on", "off", "omit"} :
                        Patch(d, v, a, t)
                 \/ \E v \in Users : DeleteMe(d, v)
          PROVE  UNCHANGED cookie
      <4>1. ASSUME NEW v, NEW a, NEW t, Patch(d, v, a, t) PROVE UNCHANGED cookie
        BY <4>1 DEF Patch
      <4>2. ASSUME NEW v, DeleteMe(d, v) PROVE UNCHANGED cookie
        BY <4>2 DEF DeleteMe
      <4> QED
        BY <3>2, <4>1, <4>2
    <3>3. ASSUME NEW s \in Subs, NEW a \in Addrs \cup {None}, Callback(d, s, a)
          PROVE  UNCHANGED cookie
      BY <3>3 DEF Callback
    <3>4. ASSUME InsertRefused(d) \/ Issue(d) \/ ProbeVerify(d) \/ ProbePatch(d)
                 \/ CommitFails(d) \/ Crash(d)
          PROVE  UNCHANGED cookie
      BY <3>4 DEF InsertRefused, Issue, ProbeVerify, ProbePatch, CommitFails, Crash
    <3> QED
      BY <2>1, <3>1, <3>2, <3>3, <3>4
  <2>2. ASSUME NEW k \in Codes, Expire(k) PROVE UNCHANGED cookie
    BY <2>2 DEF Expire
  <2> QED
    BY <1>4, <1>5, <1>6, <1>7, <1>8, <1>9, <1>10, <2>1, <2>2 DEF Next
<1> QED
  BY <1>9, <1>10 DEF vars

(* Where no two requests on an account overlap, nobody gets past a second  *)
(* factor but with its code (auth.py:239-245, 307-338).                    *)
THEOREM NobodySkipsTheSecondFactor == Spec /\ []Apart => SecondFactorGuards
<1> DEFINE Step == \A c \in Clients, u \in Users :
                     cookie'[c].uid = u /\ cookie[c].uid # u /\ rows[u].tfa /\ rows'[u].tfa =>
                        /\ rows[u].lcode # NoCode /\ mailed[rows[u].lcode] # None
                        /\ rows'[u].lcode = NoCode
<1>1. (IInv /\ SInv) /\ [Next]_vars => [Step]_vars
  BY GuardStep
<1>2. SecondFactorGuards <=> [][Step]_vars
  BY DEF SecondFactorGuards
<1> HIDE DEF Step
<1> QED
  BY <1>1, <1>2, AlwaysSInv, PTL DEF Spec
==============================================================================
