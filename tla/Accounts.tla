------------------------------ MODULE Accounts ------------------------------
(***************************************************************************)
(* Accounts, sign-in and emailed codes: backend/app/api/auth.py.           *)
(*                                                                         *)
(* Each request runs in a worker thread of one of several API replicas.    *)
(* It loads the user row, decides on that copy, and commits; other         *)
(* requests commit in between.  A request is therefore two or more steps   *)
(* here: the step that loads and decides ("Load"), and the steps that      *)
(* query again, commit, or send the mail.  A reply that changes neither a  *)
(* row nor a cookie (400, 401, 403, 409, 429) is a request that does not   *)
(* start.  A process may die between two steps.                            *)
(***************************************************************************)
EXTENDS Naturals, FiniteSets, Orm

CONSTANTS
    Users,                \* primary keys, never reused
    Addrs,                \* email addresses
    Subs,                 \* Google's user ids
    Clients,              \* browsers, each with one session cookie
    None,                 \* SQL NULL, and "no value" elsewhere
    MaxAttempts,          \* settings.email_verify_max_attempts
    MaxCodes,             \* bound: codes generated in a behaviour
    MaxInFlight,          \* bound: requests being handled at a time
    RequireVerification,  \* settings.require_email_verification
    Ops                   \* the endpoints (and faults) of this instance

ASSUME NoneAssumption == None \notin Users \cup Addrs \cup Subs
ASSUME BoundsAssumption ==
    /\ MaxAttempts \in Nat
    /\ MaxCodes \in Nat
    /\ MaxInFlight \in Nat
    /\ RequireVerification \in BOOLEAN

VARIABLES
    status,    \* user -> whether its row was never inserted, is there, or was deleted
    rows,      \* user -> its row in `users`
    cookie,    \* client -> the signed session cookie it holds
    req,       \* client -> the request being handled for it
    nextCode,  \* the next fresh code
    mailed,    \* code -> the address it was mailed to, None if it was not
    expired,   \* codes past their expires_at
    proven,    \* history: user -> addresses it has shown to own
    misses,    \* history: code -> wrong guesses answered while it was live
    uses       \* history: code -> requests it was accepted by

vars == <<status, rows, cookie, req, nextCode, mailed, expired, proven, misses, uses>>
db == <<status, rows, proven, misses, uses>>

NoCode == 0
Codes == 1..MaxCodes

(* A row of `users`.  `code` and `lcode` stand for the stored hash and its *)
(* expiry together: the two columns are always set and cleared together,   *)
(* and two codes have different hashes.                                    *)
Row == [sub: Subs \cup {None}, pwd: BOOLEAN, email: Addrs \cup {None},
        verified: BOOLEAN, pending: Addrs \cup {None},
        code: Codes \cup {NoCode}, attempts: 0..MaxAttempts,
        tfa: BOOLEAN, lcode: Codes \cup {NoCode}, lattempts: 0..MaxAttempts]

NewRow == [sub |-> None, pwd |-> FALSE, email |-> None, verified |-> FALSE,
           pending |-> None, code |-> NoCode, attempts |-> 0,
           tfa |-> FALSE, lcode |-> NoCode, lattempts |-> 0]

Cookie == [uid: Users \cup {None}, pend: Users \cup {None}]
NoCookie == [uid |-> None, pend |-> None]

(* A request: the row it loaded and the row it will commit, the address it *)
(* will mail, the code it found a guess to miss or used up, and the cookie *)
(* its reply sets.                                                         *)
OpNames == {"none", "register", "login", "login2fa", "verify", "resend",
            "patch", "callback", "delete"}
Phases == {"idle", "insert", "issue", "probe", "commit", "mail", "reply"}
Request == [op: OpNames, pc: Phases, u: Users \cup {None},
            snap: Row, tgt: Row, addr: Addrs \cup {None},
            missed: Codes \cup {NoCode}, used: Codes \cup {NoCode}, reply: Cookie]

Idle == [op |-> "none", pc |-> "idle", u |-> None, snap |-> NewRow, tgt |-> NewRow,
         addr |-> None, missed |-> NoCode, used |-> NoCode, reply |-> NoCookie]

Live(u) == status[u] = "live"
Busy == {c \in Clients : req[c].pc # "idle"}

(* Enter(c, op): a worker picks up a request of c.                         *)
Enter(c, op) ==
    /\ op \in Ops
    /\ req[c].pc = "idle"
    /\ Cardinality(Busy) < MaxInFlight

Begin(c, r) == req' = [req EXCEPT ![c] = r]
Done(c) == Begin(c, Idle)

(* The reply of c sets its cookie, unless the process dies or the          *)
(* connection is lost after the COMMIT, before the browser has the reply.  *)
Replies(c, k) == cookie' \in {cookie, [cookie EXCEPT ![c] = k]}

(* current_user: the row of the cookie's user, which is still there.       *)
SessionUser(c, u) == u = cookie[c].uid /\ u # None /\ Live(u)

(* The request of c on user u: loaded from its row, to be committed as t.  *)
Loaded(c, op, pc, u, t) ==
    [op |-> op, pc |-> pc, u |-> u, snap |-> rows[u], tgt |-> t, addr |-> None,
     missed |-> NoCode, used |-> NoCode, reply |-> cookie[c]]

(* The request of c to insert the row t.                                   *)
Inserting(c, op, t) ==
    [op |-> op, pc |-> "insert", u |-> None, snap |-> NewRow, tgt |-> t, addr |-> None,
     missed |-> NoCode, used |-> NoCode, reply |-> cookie[c]]

ClearCodeKeepsAttempts(row) == [row EXCEPT !.code = NoCode]
ClearCode(row) == [row EXCEPT !.code = NoCode, !.attempts = 0]

ClearLoginCodeKeepsCode(row) == [row EXCEPT !.lattempts = 0]
ClearLoginCode(row) == [row EXCEPT !.lcode = NoCode, !.lattempts = 0]

(* _issue_verification: where the code goes, and the row that stores it.   *)
CodeTargetIgnoresPending(row) == IF row.verified THEN None ELSE row.email
CodeTarget(row) ==
    IF row.pending # None THEN row.pending
    ELSE IF row.verified THEN None ELSE row.email
StoreCode(row, k) == [row EXCEPT !.code = k, !.attempts = 0]

StoreLoginCode(row, k) == [row EXCEPT !.lcode = k, !.lattempts = 0]

(* _check_code: a live code under the attempt cap; it accepts the code     *)
(* when someone could read it in a mailbox.                                *)
JudgesWithoutCap(k, attempts) == k # NoCode /\ k \notin expired
Judges(k, attempts) ==
    /\ k # NoCode /\ k \notin expired
    /\ attempts < MaxAttempts
Readable(k) == mailed[k] # None

(* email and google_sub are UNIQUE: would row collide with another user's? *)
ClashOnSubOnly(u, row) ==
    \E v \in Users \ {u} : Live(v) /\ row.sub # None /\ rows[v].sub = row.sub
Clash(u, row) ==
    \E v \in Users \ {u} :
        /\ Live(v)
        /\ \/ row.email # None /\ rows[v].email = row.email
           \/ row.sub # None /\ rows[v].sub = row.sub
EmailTaken(u, a) == \E v \in Users \ {u} : Live(v) /\ rows[v].email = a

----------------------------------------------------------------------------
Init ==
    /\ status = [u \in Users |-> "absent"]
    /\ rows = [u \in Users |-> NewRow]
    /\ cookie = [c \in Clients |-> NoCookie]
    /\ req = [c \in Clients |-> Idle]
    /\ nextCode = 1
    /\ mailed = [k \in Codes |-> None]
    /\ expired = {}
    /\ proven = [u \in Users |-> {}]
    /\ misses = [k \in Codes |-> 0]
    /\ uses = [k \in Codes |-> 0]

----------------------------------------------------------------------------
(* The loading step of each endpoint.                                      *)

(* Handlers that generate a code take the next fresh one.                  *)
FreshCode == nextCode \in Codes /\ nextCode' = nextCode + 1

(* POST /auth/register, up to the INSERT.                                  *)
Register(c, a) ==
    /\ Enter(c, "register")
    /\ ~\E v \in Users : Live(v) /\ rows[v].email = a
    /\ Begin(c, Inserting(c, "register", [NewRow EXCEPT !.email = a, !.pwd = TRUE]))
    /\ UNCHANGED <<db, cookie, nextCode, mailed, expired>>

(* register and resend call _issue_verification on the row as it is now;   *)
(* it returns at once when there is nothing to verify.                     *)
IssueVerification(c, op, u, reply) ==
    LET a == CodeTarget(rows[u]) IN
    IF a = None
    THEN /\ Begin(c, [Loaded(c, op, "reply", u, rows[u]) EXCEPT !.reply = reply])
         /\ UNCHANGED nextCode
    ELSE /\ FreshCode
         /\ Begin(c, [Loaded(c, op, "commit", u, StoreCode(rows[u], nextCode))
                        EXCEPT !.addr = a, !.reply = reply])

(* POST /auth/login with the right password: a session, or a challenge.    *)
Session(u) == [uid |-> u, pend |-> None]
ChallengeInSession(u) == [uid |-> u, pend |-> u]
Challenge(u) == [uid |-> None, pend |-> u]
Login(c, u) ==
    /\ Enter(c, "login")
    /\ Live(u) /\ rows[u].pwd
    /\ RequireVerification => rows[u].verified
    /\ IF rows[u].tfa
       THEN /\ FreshCode
            /\ Begin(c, [Loaded(c, "login", "commit", u, StoreLoginCode(rows[u], nextCode))
                           EXCEPT !.reply = Challenge(u)])
       ELSE /\ Begin(c, [Loaded(c, "login", "reply", u, rows[u]) EXCEPT !.reply = Session(u)])
            /\ UNCHANGED nextCode
    /\ UNCHANGED <<db, cookie, mailed, expired>>

(* POST /auth/login/2fa with a wrong, or the right, code.                  *)
LoginTwoFactor(c, guess) ==
    LET u == cookie[c].pend
        row == rows[u]
        missed == [row EXCEPT !.lattempts = @ + 1]
    IN
    /\ Enter(c, "login2fa")
    /\ u # None /\ Live(u) /\ row.tfa
    /\ Judges(row.lcode, row.lattempts)
    /\ IF guess = "wrong"
       THEN Begin(c, [Loaded(c, "login2fa", "commit", u, missed) EXCEPT !.missed = row.lcode])
       ELSE /\ Readable(row.lcode)
            /\ Begin(c, [Loaded(c, "login2fa", "commit", u, ClearLoginCode(row))
                           EXCEPT !.used = row.lcode, !.reply = Session(u)])
    /\ UNCHANGED <<db, cookie, nextCode, mailed, expired>>

(* ... and with no live challenge: the parked account id is dropped.       *)
LoginTwoFactorStale(c) ==
    LET u == cookie[c].pend IN
    /\ Enter(c, "login2fa")
    /\ u # None
    /\ ~(Live(u) /\ rows[u].tfa)
    /\ cookie' = [cookie EXCEPT ![c].pend = None]
    /\ UNCHANGED <<db, req, nextCode, mailed, expired>>

(* POST /auth/verify with a wrong, or the right, code.  With a change      *)
(* pending the right code still has to find the address free.              *)
Verify(c, u, guess) ==
    LET row == rows[u]
        missed == [row EXCEPT !.attempts = @ + 1]
        confirmed == ClearCode([row EXCEPT !.verified = TRUE])
    IN
    /\ Enter(c, "verify")
    /\ SessionUser(c, u)
    /\ ~(row.verified /\ row.pending = None)
    /\ Judges(row.code, row.attempts)
    /\ IF guess = "wrong"
       THEN Begin(c, [Loaded(c, "verify", "commit", u, missed) EXCEPT !.missed = row.code])
       ELSE /\ Readable(row.code)
            /\ Begin(c, [IF row.pending = None
                         THEN Loaded(c, "verify", "commit", u, confirmed)
                         ELSE Loaded(c, "verify", "probe", u, row) EXCEPT !.used = row.code])
    /\ UNCHANGED <<db, cookie, nextCode, mailed, expired>>

(* POST /auth/resend.                                                      *)
Resend(c, u) ==
    /\ Enter(c, "resend")
    /\ SessionUser(c, u)
    /\ ~(rows[u].verified /\ rows[u].pending = None)
    /\ IssueVerification(c, "resend", u, cookie[c])
    /\ UNCHANGED <<db, cookie, mailed, expired>>

(* PATCH /me with an email (None when omitted) and two_factor_enabled      *)
(* ("omit" when omitted), current_password right where it is asked for.    *)
ToggleAllowedUnverified(row, t) == row.sub = None /\ row.pwd
ToggleAllowed(row, t) ==
    /\ row.sub = None /\ row.pwd
    /\ t = "on" => row.verified
Patch(c, u, a, t) ==
    LET row == rows[u]
        changing == a # None /\ a # row.email
        toggling == t # "omit" /\ (t = "on") # row.tfa
        toggled == IF toggling THEN ClearLoginCode([row EXCEPT !.tfa = (t = "on")])
                   ELSE row
        kept == IF a # None /\ row.pending # None
                THEN ClearCode([toggled EXCEPT !.pending = None]) ELSE toggled
    IN
    /\ Enter(c, "patch")
    /\ SessionUser(c, u)
    /\ changing => row.sub = None /\ row.pwd
    /\ toggling => ToggleAllowed(row, t)
    /\ changing \/ toggled # row \/ kept # row
    /\ Begin(c, IF changing
                THEN [Loaded(c, "patch", "probe", u, toggled) EXCEPT !.addr = a]
                ELSE Loaded(c, "patch", "commit", u, kept))
    /\ UNCHANGED <<db, cookie, nextCode, mailed, expired>>

(* GET /auth/callback: Google answered with a user id and maybe an email.  *)
(* An account is found by sub, else linked by email, else created.         *)
LinkedKeepsPassword(row) == row
LinkedKeepsTwoFactor(row) == [row EXCEPT !.pwd = FALSE]
Linked(row) ==
    IF row.pwd THEN ClearLoginCode([row EXCEPT !.pwd = FALSE, !.tfa = FALSE]) ELSE row
SignedIn(row, s, a) ==
    IF a = None THEN [row EXCEPT !.sub = s]
    ELSE [row EXCEPT !.sub = s, !.email = a, !.verified = TRUE]
Callback(c, s, a) ==
    LET bySub == {u \in Users : Live(u) /\ rows[u].sub = s}
        byEmail == {u \in Users : Live(u) /\ a # None /\ rows[u].email = a}
        Found(u, row) == Begin(c, [Loaded(c, "callback", "commit", u, SignedIn(row, s, a))
                                     EXCEPT !.reply.uid = u])
    IN
    /\ Enter(c, "callback")
    /\ \/ \E u \in bySub : Found(u, rows[u])
       \/ bySub = {} /\ \E u \in byEmail : Found(u, Linked(rows[u]))
       \/ /\ bySub = {} /\ byEmail = {}
          /\ Begin(c, Inserting(c, "callback", SignedIn(NewRow, s, a)))
    /\ UNCHANGED <<db, cookie, nextCode, mailed, expired>>

(* DELETE /me, current_password right where there is one.                  *)
DeleteMe(c, u) ==
    /\ Enter(c, "delete")
    /\ SessionUser(c, u)
    /\ Begin(c, [Loaded(c, "delete", "commit", u, rows[u]) EXCEPT !.reply = NoCookie])
    /\ UNCHANGED <<db, cookie, nextCode, mailed, expired>>

(* POST /auth/logout.                                                      *)
Logout(c) ==
    /\ Enter(c, "logout")
    /\ cookie' = [cookie EXCEPT ![c] = NoCookie]
    /\ UNCHANGED <<db, req, nextCode, mailed, expired>>

(* Any authenticated request whose user is gone: current_user clears the   *)
(* cookie.                                                                 *)
StaleCookie(c) ==
    /\ req[c].pc = "idle"
    /\ cookie[c].uid # None /\ ~Live(cookie[c].uid)
    /\ cookie' = [cookie EXCEPT ![c] = NoCookie]
    /\ UNCHANGED <<db, req, nextCode, mailed, expired>>

----------------------------------------------------------------------------
(* The later steps of a request.                                           *)

(* The INSERT of register and of a first Google sign-in.  A UNIQUE clash   *)
(* rolls back (409, or an unhandled 500).  register then sets the cookie's *)
(* user and goes on to issue a code; the callback replies.                 *)
InsertRefused(c) ==
    /\ req[c].pc = "insert"
    /\ Clash(None, req[c].tgt)
    /\ Done(c)
    /\ UNCHANGED <<db, cookie, nextCode, mailed, expired>>

Insert(c, u) ==
    LET r == req[c]
        signed == [r.reply EXCEPT !.uid = u]
    IN
    /\ r.pc = "insert"
    /\ status[u] = "absent"
    /\ ~Clash(None, r.tgt)
    /\ status' = [status EXCEPT ![u] = "live"]
    /\ rows' = [rows EXCEPT ![u] = r.tgt]
    /\ proven' = [proven EXCEPT ![u] = IF r.tgt.verified THEN {r.tgt.email} \ {None} ELSE {}]
    /\ IF r.op = "register"
       THEN /\ Begin(c, [Idle EXCEPT !.op = "register", !.pc = "issue", !.u = u,
                                     !.reply = signed])
            /\ UNCHANGED cookie
       ELSE /\ Done(c)
            /\ Replies(c, signed)
    /\ UNCHANGED <<misses, uses, nextCode, mailed, expired>>

(* register, after its first commit: the row is read again.                *)
Issue(c) ==
    /\ req[c].pc = "issue"
    /\ IF Live(req[c].u)
       THEN IssueVerification(c, "register", req[c].u, req[c].reply)
       ELSE Done(c) /\ UNCHANGED nextCode
    /\ UNCHANGED <<db, cookie, mailed, expired>>

(* _email_taken, asked by verify and by PATCH.                             *)
ProbeVerify(c) ==
    LET r == req[c]
        row == r.snap
        dropped == ClearCode([row EXCEPT !.pending = None])
        swapped == ClearCode([row EXCEPT !.email = row.pending, !.pending = None,
                                         !.verified = TRUE])
    IN
    /\ r.pc = "probe" /\ r.op = "verify"
    /\ req' = [req EXCEPT ![c].pc = "commit",
                          ![c].tgt = IF EmailTaken(r.u, row.pending) THEN dropped
                                     ELSE swapped]
    /\ UNCHANGED <<db, cookie, nextCode, mailed, expired>>

ProbePatch(c) ==
    LET r == req[c] IN
    /\ r.pc = "probe" /\ r.op = "patch"
    /\ IF EmailTaken(r.u, r.addr)
       THEN Done(c) /\ UNCHANGED nextCode
       ELSE /\ FreshCode
            /\ req' = [req EXCEPT ![c].pc = "commit",
                         ![c].tgt = StoreCode([r.tgt EXCEPT !.pending = r.addr], nextCode)]
    /\ UNCHANGED <<db, cookie, mailed, expired>>

(* session.commit() of an UPDATE.  It fails, and nothing changes, when the *)
(* row is gone (no row matched: 500) or a UNIQUE column clashes (409 or    *)
(* 500).                                                                   *)
Updates(r) == r.pc = "commit" /\ r.op # "delete"
CommitFails(c) ==
    LET r == req[c] IN
    /\ Updates(r)
    /\ ~Live(r.u) \/ Clash(r.u, Flush(rows[r.u], r.snap, r.tgt))
    /\ Done(c)
    /\ UNCHANGED <<db, cookie, nextCode, mailed, expired>>

(* History: a code that set or confirmed an address proves it, as Google   *)
(* does; a miss is counted against the live code, once per reply, up to    *)
(* one more than the cap; an acceptance against the code, up to twice.     *)
Evidence(r, row) ==
    IF r.op = "callback" /\ row.verified /\ row.email # None THEN {row.email}
    ELSE IF r.op = "verify" /\ r.used # NoCode THEN {mailed[r.used]} \ {None}
    ELSE {}
Bump(f, k, cap) ==
    IF k # NoCode /\ f[k] < cap THEN [f EXCEPT ![k] = @ + 1] ELSE f

Commit(c) ==
    LET r == req[c]
        row == Flush(rows[r.u], r.snap, r.tgt)
    IN
    /\ Updates(r)
    /\ Live(r.u) /\ ~Clash(r.u, row)
    /\ rows' = [rows EXCEPT ![r.u] = row]
    /\ proven' = [proven EXCEPT ![r.u] = @ \cup Evidence(r, row)]
    /\ misses' = Bump(misses, r.missed, MaxAttempts + 1)
    /\ uses' = Bump(uses, r.used, 2)
    /\ IF r.addr # None \/ r.op = "login"
       THEN /\ req' = [req EXCEPT ![c].pc = "mail"]
            /\ UNCHANGED cookie
       ELSE /\ Done(c)
            /\ Replies(c, r.reply)
    /\ UNCHANGED <<status, nextCode, mailed, expired>>

(* send_verification_email goes to the address chosen when the request     *)
(* loaded the row; send_login_code_email to the row's email, read again.   *)
(* Resend may fail to deliver, which nobody is told.  The reply is built   *)
(* from the row: a request whose row is gone fails.                        *)
Mail(c) ==
    LET r == req[c]
        sent == IF r.addr # None THEN [mailed EXCEPT ![r.tgt.code] = r.addr]
                ELSE IF Live(r.u) THEN [mailed EXCEPT ![r.tgt.lcode] = rows[r.u].email]
                ELSE mailed
    IN
    /\ r.pc = "mail"
    /\ mailed' \in {mailed, sent}
    /\ IF Live(r.u) THEN Replies(c, r.reply) ELSE UNCHANGED cookie
    /\ Done(c)
    /\ UNCHANGED <<db, nextCode, expired>>

(* A request with nothing to write replies.                                *)
Reply(c) ==
    /\ req[c].pc = "reply"
    /\ Replies(c, req[c].reply)
    /\ Done(c)
    /\ UNCHANGED <<db, nextCode, mailed, expired>>

(* DELETE of the row, which tolerates that it is gone already.             *)
CommitDelete(c) ==
    LET r == req[c] IN
    /\ r.pc = "commit" /\ r.op = "delete"
    /\ status' = [status EXCEPT ![r.u] = "deleted"]
    /\ rows' = [rows EXCEPT ![r.u] = NewRow]
    /\ proven' = [proven EXCEPT ![r.u] = {}]
    /\ Replies(c, r.reply)
    /\ Done(c)
    /\ UNCHANGED <<misses, uses, nextCode, mailed, expired>>

(* The API process dies, or the pod is replaced: an open transaction rolls *)
(* back and no reply is sent.                                              *)
Crash(c) ==
    /\ "crash" \in Ops
    /\ req[c].pc # "idle"
    /\ Done(c)
    /\ UNCHANGED <<db, cookie, nextCode, mailed, expired>>

(* Time passes a code's expires_at.                                        *)
Expire(k) ==
    /\ "expire" \in Ops
    /\ k < nextCode /\ k \notin expired
    /\ expired' = expired \cup {k}
    /\ UNCHANGED <<db, cookie, req, nextCode, mailed>>

Next ==
    \/ \E c \in Clients :
         \/ \E a \in Addrs : Register(c, a)
         \/ \E u \in Users : Login(c, u)
         \/ \E guess \in {"right", "wrong"} : LoginTwoFactor(c, guess)
         \/ LoginTwoFactorStale(c)
         \/ \E u \in Users, guess \in {"right", "wrong"} : Verify(c, u, guess)
         \/ \E u \in Users : Resend(c, u)
         \/ \E u \in Users, a \in Addrs \cup {None}, t \in {"on", "off", "omit"} :
              Patch(c, u, a, t)
         \/ \E s \in Subs, a \in Addrs \cup {None} : Callback(c, s, a)
         \/ \E u \in Users : DeleteMe(c, u)
         \/ Logout(c)
         \/ StaleCookie(c)
         \/ InsertRefused(c)
         \/ \E u \in Users : Insert(c, u)
         \/ Issue(c)
         \/ ProbeVerify(c)
         \/ ProbePatch(c)
         \/ CommitFails(c)
         \/ Commit(c)
         \/ Mail(c)
         \/ Reply(c)
         \/ CommitDelete(c)
         \/ Crash(c)
    \/ \E k \in Codes : Expire(k)

Spec == Init /\ [][Next]_vars

----------------------------------------------------------------------------
(* Every variable keeps its type; in particular the attempt counters stay  *)
(* within settings.email_verify_max_attempts.                              *)
TypeOK ==
    /\ status \in [Users -> {"absent", "live", "deleted"}]
    /\ rows \in [Users -> Row]
    /\ cookie \in [Clients -> Cookie]
    /\ req \in [Clients -> Request]
    /\ nextCode \in 1..(MaxCodes + 1)
    /\ mailed \in [Codes -> Addrs \cup {None}]
    /\ expired \subseteq Codes
    /\ proven \in [Users -> SUBSET Addrs]
    /\ misses \in [Codes -> 0..(MaxAttempts + 1)]
    /\ uses \in [Codes -> 0..2]

(* There is exactly one way in to a live account, its password or Google:  *)
(* linking voids the password (auth.py:170-181), no request that loaded    *)
(* the row before brings it back, and none leaves the account with no way. *)
OneWayIn == \A u \in Users : Live(u) => (rows[u].pwd <=> rows[u].sub = None)

(* Two-factor sign-in is on only where the login code reaches a proven     *)
(* address (auth.py:500-506), whatever order PATCH, verify and Google      *)
(* callbacks commit in.                                                    *)
TwoFactorNeedsVerified == \A u \in Users : rows[u].tfa => rows[u].verified

(* A verified account never turns unverified, and a voided password never  *)
(* comes back: a request that loaded the row before commits only the       *)
(* columns it changed.                                                     *)
NoStaleRollback ==
    [][\A u \in Users : Live(u) /\ Live(u)' =>
         /\ rows[u].verified => rows'[u].verified
         /\ ~rows[u].pwd => ~rows'[u].pwd]_vars

(* A verified email was proven by its account: by Google, or by a code     *)
(* that was mailed to that very address (auth.py:279-281).                 *)
VerifiedEmailProven ==
    \A u \in Users :
        rows[u].verified /\ rows[u].email # None => rows[u].email \in proven[u]

(* No code, for an address or for a sign-in, outlives its cap of wrong     *)
(* guesses (auth.py:110-120).                                              *)
AttemptCap == \A k \in Codes : misses[k] <= MaxAttempts

(* A code is accepted at most once (config.py:127).                        *)
SingleUse == \A k \in Codes : uses[k] <= 1

(* The counter of wrong attempts belongs to a live code: 0 whenever there  *)
(* is none (models.py:110-121, 125-136).                                   *)
CounterNeedsCode ==
    \A u \in Users :
        /\ rows[u].code = NoCode => rows[u].attempts = 0
        /\ rows[u].lcode = NoCode => rows[u].lattempts = 0

(* A Google account has no second factor of ours: two-factor sign-in       *)
(* guards the password path, which is gone (auth.py:178-181).              *)
GoogleHasNoTwoFactor == \A u \in Users : rows[u].sub # None => ~rows[u].tfa

(* A client signs in to an account that keeps two-factor on only by using  *)
(* up the code that was mailed for it (auth.py:239-245, 307-338).          *)
SecondFactorGuards ==
    [][\A c \in Clients, u \in Users :
         cookie'[c].uid = u /\ cookie[c].uid # u /\ rows[u].tfa /\ rows'[u].tfa =>
            /\ rows[u].lcode # NoCode /\ mailed[rows[u].lcode] # None
            /\ rows'[u].lcode = NoCode]_vars

(* Why these properties survive overlapping requests: a row only           *)
(* moves one way (Later), and what a request is about to commit differs    *)
(* from what it loaded in ways that are right on top of any later row      *)
(* (Change).                                                               *)
RowOK(row) ==
    /\ row.pwd <=> row.sub = None
    /\ row.tfa => row.verified
    /\ row.sub = None => row.email # None

Later(old, new) ==
    /\ new.pwd => old.pwd
    /\ old.verified => new.verified

Change(old, new) ==
    /\ Later(old, new)
    /\ new.sub = old.sub \/ (new.sub # None /\ ~new.pwd)
    /\ old.pwd /\ ~new.pwd => new.sub # old.sub
    /\ new.tfa => old.tfa \/ old.verified
    /\ new.email = old.email \/ (new.email # None /\ new.verified)

RequestOK(r) ==
    /\ r.pc \notin {"idle", "insert"} => r.u \in Users /\ status[r.u] # "absent"
    /\ r.pc = "insert" => RowOK(r.tgt) /\ (r.tgt.pwd => ~r.tgt.verified)
    /\ r.pc \in {"probe", "commit"} =>
         /\ Change(r.snap, r.tgt)
         /\ Live(r.u) => Later(r.snap, rows[r.u])
    /\ r.pc = "probe" /\ r.op = "verify" => r.snap.pending # None

RowsOK == \A u \in Users : IF Live(u) THEN RowOK(rows[u]) ELSE rows[u] = NewRow
RequestsOK == \A c \in Clients : RequestOK(req[c])
IInv == TypeOK /\ RowsOK /\ RequestsOK

(* The endpoints implement AccountLife: each step of a request is one of   *)
(* its operations or changes nothing it can see, also when requests on the *)
(* same account overlap.                                                   *)
StageOf(u) ==
    IF status[u] = "absent" THEN "absent"
    ELSE IF status[u] = "deleted" THEN "closed"
    ELSE IF rows[u].sub # None THEN "google"
    ELSE IF rows[u].verified THEN "proven" ELSE "unproven"

Life == INSTANCE AccountLife WITH
    stage <- [u \in Users |-> StageOf(u)],
    login <- [u \in Users |-> rows[u].email]

ImplementsAccountLife == Life!Spec

(* The email of a Google account follows Google: only a callback changes   *)
(* it (auth.py:70-72, 487-492).                                            *)
EmailFollowsGoogle ==
    [][\A u \in Users :
         Live(u) /\ Live(u)' /\ rows[u].sub # None /\ rows'[u].email # rows[u].email =>
            \E c \in Clients : req[c].op = "callback" /\ req'[c].pc = "idle"]_vars
=============================================================================
