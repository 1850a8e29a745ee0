------------------------------ MODULE Uploads -------------------------------
(***************************************************************************)
(* Attachments and avatars: backend/app/api/files.py and avatars.py, with  *)
(* the parts of sign-in and account deletion that touch the same rows.     *)
(*                                                                         *)
(* Two tables hang off a user row, and what keeps them right is the order  *)
(* in which a transaction locks the user row and the avatar row: so a step *)
(* here is a statement that takes locks, and they are held until COMMIT or *)
(* rollback.  A request that is refused before its first lock (401, 400,   *)
(* 404, 413, 415) changes nothing and does not start.                      *)
(***************************************************************************)
EXTENDS Naturals, FiniteSets

CONSTANTS
    Users,        \* primary keys, never reused
    Workers,      \* requests the API replicas handle at a time
    None,
    Picture,      \* the address of a Google profile picture
    FilesMax,     \* settings.files_max_per_user
    BypassRLS,    \* the process connects as the owner of the tables
    MaxFiles,     \* bound: attachments stored in a behaviour
    MaxImages,    \* bound: avatars uploaded in a behaviour
    MaxNow        \* bound: seconds the clock advances

ASSUME FilesMaxAssumption == FilesMax \in Nat
ASSUME RoleAssumption == BypassRLS \in BOOLEAN
ASSUME BoundsAssumption == MaxFiles \in Nat /\ MaxImages \in Nat /\ MaxNow \in Nat
ASSUME NoneAssumption ==
    /\ None \notin Users \cup Nat
    /\ Picture \notin Users \cup Nat \cup {None}

VARIABLES
    live,       \* users whose account exists
    files,      \* id -> the owner of the row of `user_files`, or None
    avatar,     \* user -> the image in `user_avatars`, or None
    url,        \* user -> users.avatar_url: the version of an upload, Picture or None
    locks,      \* row locks held by open transactions
    req,        \* worker -> the request it is handling
    nextFile,   \* the next fresh file id
    nextImage,  \* the next image uploaded
    now,        \* the clock, in whole seconds
    cached,     \* a browser's cache: user -> version -> the image it got for it
    last,       \* history: user -> the version of the last upload stored
    rushed,     \* history: users with two uploads stored in one second
    raced       \* history: users whose avatar changed under a request's feet

rows == <<live, files, avatar, url>>
history == <<last, rushed, raced>>
bounds == <<nextFile, nextImage, now>>
vars == <<rows, locks, req, bounds, cached, history>>

FileIds == 1..MaxFiles
Images == 1..MaxImages
Versions == 0..MaxNow
Urls == Versions \cup {Picture, None}

(* A row lock.  FOR UPDATE and DELETE take "excl", an UPDATE of other      *)
(* columns than the key takes "noKey", a foreign key check takes "share".  *)
Modes == {"share", "noKey", "excl"}
RowLocks == {"user", "avatar"} \X Users \X Modes
Locks == Workers \X RowLocks
Conflict(m, n) == "share" \in {m, n} => "excl" \in {m, n}

(* A request: the phase it is in, whose rows it touches, the avatar_url    *)
(* loaded when it began, and what it will write.                           *)
Phases == {"idle", "count", "full", "store", "reply", "upsert", "link",
           "remove", "unlink", "erase", "cascade"}
Request == [pc: Phases, user: Users \cup {None}, image: Images \cup {None},
            loaded: Urls, version: Versions \cup {None}, file: FileIds \cup {None}]
Idle == [pc |-> "idle", user |-> None, image |-> None,
         loaded |-> None, version |-> None, file |-> None]

FilesOf(u) == {f \in FileIds : files[f] = u}
Held(w) == {l \in locks : l[1] = w}

(* The locks the next statement of request r needs.  An INSERT of an       *)
(* avatar locks its key and checks the user; a DELETE locks the rows it    *)
(* finds; an UPDATE is left out when no column changes.                    *)
AvatarLock(u) == <<"avatar", u, "excl">>
UserLock(u, m) == <<"user", u, m>>
WantsSwapped(r) ==
    CASE r.pc \in {"count", "erase"} -> {UserLock(r.user, "excl")}
      [] r.pc = "upsert" -> {UserLock(r.user, "noKey")}
      [] r.pc = "link"   -> {AvatarLock(r.user)}
      [] r.pc = "unlink" -> {UserLock(r.user, "noKey")}
      [] r.pc \in {"remove", "cascade"} -> {AvatarLock(r.user)}
      [] OTHER -> {}
WantsNoLock(r) ==
    CASE r.pc = "erase" -> {UserLock(r.user, "excl")}
      [] r.pc \in {"upsert", "remove", "cascade"} -> {AvatarLock(r.user)}
      [] OTHER -> {}
Wants(r) ==
    CASE r.pc \in {"count", "erase"} -> {UserLock(r.user, "excl")}
      [] r.pc = "upsert" -> {AvatarLock(r.user)} \cup
             (IF avatar[r.user] = None THEN {UserLock(r.user, "share")} ELSE {})
      [] r.pc = "link" /\ r.loaded # r.version -> {UserLock(r.user, "noKey")}
      [] r.pc = "unlink" /\ r.loaded # None -> {UserLock(r.user, "noKey")}
      [] r.pc \in {"remove", "cascade"} /\ avatar[r.user] # None -> {AvatarLock(r.user)}
      [] OTHER -> {}

(* Worker v holds a lock that the next statement of w has to wait for.     *)
Blocks(v, w) ==
    \E h \in Held(v), k \in Wants(req[w]) :
        v # w /\ h[2][1] = k[1] /\ h[2][2] = k[2] /\ Conflict(h[2][3], k[3])
Waiting(w) == \E v \in Workers : Blocks(v, w)

(* A statement runs once its locks are free; it holds them from then on.   *)
(* A COMMIT or a rollback ends the transaction and lets go of them.        *)
Acquire(w) ==
    /\ ~ Waiting(w)
    /\ locks' = locks \cup {<<w, k>> : k \in Wants(req[w])}
Release(w) == locks' = locks \ Held(w)
Begin(w, r) == req[w] = Idle /\ req' = [req EXCEPT ![w] = r]
Goto(w, pc) == req' = [req EXCEPT ![w].pc = pc]
Done(w) == req' = [req EXCEPT ![w] = Idle]
Fail(w) == Done(w) /\ Release(w) /\ UNCHANGED <<rows, history>>

Starting(pc, u) == [Idle EXCEPT !.pc = pc, !.user = u]
Seeing(pc, u) == [Starting(pc, u) EXCEPT !.loaded = url[u]]

Init ==
    /\ live = Users
    /\ files = [f \in FileIds |-> None]
    /\ avatar = [u \in Users |-> None]
    /\ url = [u \in Users |-> None]
    /\ locks = {} /\ req = [w \in Workers |-> Idle]
    /\ nextFile = 1 /\ nextImage = 1 /\ now = 0
    /\ cached = [u \in Users |-> [v \in Versions |-> None]]
    /\ last = [u \in Users |-> None]
    /\ rushed = {} /\ raced = {}

----------------------------------------------------------------------------
(* POST /me/files, up to its first lock: the upload is a PDF or an image   *)
(* of an allowed size, for a card that exists (cards are never deleted).   *)
UploadFile(w, u) ==
    /\ u \in live /\ nextFile <= MaxFiles
    /\ Begin(w, [Starting("count", u) EXCEPT !.file = nextFile])
    /\ nextFile' = nextFile + 1
    /\ UNCHANGED <<rows, locks, nextImage, now, cached, history>>

(* SELECT ... FOR UPDATE of the user's row, then the count.  The files of  *)
(* an account deleted meanwhile count 0.                                   *)
BelowMaxOrAt(u) == Cardinality(FilesOf(u)) <= FilesMax
BelowMax(u) == Cardinality(FilesOf(u)) < FilesMax
CountFiles(w) ==
    LET u == req[w].user IN
    /\ req[w].pc = "count"
    /\ Acquire(w) /\ Goto(w, IF BelowMax(u) THEN "store" ELSE "full")
    /\ UNCHANGED <<rows, bounds, cached, history>>

(* At the limit 409 is raised, and the lock is kept until get_session is   *)
(* torn down.                                                              *)
RefuseFile(w) ==
    /\ req[w].pc = "full"
    /\ Done(w) /\ Release(w)
    /\ UNCHANGED <<rows, bounds, cached, history>>

(* INSERT and COMMIT; the foreign key refuses a user who is gone.          *)
StoreFile(w) ==
    LET u == req[w].user IN
    /\ req[w].pc = "store"
    /\ IF u \in live
       THEN /\ files' = [files EXCEPT ![req[w].file] = u]
            /\ Goto(w, "reply") /\ Release(w)
            /\ UNCHANGED <<live, avatar, url, history>>
       ELSE Fail(w)
    /\ UNCHANGED <<bounds, cached>>

(* session.refresh: the row is read again in a new transaction, which has  *)
(* not set app.user_id; a row the policy hides or that is deleted by now   *)
(* makes the answer an error.                                              *)
RowSeen(f) == BypassRLS /\ files[f] # None
ReplyFile(w) ==
    /\ req[w].pc = "reply"
    /\ Done(w)
    /\ UNCHANGED <<rows, locks, bounds, cached, history>>

(* DELETE /me/files/{f}: one row of the caller's, by its id.               *)
DeleteFile(u, f) ==
    /\ u \in live /\ files[f] = u
    /\ files' = [files EXCEPT ![f] = None]
    /\ UNCHANGED <<live, avatar, url, locks, req, bounds, cached, history>>

----------------------------------------------------------------------------
(* POST /me/avatar of a fresh image, up to its first lock.                 *)
UploadAvatar(w, u) ==
    /\ u \in live /\ nextImage <= MaxImages
    /\ Begin(w, [Seeing("upsert", u) EXCEPT !.image = nextImage])
    /\ nextImage' = nextImage + 1
    /\ UNCHANGED <<rows, locks, nextFile, now, cached, history>>

(* INSERT ... ON CONFLICT DO UPDATE, after which the version is read off   *)
(* the clock.                                                              *)
UpsertAvatar(w) ==
    /\ req[w].pc = "upsert"
    /\ IF req[w].user \in live
       THEN /\ Acquire(w)
            /\ req' = [req EXCEPT ![w].pc = "link", ![w].version = now]
            /\ UNCHANGED <<rows, history>>
       ELSE ~ Waiting(w) /\ Fail(w)
    /\ UNCHANGED <<bounds, cached>>

(* An avatar request commits over an avatar_url it has not seen.           *)
Overtaken(r) == r.loaded # url[r.user]
Race(r) == IF Overtaken(r) THEN raced \cup {r.user} ELSE raced \ {r.user}
Rush(r) == IF r.version = last[r.user] THEN rushed \cup {r.user} ELSE rushed \ {r.user}

(* COMMIT: the image, and avatar_url if it differs from the one loaded.    *)
KeepsAddress(u, loaded, new) ==
    IF loaded # new /\ new # None THEN [url EXCEPT ![u] = new] ELSE url
NoVersion(u, loaded, new) ==
    IF loaded = None \/ new = None THEN [url EXCEPT ![u] = new] ELSE url
Relinked(u, loaded, new) == IF loaded # new THEN [url EXCEPT ![u] = new] ELSE url
LinkAvatar(w) ==
    LET r == req[w] IN
    /\ r.pc = "link" /\ ~ Waiting(w)
    /\ Done(w) /\ Release(w)
    /\ avatar' = [avatar EXCEPT ![r.user] = r.image]
    /\ url' = Relinked(r.user, r.loaded, r.version)
    /\ last' = [last EXCEPT ![r.user] = r.version]
    /\ rushed' = Rush(r) /\ raced' = Race(r)
    /\ UNCHANGED <<live, files, bounds, cached>>

(* DELETE /me/avatar: the DELETE of the row, if one is committed.          *)
DeleteAvatar(w, u) ==
    /\ u \in live /\ Begin(w, Seeing("remove", u))
    /\ UNCHANGED <<rows, locks, bounds, cached, history>>
RemoveAvatar(w) ==
    /\ req[w].pc = "remove"
    /\ Acquire(w) /\ Goto(w, "unlink")
    /\ UNCHANGED <<rows, bounds, cached, history>>

(* COMMIT: the row it locked goes, and avatar_url is cleared if one was    *)
(* loaded; clearing it on an account that is gone fails.                   *)
Removed(w) == \E l \in Held(w) : l[2][1] = "avatar"
UnlinkAvatar(w) ==
    LET r == req[w] IN
    /\ r.pc = "unlink" /\ ~ Waiting(w)
    /\ IF r.user \in live
       THEN /\ Done(w) /\ Release(w)
            /\ avatar' = IF Removed(w) THEN [avatar EXCEPT ![r.user] = None] ELSE avatar
            /\ url' = Relinked(r.user, r.loaded, None)
            /\ raced' = Race(r)
            /\ UNCHANGED <<live, files, last, rushed>>
       ELSE Fail(w)
    /\ UNCHANGED <<bounds, cached>>

----------------------------------------------------------------------------
(* DELETE /me: the user's row, then the rows that cascade from it.         *)
DeleteMe(w, u) ==
    /\ u \in live /\ Begin(w, Starting("erase", u))
    /\ UNCHANGED <<rows, locks, bounds, cached, history>>
EraseUser(w) ==
    /\ req[w].pc = "erase"
    /\ Acquire(w) /\ Goto(w, "cascade")
    /\ UNCHANGED <<rows, bounds, cached, history>>
KeepsFiles(u) == files
Cascaded(u) == [f \in FileIds |-> IF files[f] = u THEN None ELSE files[f]]
CascadeUser(w) ==
    LET u == req[w].user IN
    /\ req[w].pc = "cascade" /\ ~ Waiting(w)
    /\ Done(w) /\ Release(w)
    /\ live' = live \ {u}
    /\ files' = Cascaded(u)
    /\ avatar' = [avatar EXCEPT ![u] = None]
    /\ url' = [url EXCEPT ![u] = None]
    /\ UNCHANGED <<bounds, cached, history>>

(* A sign-in with Google writes the profile picture's address.             *)
GoogleSignIn(u) ==
    /\ u \in live /\ url[u] # Picture
    /\ ~ \E l \in locks : l[2][1] = "user" /\ l[2][2] = u /\ l[2][3] # "share"
    /\ url' = [url EXCEPT ![u] = Picture]
    /\ UNCHANGED <<live, files, avatar, locks, req, bounds, cached, history>>

(* GET /avatars/{u}?v=...: the browser keeps the image for the address     *)
(* the profile shows, and asks for an address once.                        *)
Fetch(u) ==
    /\ url[u] \in Versions
    /\ avatar[u] # None /\ cached[u][url[u]] = None
    /\ cached' = [cached EXCEPT ![u][url[u]] = avatar[u]]
    /\ UNCHANGED <<rows, locks, req, bounds, history>>

Tick ==
    /\ now < MaxNow /\ now' = now + 1
    /\ UNCHANGED <<rows, locks, req, nextFile, nextImage, cached, history>>

(* The statement timeout, or the deadlock detector, ends a wait: rollback. *)
NoTimeout(w) == FALSE
TimesOut(w) == Waiting(w)
Timeout(w) ==
    /\ req[w] # Idle /\ TimesOut(w)
    /\ Fail(w) /\ UNCHANGED <<bounds, cached>>

(* The process dies; the server rolls its open transaction back.           *)
Crash(w) ==
    /\ req[w] # Idle
    /\ Fail(w) /\ UNCHANGED <<bounds, cached>>

Statement(w) ==
    \/ CountFiles(w) \/ RefuseFile(w) \/ StoreFile(w) \/ ReplyFile(w)
    \/ UpsertAvatar(w) \/ LinkAvatar(w) \/ RemoveAvatar(w) \/ UnlinkAvatar(w)
    \/ EraseUser(w) \/ CascadeUser(w)

Next ==
    \/ \E w \in Workers : Statement(w) \/ Timeout(w) \/ Crash(w)
    \/ \E w \in Workers, u \in Users :
           UploadFile(w, u) \/ UploadAvatar(w, u) \/ DeleteAvatar(w, u) \/ DeleteMe(w, u)
    \/ \E u \in Users : GoogleSignIn(u) \/ Fetch(u)
    \/ \E u \in Users, f \in FileIds : DeleteFile(u, f)
    \/ Tick

Spec == Init /\ [][Next]_vars

(* The uploads are coroutines, and one that waits for a lock stops the     *)
(* event loop of its replica.  If that is where the session of a refused   *)
(* upload is to be closed, the lock is not let go of before the wait ends. *)
Stalls(w) ==
    /\ req[w].pc = "full"
    /\ \E v \in Workers : Blocks(w, v) /\ req[v].pc \in {"count", "upsert", "link"}

(* A request goes on as long as its statement can run and its event loop   *)
(* is not stopped; a wait is cancelled after db_statement_timeout_ms.      *)
Fairness == \A w \in Workers : WF_vars((Statement(w) /\ ~ Stalls(w)) \/ Timeout(w))
FairSpec == Spec /\ Fairness
----------------------------------------------------------------------------
TypeOK ==
    /\ live \subseteq Users
    /\ files \in [FileIds -> Users \cup {None}]
    /\ avatar \in [Users -> Images \cup {None}]
    /\ url \in [Users -> Urls]
    /\ locks \subseteq Locks
    /\ req \in [Workers -> Request]
    /\ nextFile \in 1..MaxFiles + 1
    /\ nextImage \in 1..MaxImages + 1
    /\ now \in Versions
    /\ cached \in [Users -> [Versions -> Images \cup {None}]]
    /\ last \in [Users -> Versions \cup {None}]
    /\ rushed \subseteq Users /\ raced \subseteq Users

(* No account keeps more than files_max_per_user files, however many of    *)
(* its uploads run at once (files.py:139-147).                             *)
FileCap == \A u \in Users : Cardinality(FilesOf(u)) <= FilesMax

(* No file or avatar outlives its account, whatever was running when it    *)
(* was deleted (files.py:149, avatars.py:84, the cascades of models.py).   *)
NoOrphans ==
    /\ \A f \in FileIds : files[f] \in live \cup {None}
    /\ \A u \in Users \ live : avatar[u] = None

(* The inductive invariant: every request is about an account, no two      *)
(* workers hold locks that clash, an upload past its count has the user's  *)
(* row to itself and room for one file, and an upload has a fresh id.      *)
Named == \A w \in Workers : req[w].pc # "idle" => req[w].user \in Users
LocksCompatible ==
    \A l, k \in locks :
        l[1] # k[1] /\ l[2][1] = k[2][1] /\ l[2][2] = k[2][2] => ~ Conflict(l[2][3], k[2][3])
StoreHoldsRow ==
    \A w \in Workers : req[w].pc = "store" =>
        <<w, UserLock(req[w].user, "excl")>> \in locks /\ BelowMax(req[w].user)
Uploading(w) == req[w].pc \in {"count", "store"}
FreshIds ==
    /\ \A f \in FileIds : f >= nextFile => files[f] = None
    /\ \A w \in Workers : Uploading(w) =>
           /\ req[w].file \in FileIds /\ req[w].file < nextFile
           /\ files[req[w].file] = None
    /\ \A v, w \in Workers :
           v # w /\ Uploading(v) /\ Uploading(w) => req[v].file # req[w].file
IInv == TypeOK /\ Named /\ LocksCompatible /\ StoreHoldsRow /\ FreshIds /\ FileCap

(* An address of ours that a profile shows has an image behind it, except  *)
(* where an avatar request committed over a change it had not seen: the    *)
(* ORM writes avatar_url only if it differs from the value loaded when the *)
(* request began (avatars.py:95-97, 107-109).                              *)
ShownIsServed ==
    \A u \in live \ raced : url[u] \in Versions => avatar[u] # None

(* A browser shows the current image for the address the profile shows:    *)
(* the version changes with every upload, unless two are stored within a   *)
(* second (avatars.py:92-96, 128).                                         *)
CacheFresh ==
    \A u \in live \ (raced \cup rushed) :
        url[u] \in Versions => cached[u][url[u]] \in {None, avatar[u]}

(* Transactions wait for each other, in a circle of any length, only when  *)
(* one of them deletes the account: it locks the user row first and the    *)
(* avatar after, the avatar handlers the other way round (auth.py:443,     *)
(* avatars.py:84-97, 106-109).                                             *)
Deadlocked(S) == S # {} /\ \A w \in S : \E v \in S : Blocks(v, w)
DeadlockNeedsErase ==
    \A S \in SUBSET Workers : Deadlocked(S) => \E w \in S : req[w].pc = "cascade"

(* Every request is answered in the end, deadlocks and lock queues         *)
(* and a stopped event loop included: a wait is cut off by the statement   *)
(* timeout (db.py:21-23).                                                  *)
Answered == \A w \in Workers : req[w] # Idle ~> req[w] = Idle

(* An upload whose file is stored is answered with 201: what               *)
(* tests/test_files.py asks of a process that owns the tables.             *)
StoredIsReported ==
    [][\A w \in Workers :
           ReplyFile(w) /\ files[req[w].file] # None => RowSeen(req[w].file)]_vars

(* The attachments implement a drawer of FilesMax files per account.       *)
Drawer == INSTANCE FileDrawer WITH
    Owners <- Users, Files <- FileIds, Limit <- FilesMax,
    drawer <- [u \in Users |-> FilesOf(u)]
ImplementsDrawer == Drawer!Spec
=============================================================================
