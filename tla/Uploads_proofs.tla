--------------------------- MODULE Uploads_proofs ---------------------------
(***************************************************************************)
(* Uploads for any number of accounts, workers, files and images.  IInv    *)
(* says that the lock on the user's row makes the count right; HolderInv   *)
(* says which locks each phase of a request holds.  From the two follow    *)
(* that nothing outlives its account, who can take part in a deadlock, and *)
(* the refinement of FileDrawer.                                           *)
(***************************************************************************)
EXTENDS Uploads, FiniteSetTheorems, TLAPS

LEMMA BoundTypes ==
    /\ MaxFiles \in Nat /\ MaxImages \in Nat /\ MaxNow \in Nat /\ FilesMax \in Nat
    /\ None \notin Users /\ None \notin Nat
BY BoundsAssumption, FilesMaxAssumption, NoneAssumption

LEMMA IdsFinite ==
    ASSUME NEW S \in SUBSET FileIds
    PROVE  IsFiniteSet(S) /\ Cardinality(S) \in Nat
<1>1. IsFiniteSet(1..MaxFiles)
  BY BoundTypes, FS_Interval
<1>2. IsFiniteSet(S)
  BY <1>1, FS_Subset DEF FileIds
<1> QED
  BY <1>2, FS_CardinalityType

(* Files only leave: an account that had room has room.                    *)
FilesOnlyLeave == \A f \in FileIds : files'[f] \in {files[f], None}

LEMMA FewerFiles ==
    ASSUME FilesOnlyLeave, NEW u \in Users
    PROVE  /\ Cardinality(FilesOf(u)') <= Cardinality(FilesOf(u))
           /\ BelowMax(u) => BelowMax(u)'
<1>1. FilesOf(u)' \subseteq FilesOf(u) /\ FilesOf(u) \in SUBSET FileIds
  BY BoundTypes DEF FilesOnlyLeave, FilesOf
<1>2. /\ IsFiniteSet(FilesOf(u)) /\ Cardinality(FilesOf(u)) \in Nat
      /\ Cardinality(FilesOf(u)') \in Nat
  <2>1. FilesOf(u)' \in SUBSET FileIds
    BY <1>1
  <2> QED
    BY <1>1, <2>1, IdsFinite
<1>3. Cardinality(FilesOf(u)') <= Cardinality(FilesOf(u))
  BY <1>1, <1>2, FS_Subset
<1> QED
  BY <1>2, <1>3, BoundTypes DEF BelowMax

----------------------------------------------------------------------------
(* Requests.                                                               *)
LEMMA IdleRequest == Idle \in Request
BY DEF Idle, Request, Phases, Urls

LEMMA RequestSet ==
    ASSUME TypeOK, NEW w \in Workers, NEW r \in Request, req' = [req EXCEPT ![w] = r]
    PROVE  /\ req' \in [Workers -> Request] /\ req'[w] = r
           /\ \A v \in Workers : v # w => req'[v] = req[v]
BY DEF TypeOK

LEMMA RequestDone ==
    ASSUME TypeOK, NEW w \in Workers, Done(w)
    PROVE  /\ req' \in [Workers -> Request] /\ req'[w] = Idle
           /\ \A v \in Workers : v # w => req'[v] = req[v]
BY IdleRequest, RequestSet DEF Done

LEMMA RequestMoves ==
    ASSUME TypeOK, NEW w \in Workers, NEW pc \in Phases, Goto(w, pc)
    PROVE  /\ req' \in [Workers -> Request] /\ req'[w] = [req[w] EXCEPT !.pc = pc]
           /\ req'[w] \in Request /\ req'[w].pc = pc
           /\ req'[w].user = req[w].user /\ req'[w].file = req[w].file
           /\ \A v \in Workers : v # w => req'[v] = req[v]
<1>1. req[w] \in Request /\ req' = [req EXCEPT ![w] = [req[w] EXCEPT !.pc = pc]]
  BY DEF TypeOK, Goto
<1>2. PICK r : r = [req[w] EXCEPT !.pc = pc]
  OBVIOUS
<1>3. /\ r \in Request /\ r.pc = pc /\ r.user = req[w].user /\ r.file = req[w].file
  BY <1>1, <1>2 DEF Request
<1> QED
  BY <1>1, <1>2, <1>3, RequestSet

LEMMA RequestBegins ==
    ASSUME TypeOK, NEW w \in Workers, NEW pc \in Phases, NEW u \in Users
    PROVE  /\ Starting(pc, u) \in Request /\ Seeing(pc, u) \in Request
           /\ Starting(pc, u).pc = pc /\ Starting(pc, u).user = u
           /\ Seeing(pc, u).pc = pc /\ Seeing(pc, u).user = u
<1>1. Starting(pc, u) \in Request /\ Starting(pc, u).pc = pc /\ Starting(pc, u).user = u
  BY IdleRequest DEF Starting, Idle, Request
<1>2. url[u] \in Urls
  BY DEF TypeOK
<1> QED
  BY <1>1, <1>2 DEF Seeing, Request

----------------------------------------------------------------------------
(* Locks.                                                                  *)
LEMMA WantsTyped ==
    ASSUME TypeOK, Named, NEW w \in Workers
    PROVE  Wants(req[w]) \subseteq RowLocks
<1>1. CASE req[w].pc = "idle"
  BY <1>1 DEF Wants
<1>2. CASE req[w].pc # "idle"
  <2>1. req[w].user \in Users
    BY <1>2 DEF Named
  <2>2. /\ AvatarLock(req[w].user) \in RowLocks
        /\ \A m \in Modes : UserLock(req[w].user, m) \in RowLocks
    BY <2>1 DEF AvatarLock, UserLock, RowLocks, Modes
  <2> QED
    BY <2>2 DEF Wants, Modes
<1> QED
  BY <1>1, <1>2

LEMMA LockFields ==
    ASSUME TypeOK, NEW l \in locks
    PROVE  /\ l = <<l[1], l[2]>> /\ l[1] \in Workers /\ l[2] \in RowLocks
           /\ l[2][1] \in {"user", "avatar"} /\ l[2][2] \in Users /\ l[2][3] \in Modes
BY DEF TypeOK, Locks, RowLocks

LEMMA AcquireKeeps ==
    ASSUME TypeOK, Named, LocksCompatible, NEW w \in Workers, Acquire(w)
    PROVE  locks' \subseteq Locks /\ locks \subseteq locks' /\ LocksCompatible'
<1>1. locks' = locks \cup {<<w, k>> : k \in Wants(req[w])}
  BY DEF Acquire
<1>2. locks' \subseteq Locks
  BY <1>1, WantsTyped DEF TypeOK, Locks
<1>3. ASSUME NEW l \in locks, NEW k \in Wants(req[w]), l[1] # w,
             l[2][1] = k[1], l[2][2] = k[2]
      PROVE  ~ Conflict(l[2][3], k[3]) /\ ~ Conflict(k[3], l[2][3])
  <2>1. l[1] \in Workers /\ l \in Held(l[1])
    BY LockFields DEF Held
  <2>2. ~ Blocks(l[1], w)
    BY <2>1 DEF Acquire, Waiting
  <2>3. ~ Conflict(l[2][3], k[3])
    BY <1>3, <2>1, <2>2 DEF Blocks
  <2> QED
    BY <2>3 DEF Conflict
<1>4. ASSUME NEW l \in locks', NEW k \in locks', l[1] # k[1],
             l[2][1] = k[2][1], l[2][2] = k[2][2]
      PROVE  ~ Conflict(l[2][3], k[2][3])
  <2>1. CASE l \in locks /\ k \in locks
    BY <1>4, <2>1 DEF LocksCompatible
  <2>2. CASE l \notin locks
    <3>1. PICK m \in Wants(req[w]) : l = <<w, m>>
      BY <1>1, <2>2
    <3>2. k \in locks /\ k[1] # w
      BY <1>1, <1>4, <3>1
    <3> QED
      BY <1>3, <1>4, <3>1, <3>2
  <2>3. CASE k \notin locks
    <3>1. PICK m \in Wants(req[w]) : k = <<w, m>>
      BY <1>1, <2>3
    <3>2. l \in locks /\ l[1] # w
      BY <1>1, <1>4, <3>1
    <3> QED
      BY <1>3, <1>4, <3>1, <3>2
  <2> QED
    BY <2>1, <2>2, <2>3
<1> QED
  BY <1>1, <1>2, <1>4 DEF LocksCompatible

LEMMA ReleaseKeeps ==
    ASSUME TypeOK, LocksCompatible, NEW w \in Workers, Release(w)
    PROVE  /\ locks' \subseteq locks /\ locks' \subseteq Locks /\ LocksCompatible'
           /\ \A l \in locks : l[1] # w => l \in locks'
           /\ \A l \in locks' : l[1] # w
<1>1. /\ locks' \subseteq locks
      /\ \A l \in locks : l \in locks' <=> l[1] # w
  BY DEF Release, Held
<1> QED
  BY <1>1 DEF LocksCompatible, TypeOK

LEMMA LocksUnchanged ==
    ASSUME LocksCompatible, UNCHANGED locks
    PROVE  LocksCompatible'
BY DEF LocksCompatible

----------------------------------------------------------------------------
(* Steps that begin no upload and count no files.                          *)
LEMMA QuietStep ==
    ASSUME IInv, TypeOK', LocksCompatible', FilesOnlyLeave, NEW w \in Workers,
           \A v \in Workers : v # w => req'[v] = req[v],
           req'[w].pc # "idle" => req'[w].user \in Users,
           ~ Uploading(w)',
           nextFile' = nextFile,
           \A l \in locks : l[1] # w => l \in locks'
    PROVE  IInv'
<1>1. Named'
  BY DEF IInv, Named
<1>2. StoreHoldsRow'
  <2> SUFFICES ASSUME NEW v \in Workers, req'[v].pc = "store"
               PROVE  /\ <<v, UserLock(req'[v].user, "excl")>> \in locks'
                      /\ BelowMax(req[v].user)'
    BY DEF StoreHoldsRow, UserLock
  <2>1. v # w /\ req'[v] = req[v]
    BY DEF Uploading
  <2>2. <<v, UserLock(req[v].user, "excl")>> \in locks /\ BelowMax(req[v].user)
    BY <2>1 DEF IInv, StoreHoldsRow
  <2>3. PICK u \in Users : u = req[v].user /\ u = req'[v].user
    BY <2>1 DEF IInv, Named
  <2>4. BelowMax(u)'
    BY <2>2, <2>3, FewerFiles
  <2>5. BelowMax(req[v].user)'
    BY <2>3, <2>4 DEF BelowMax, FilesOf
  <2> QED
    BY <2>1, <2>2, <2>5
<1>3. FreshIds'
  <2>1. \A v \in Workers : Uploading(v)' => Uploading(v) /\ req'[v] = req[v]
    BY DEF Uploading
  <2>2. \A f \in FileIds : files[f] = None => files'[f] = None
    BY DEF FilesOnlyLeave
  <2> QED
    BY <2>1, <2>2 DEF IInv, FreshIds
<1>4. FileCap'
  <2> SUFFICES ASSUME NEW u \in Users PROVE Cardinality(FilesOf(u)') <= FilesMax
    BY DEF FileCap
  <2>1. Cardinality(FilesOf(u)') <= Cardinality(FilesOf(u)) /\ Cardinality(FilesOf(u)) <= FilesMax
    BY FewerFiles DEF IInv, FileCap
  <2>2. FilesOf(u) \in SUBSET FileIds /\ FilesOf(u)' \in SUBSET FileIds
    BY BoundTypes DEF FilesOf
  <2>3. Cardinality(FilesOf(u)) \in Nat /\ Cardinality(FilesOf(u)') \in Nat
    BY <2>2, IdsFinite
  <2> QED
    BY <2>1, <2>3, BoundTypes
<1> QED
  BY <1>1, <1>2, <1>3, <1>4 DEF IInv

LEMMA StillStep ==
    ASSUME IInv, TypeOK', FilesOnlyLeave, UNCHANGED <<req, locks, nextFile>>
    PROVE  IInv'
<1>1. Named' /\ LocksCompatible'
  BY DEF IInv, Named, LocksCompatible
<1>2. StoreHoldsRow'
  <2> SUFFICES ASSUME NEW v \in Workers, req[v].pc = "store"
               PROVE  /\ <<v, UserLock(req[v].user, "excl")>> \in locks'
                      /\ BelowMax(req[v].user)'
    BY DEF StoreHoldsRow, UserLock, BelowMax, FilesOf
  <2>1. <<v, UserLock(req[v].user, "excl")>> \in locks /\ BelowMax(req[v].user)
    BY DEF IInv, StoreHoldsRow
  <2>2. PICK u \in Users : u = req[v].user /\ u = req'[v].user
    BY DEF IInv, Named
  <2>3. BelowMax(u)'
    BY <2>1, <2>2, FewerFiles
  <2>4. BelowMax(req[v].user)'
    BY <2>2, <2>3 DEF BelowMax, FilesOf
  <2> QED
    BY <2>1, <2>4
<1>3. FreshIds'
  BY DEF IInv, FreshIds, FilesOnlyLeave, Uploading
<1>4. FileCap'
  <2> SUFFICES ASSUME NEW u \in Users PROVE Cardinality(FilesOf(u)') <= FilesMax
    BY DEF FileCap
  <2>1. Cardinality(FilesOf(u)') <= Cardinality(FilesOf(u)) /\ Cardinality(FilesOf(u)) <= FilesMax
    BY FewerFiles DEF IInv, FileCap
  <2>2. FilesOf(u) \in SUBSET FileIds /\ FilesOf(u)' \in SUBSET FileIds
    BY BoundTypes DEF FilesOf
  <2>3. Cardinality(FilesOf(u)) \in Nat /\ Cardinality(FilesOf(u)') \in Nat
    BY <2>2, IdsFinite
  <2> QED
    BY <2>1, <2>3, BoundTypes
<1> QED
  BY <1>1, <1>2, <1>3, <1>4 DEF IInv

LEMMA InitIInv == Init => IInv
<1> SUFFICES ASSUME Init PROVE IInv
  OBVIOUS
<1>1. TypeOK
  <2>1. req \in [Workers -> Request]
    BY IdleRequest DEF Init
  <2>2. 0 \in Versions /\ 1 \in 1..MaxFiles + 1 /\ 1 \in 1..MaxImages + 1
    BY BoundTypes DEF Versions
  <2> QED
    BY <2>1, <2>2 DEF Init, TypeOK, Urls
<1>2. \A w \in Workers : req[w].pc = "idle"
  BY DEF Init, Idle
<1>3. Named /\ StoreHoldsRow /\ LocksCompatible /\ FreshIds
  BY <1>2 DEF Init, Named, StoreHoldsRow, LocksCompatible, FreshIds, Uploading
<1>4. FileCap
  <2> SUFFICES ASSUME NEW u \in Users PROVE Cardinality(FilesOf(u)) <= FilesMax
    BY DEF FileCap
  <2>1. FilesOf(u) = {}
    BY BoundTypes DEF Init, FilesOf
  <2> QED
    BY <2>1, FS_EmptySet, BoundTypes
<1> QED
  BY <1>1, <1>3, <1>4 DEF IInv

----------------------------------------------------------------------------
(* Every step keeps IInv; the attachments first.                           *)
LEMMA RowsKeepFiles == UNCHANGED rows => FilesOnlyLeave
BY DEF rows, FilesOnlyLeave

LEMMA UploadFileInv ==
    ASSUME IInv, NEW w \in Workers, NEW u \in Users, UploadFile(w, u)
    PROVE  IInv'
<1>1. TypeOK /\ nextFile \in FileIds /\ req[w] = Idle /\ nextFile' = nextFile + 1
  BY BoundTypes DEF UploadFile, Begin, IInv, TypeOK, FileIds
<1>2. PICK r \in Request : /\ r = [Starting("count", u) EXCEPT !.file = nextFile]
                           /\ r.pc = "count" /\ r.user = u /\ r.file = nextFile
  <2>1. Starting("count", u) \in Request
    BY <1>1, RequestBegins DEF Phases
  <2>2. PICK r : r = [Starting("count", u) EXCEPT !.file = nextFile]
    OBVIOUS
  <2>3. Starting("count", u).pc = "count" /\ Starting("count", u).user = u
    BY <1>1, RequestBegins DEF Phases
  <2>4. r \in Request /\ r.pc = "count" /\ r.user = u /\ r.file = nextFile
    BY <1>1, <2>1, <2>2, <2>3 DEF Request
  <2> QED
    BY <2>2, <2>4
<1>3. /\ req' \in [Workers -> Request] /\ req'[w] = r
      /\ \A v \in Workers : v # w => req'[v] = req[v]
  BY <1>1, <1>2, RequestSet DEF UploadFile, Begin
<1>4. TypeOK'
  BY <1>1, <1>3, BoundTypes DEF UploadFile, TypeOK, rows, history, FileIds
<1>5. Named' /\ LocksCompatible' /\ FileCap'
  BY <1>2, <1>3 DEF UploadFile, IInv, Named, LocksCompatible, FileCap, FilesOf, rows
<1>6. StoreHoldsRow'
  <2>1. StoreHoldsRow /\ UNCHANGED <<locks, files>>
    BY DEF UploadFile, IInv, rows
  <2>2. ASSUME NEW v \in Workers, req'[v].pc = "store" PROVE req'[v] = req[v]
    BY <1>2, <1>3, <2>2
  <2> QED
    BY <2>1, <2>2 DEF StoreHoldsRow, BelowMax, FilesOf, UserLock
<1>7. FreshIds'
  <2>1. UNCHANGED files
    BY DEF UploadFile, rows
  <2>2. nextFile \in Nat /\ nextFile < nextFile'
    BY <1>1, BoundTypes DEF FileIds
  <2>3. nextFile >= nextFile
    BY <2>2
  <2>4. files[nextFile] = None
    BY <1>1, <2>3 DEF IInv, FreshIds
  <2>5. req'[w].file = nextFile
    BY <1>2, <1>3
  <2>6. ASSUME NEW v \in Workers, Uploading(v)'
        PROVE  /\ req'[v].file \in FileIds /\ req'[v].file < nextFile'
               /\ files'[req'[v].file] = None
               /\ v # w => Uploading(v) /\ req'[v].file = req[v].file /\ req[v].file < nextFile
    <3>1. CASE v = w
      BY <1>1, <2>1, <2>2, <2>4, <2>5, <3>1
    <3>2. CASE v # w
      <4>1. Uploading(v) /\ req'[v] = req[v]
        BY <1>3, <2>6, <3>2 DEF Uploading
      <4>2. req[v].file \in FileIds /\ req[v].file < nextFile /\ files[req[v].file] = None
        BY <4>1 DEF IInv, FreshIds
      <4> QED
        BY <1>1, <2>1, <4>1, <4>2 DEF FileIds
    <3> QED
      BY <3>1, <3>2
  <2>7. \A f \in FileIds : f >= nextFile' => files'[f] = None
    BY <1>1, <2>1 DEF IInv, FreshIds, FileIds
  <2>8. ASSUME NEW v \in Workers, NEW x \in Workers, v # x, Uploading(v)', Uploading(x)'
        PROVE  req'[v].file # req'[x].file
    <3>1. CASE v # w /\ x # w
      BY <2>6, <2>8, <3>1 DEF IInv, FreshIds
    <3>2. CASE v = w
      <4>1. req'[x].file < nextFile /\ req'[x].file \in Nat
        BY <2>6, <2>8, <3>2, BoundTypes DEF FileIds
      <4> QED
        BY <2>2, <2>5, <3>2, <4>1
    <3>3. CASE x = w
      <4>1. req'[v].file < nextFile /\ req'[v].file \in Nat
        BY <2>6, <2>8, <3>3, BoundTypes DEF FileIds
      <4> QED
        BY <2>2, <2>5, <3>3, <4>1
    <3> QED
      BY <3>1, <3>2, <3>3
  <2> QED
    BY <2>6, <2>7, <2>8 DEF FreshIds
<1> QED
  BY <1>4, <1>5, <1>6, <1>7 DEF IInv

LEMMA EndInv ==
    ASSUME IInv, NEW w \in Workers, Done(w), TypeOK', LocksCompatible', FilesOnlyLeave,
           UNCHANGED nextFile, \A l \in locks : l[1] # w => l \in locks'
    PROVE  IInv'
<1>1. /\ req'[w] = Idle
      /\ \A v \in Workers : v # w => req'[v] = req[v]
  BY RequestDone DEF IInv
<1>2. ~ Uploading(w)' /\ req'[w].pc = "idle"
  BY <1>1 DEF Uploading, Idle
<1> QED
  BY <1>1, <1>2, QuietStep

LEMMA FailInv ==
    ASSUME IInv, NEW w \in Workers, Fail(w), UNCHANGED <<bounds, cached>>
    PROVE  IInv'
<1>1. /\ LocksCompatible' /\ locks' \subseteq Locks
      /\ \A l \in locks : l[1] # w => l \in locks'
  BY ReleaseKeeps DEF Fail, IInv
<1>2. req' \in [Workers -> Request] /\ FilesOnlyLeave /\ UNCHANGED nextFile
  BY RequestDone, RowsKeepFiles DEF Fail, IInv, bounds
<1>3. TypeOK'
  BY <1>1, <1>2 DEF Fail, IInv, TypeOK, rows, history, bounds
<1> QED
  BY <1>1, <1>2, <1>3, EndInv DEF Fail

LEMMA CountFilesInv ==
    ASSUME IInv, NEW w \in Workers, CountFiles(w)
    PROVE  IInv'
<1>1. PICK pc \in Phases : /\ pc = (IF BelowMax(req[w].user) THEN "store" ELSE "full")
                           /\ Acquire(w) /\ Goto(w, pc)
                           /\ UNCHANGED <<rows, bounds, cached, history>>
  BY DEF CountFiles, Phases
<1>2. locks' \subseteq Locks /\ locks \subseteq locks' /\ LocksCompatible'
  BY <1>1, AcquireKeeps DEF IInv
<1>3. /\ req' \in [Workers -> Request]
      /\ req'[w].pc = pc /\ req'[w].user = req[w].user /\ req'[w].file = req[w].file
      /\ \A v \in Workers : v # w => req'[v] = req[v]
  BY <1>1, RequestMoves DEF IInv
<1>4. UNCHANGED <<files, nextFile>>
  BY <1>1 DEF rows, bounds
<1>5. TypeOK'
  BY <1>1, <1>2, <1>3 DEF IInv, TypeOK, rows, bounds, history
<1>6. req[w].pc = "count" /\ req[w].user \in Users
  BY DEF CountFiles, IInv, Named
<1>7. Named' /\ FileCap'
  BY <1>3, <1>4, <1>6 DEF IInv, Named, FileCap, FilesOf
<1>8. <<w, UserLock(req[w].user, "excl")>> \in locks'
  BY <1>1, <1>6 DEF Acquire, Wants
<1>9. StoreHoldsRow'
  <2> SUFFICES ASSUME NEW v \in Workers, req'[v].pc = "store"
               PROVE  /\ <<v, UserLock(req'[v].user, "excl")>> \in locks'
                      /\ BelowMax(req[v].user)'
    BY <1>3 DEF StoreHoldsRow, UserLock, BelowMax, FilesOf
  <2>1. CASE v = w
    BY <1>1, <1>3, <1>4, <1>8, <2>1 DEF BelowMax, FilesOf
  <2>2. CASE v # w
    BY <1>2, <1>3, <1>4, <2>2 DEF IInv, StoreHoldsRow, BelowMax, FilesOf
  <2> QED
    BY <2>1, <2>2
<1>10. FreshIds'
  <2>1. \A v \in Workers : Uploading(v)' => Uploading(v) /\ req'[v].file = req[v].file
    BY <1>3, <1>6 DEF Uploading
  <2> QED
    BY <1>4, <2>1 DEF IInv, FreshIds
<1> QED
  BY <1>2, <1>5, <1>7, <1>9, <1>10 DEF IInv

LEMMA RefuseFileInv ==
    ASSUME IInv, NEW w \in Workers, RefuseFile(w)
    PROVE  IInv'
BY FailInv DEF RefuseFile, Fail

(* The lock on the user's row is exclusive: whoever else is past its count *)
(* stores for another account.                                             *)
LEMMA OneStorePerUser ==
    ASSUME IInv, NEW v \in Workers, NEW w \in Workers, v # w,
           req[v].pc = "store", req[w].pc = "store"
    PROVE  req[v].user # req[w].user
<1> SUFFICES ASSUME req[v].user = req[w].user PROVE FALSE
  OBVIOUS
<1>1. /\ <<v, <<"user", req[v].user, "excl">>>> \in locks
      /\ <<w, <<"user", req[v].user, "excl">>>> \in locks
  BY DEF IInv, StoreHoldsRow, UserLock
<1> QED
  BY <1>1 DEF IInv, LocksCompatible, Conflict

LEMMA StoreFileInv ==
    ASSUME IInv, NEW w \in Workers, StoreFile(w)
    PROVE  IInv'
<1>1. CASE req[w].user \notin live
  BY <1>1, FailInv DEF StoreFile
<1>2. CASE req[w].user \in live
  <2>1. PICK u \in Users : u = req[w].user
    BY <1>2 DEF IInv, TypeOK
  <2>2. PICK f \in FileIds : f = req[w].file /\ f < nextFile /\ files[f] = None
    BY DEF StoreFile, IInv, FreshIds, Uploading
  <2>3. files' = [files EXCEPT ![f] = u] /\ UNCHANGED <<bounds, cached, live, avatar, url, history>>
    BY <1>2, <2>1, <2>2 DEF StoreFile
  <2>4. /\ locks' \subseteq Locks /\ LocksCompatible'
        /\ \A l \in locks : l[1] # w => l \in locks'
    BY <1>2, ReleaseKeeps DEF StoreFile, IInv
  <2>5. /\ req' \in [Workers -> Request] /\ req'[w].pc = "reply" /\ req'[w].user = u
        /\ \A v \in Workers : v # w => req'[v] = req[v]
    BY <1>2, <2>1, RequestMoves DEF StoreFile, IInv, Phases
  <2>6. TypeOK'
    BY <2>3, <2>4, <2>5 DEF IInv, TypeOK, bounds, history
  <2>7. Named'
    BY <2>5 DEF IInv, Named
  <2>8. FilesOf(u) \in SUBSET FileIds /\ f \notin FilesOf(u) /\ FilesOf(u)' = FilesOf(u) \cup {f}
    BY <2>2, <2>3, BoundTypes DEF FilesOf, IInv, TypeOK
  <2>9. \A x \in Users : x # u => FilesOf(x)' = FilesOf(x)
    BY <2>2, <2>3, BoundTypes DEF FilesOf, IInv, TypeOK
  <2>10. FileCap'
    <3>1. Cardinality(FilesOf(u)') = Cardinality(FilesOf(u)) + 1 /\ Cardinality(FilesOf(u)) \in Nat
      BY <2>8, IdsFinite, FS_AddElement
    <3>2. Cardinality(FilesOf(u)) < FilesMax
      BY <2>1 DEF StoreFile, IInv, StoreHoldsRow, BelowMax
    <3>3. Cardinality(FilesOf(u)') <= FilesMax
      BY <3>1, <3>2, BoundTypes
    <3> QED
      BY <2>9, <3>3 DEF IInv, FileCap
  <2>11. StoreHoldsRow'
    <3> SUFFICES ASSUME NEW v \in Workers, req'[v].pc = "store"
                 PROVE  /\ <<v, UserLock(req'[v].user, "excl")>> \in locks'
                        /\ BelowMax(req[v].user)'
      BY <2>5 DEF StoreHoldsRow, UserLock, BelowMax, FilesOf
    <3>1. v # w /\ req'[v] = req[v]
      BY <2>5
    <3>2. <<v, UserLock(req[v].user, "excl")>> \in locks /\ BelowMax(req[v].user)
      BY <3>1 DEF IInv, StoreHoldsRow
    <3>3. PICK x \in Users : x = req[v].user /\ x # u
      BY <2>1, <3>1, OneStorePerUser DEF StoreFile, IInv, Named
    <3>4. BelowMax(x)'
      BY <2>9, <3>2, <3>3 DEF BelowMax
    <3>5. BelowMax(req[v].user)'
      BY <3>1, <3>3, <3>4 DEF BelowMax, FilesOf
    <3> QED
      BY <2>4, <3>1, <3>2, <3>5
  <2>12. FreshIds'
    <3>1. \A v \in Workers : Uploading(v)' => v # w /\ Uploading(v) /\ req'[v] = req[v]
      BY <2>5 DEF Uploading
    <3>2. \A v \in Workers : v # w /\ Uploading(v) => req[v].file # f
      BY <2>2 DEF StoreFile, IInv, FreshIds, Uploading
    <3>3. /\ \A g \in FileIds : g # f => files'[g] = files[g]
          /\ UNCHANGED nextFile
      BY <2>3 DEF IInv, TypeOK, bounds
    <3>4. \A g \in FileIds : g >= nextFile' => files'[g] = None
      BY <2>2, <3>3, BoundTypes DEF IInv, TypeOK, FreshIds, FileIds
    <3> QED
      BY <3>1, <3>2, <3>3, <3>4 DEF IInv, FreshIds
  <2> QED
    BY <2>4, <2>6, <2>7, <2>10, <2>11, <2>12 DEF IInv
<1> QED
  BY <1>1, <1>2

LEMMA ReplyFileInv ==
    ASSUME IInv, NEW w \in Workers, ReplyFile(w)
    PROVE  IInv'
<1>1. req' \in [Workers -> Request] /\ FilesOnlyLeave /\ LocksCompatible'
  BY RequestDone, RowsKeepFiles, LocksUnchanged DEF ReplyFile, IInv
<1>2. TypeOK'
  BY <1>1 DEF ReplyFile, IInv, TypeOK, rows, bounds, history
<1> QED
  BY <1>1, <1>2, EndInv DEF ReplyFile, bounds

LEMMA DeleteFileInv ==
    ASSUME IInv, NEW u \in Users, NEW f \in FileIds, DeleteFile(u, f)
    PROVE  IInv'
<1>1. TypeOK' /\ FilesOnlyLeave
  BY DEF DeleteFile, IInv, TypeOK, FilesOnlyLeave, bounds, history
<1> QED
  BY <1>1, StillStep DEF DeleteFile, bounds

----------------------------------------------------------------------------
(* The avatars, the erasure of an account, and what happens around them.   *)
LEMMA DeleteAvatarInv ==
    ASSUME IInv, NEW w \in Workers, NEW u \in Users, DeleteAvatar(w, u)
    PROVE  IInv'
<1>1. Seeing("remove", u) \in Request /\ Seeing("remove", u).pc = "remove" /\ Seeing("remove", u).user = u
  BY RequestBegins DEF IInv, Phases
<1>2. /\ req' \in [Workers -> Request] /\ req'[w].pc = "remove" /\ req'[w].user = u
      /\ \A v \in Workers : v # w => req'[v] = req[v]
  BY <1>1, RequestSet DEF DeleteAvatar, Begin, IInv
<1>3. FilesOnlyLeave /\ LocksCompatible'
  BY RowsKeepFiles, LocksUnchanged DEF DeleteAvatar, IInv
<1>4. TypeOK'
  BY <1>2 DEF DeleteAvatar, IInv, TypeOK, rows, bounds, history
<1>5. ~ Uploading(w)'
  BY <1>2 DEF Uploading
<1> QED
  BY <1>2, <1>3, <1>4, <1>5, QuietStep DEF DeleteAvatar, bounds

LEMMA DeleteMeInv ==
    ASSUME IInv, NEW w \in Workers, NEW u \in Users, DeleteMe(w, u)
    PROVE  IInv'
<1>1. Starting("erase", u) \in Request /\ Starting("erase", u).pc = "erase" /\ Starting("erase", u).user = u
  BY RequestBegins DEF IInv, Phases
<1>2. /\ req' \in [Workers -> Request] /\ req'[w].pc = "erase" /\ req'[w].user = u
      /\ \A v \in Workers : v # w => req'[v] = req[v]
  BY <1>1, RequestSet DEF DeleteMe, Begin, IInv
<1>3. FilesOnlyLeave /\ LocksCompatible'
  BY RowsKeepFiles, LocksUnchanged DEF DeleteMe, IInv
<1>4. TypeOK'
  BY <1>2 DEF DeleteMe, IInv, TypeOK, rows, bounds, history
<1>5. ~ Uploading(w)'
  BY <1>2 DEF Uploading
<1> QED
  BY <1>2, <1>3, <1>4, <1>5, QuietStep DEF DeleteMe, bounds

LEMMA RemoveAvatarInv ==
    ASSUME IInv, NEW w \in Workers, RemoveAvatar(w)
    PROVE  IInv'
<1>1. /\ req' \in [Workers -> Request] /\ req'[w].pc = "unlink" /\ req'[w].user = req[w].user
      /\ \A v \in Workers : v # w => req'[v] = req[v]
  BY RequestMoves DEF RemoveAvatar, IInv, Phases
<1>2. locks' \subseteq Locks /\ locks \subseteq locks' /\ LocksCompatible'
  BY AcquireKeeps DEF RemoveAvatar, IInv
<1>3. FilesOnlyLeave
  BY RowsKeepFiles DEF RemoveAvatar
<1>4. TypeOK'
  BY <1>1, <1>2 DEF RemoveAvatar, IInv, TypeOK, rows, bounds, history
<1>5. req[w].user \in Users /\ ~ Uploading(w)'
  BY <1>1 DEF RemoveAvatar, IInv, Named, Uploading
<1> QED
  BY <1>1, <1>2, <1>3, <1>4, <1>5, QuietStep DEF RemoveAvatar, bounds

LEMMA EraseUserInv ==
    ASSUME IInv, NEW w \in Workers, EraseUser(w)
    PROVE  IInv'
<1>1. /\ req' \in [Workers -> Request] /\ req'[w].pc = "cascade" /\ req'[w].user = req[w].user
      /\ \A v \in Workers : v # w => req'[v] = req[v]
  BY RequestMoves DEF EraseUser, IInv, Phases
<1>2. locks' \subseteq Locks /\ locks \subseteq locks' /\ LocksCompatible'
  BY AcquireKeeps DEF EraseUser, IInv
<1>3. FilesOnlyLeave
  BY RowsKeepFiles DEF EraseUser
<1>4. TypeOK'
  BY <1>1, <1>2 DEF EraseUser, IInv, TypeOK, rows, bounds, history
<1>5. req[w].user \in Users /\ ~ Uploading(w)'
  BY <1>1 DEF EraseUser, IInv, Named, Uploading
<1> QED
  BY <1>1, <1>2, <1>3, <1>4, <1>5, QuietStep DEF EraseUser, bounds

LEMMA UploadAvatarInv ==
    ASSUME IInv, NEW w \in Workers, NEW u \in Users, UploadAvatar(w, u)
    PROVE  IInv'
<1>1. PICK r : r = [Seeing("upsert", u) EXCEPT !.image = nextImage]
  OBVIOUS
<1>2. nextImage \in Images /\ nextImage' \in 1..MaxImages + 1
  BY BoundTypes DEF UploadAvatar, IInv, TypeOK, Images
<1>3. r \in Request /\ r.pc = "upsert" /\ r.user = u
  <2>1. Seeing("upsert", u) \in Request /\ Seeing("upsert", u).pc = "upsert"
        /\ Seeing("upsert", u).user = u
    BY RequestBegins DEF IInv, Phases
  <2> QED
    BY <1>1, <1>2, <2>1 DEF Request
<1>4. /\ req' \in [Workers -> Request] /\ req'[w] = r
      /\ \A v \in Workers : v # w => req'[v] = req[v]
  BY <1>1, <1>3, RequestSet DEF UploadAvatar, Begin, IInv
<1>5. FilesOnlyLeave /\ LocksCompatible'
  BY RowsKeepFiles, LocksUnchanged DEF UploadAvatar, IInv
<1>6. TypeOK'
  BY <1>2, <1>4 DEF UploadAvatar, IInv, TypeOK, rows, history
<1>7. ~ Uploading(w)'
  BY <1>3, <1>4 DEF Uploading
<1> QED
  BY <1>3, <1>4, <1>5, <1>6, <1>7, QuietStep DEF UploadAvatar

LEMMA UpsertAvatarMoves ==
    ASSUME IInv, NEW w \in Workers, UpsertAvatar(w), req[w].user \in live
    PROVE  /\ req' \in [Workers -> Request] /\ req'[w].pc = "link"
           /\ req'[w].user = req[w].user /\ req'[w].version = now
           /\ \A v \in Workers : v # w => req'[v] = req[v]
<1>1. PICK r : r = [req[w] EXCEPT !.pc = "link", !.version = now]
  OBVIOUS
<1>2. r \in Request /\ r.pc = "link" /\ r.user = req[w].user /\ r.version = now
  BY <1>1 DEF IInv, TypeOK, Request, Phases
<1>3. req' = [req EXCEPT ![w] = r]
  BY <1>1 DEF UpsertAvatar, IInv, TypeOK
<1> QED
  BY <1>2, <1>3, RequestSet DEF IInv

LEMMA UpsertAvatarInv ==
    ASSUME IInv, NEW w \in Workers, UpsertAvatar(w)
    PROVE  IInv'
<1>1. CASE req[w].user \in live
  <2>1. /\ req' \in [Workers -> Request] /\ req'[w].pc = "link" /\ req'[w].user \in Users
        /\ \A v \in Workers : v # w => req'[v] = req[v]
    BY <1>1, UpsertAvatarMoves DEF IInv, TypeOK
  <2>2. locks' \subseteq Locks /\ locks \subseteq locks' /\ LocksCompatible'
    BY <1>1, AcquireKeeps DEF UpsertAvatar, IInv
  <2>3. FilesOnlyLeave /\ ~ Uploading(w)'
    BY <1>1, <2>1, RowsKeepFiles DEF UpsertAvatar, Uploading
  <2>4. TypeOK'
    BY <1>1, <2>1, <2>2 DEF UpsertAvatar, IInv, TypeOK, rows, bounds, history
  <2> QED
    BY <2>1, <2>2, <2>3, <2>4, QuietStep DEF UpsertAvatar, bounds
<1>2. CASE req[w].user \notin live
  BY <1>2, FailInv DEF UpsertAvatar
<1> QED
  BY <1>1, <1>2

LEMMA LinkAvatarInv ==
    ASSUME IInv, NEW w \in Workers, LinkAvatar(w)
    PROVE  IInv'
<1>1. req' \in [Workers -> Request]
  BY RequestDone DEF LinkAvatar, IInv
<1>2. /\ LocksCompatible' /\ locks' \subseteq Locks
      /\ \A l \in locks : l[1] # w => l \in locks'
  BY ReleaseKeeps DEF LinkAvatar, IInv
<1>3. /\ req[w].user \in Users /\ req[w].image \in Images \cup {None}
      /\ req[w].version \in Versions \cup {None}
  BY DEF LinkAvatar, IInv, TypeOK, Named, Request
<1>4. url' \in [Users -> Urls] /\ avatar' \in [Users -> Images \cup {None}]
  BY <1>3 DEF LinkAvatar, Relinked, IInv, TypeOK, Urls
<1>5. /\ last' \in [Users -> Versions \cup {None}]
      /\ rushed' \subseteq Users /\ raced' \subseteq Users
  BY <1>3 DEF LinkAvatar, Race, Rush, IInv, TypeOK
<1>6. TypeOK'
  BY <1>1, <1>2, <1>4, <1>5 DEF LinkAvatar, IInv, TypeOK, bounds
<1>7. FilesOnlyLeave
  BY DEF LinkAvatar, FilesOnlyLeave
<1> QED
  BY <1>2, <1>6, <1>7, EndInv DEF LinkAvatar, bounds

LEMMA UnlinkAvatarInv ==
    ASSUME IInv, NEW w \in Workers, UnlinkAvatar(w)
    PROVE  IInv'
<1>1. CASE req[w].user \notin live
  BY <1>1, FailInv DEF UnlinkAvatar
<1>2. CASE req[w].user \in live
  <2>1. req' \in [Workers -> Request]
    BY <1>2, RequestDone DEF UnlinkAvatar, IInv
  <2>2. /\ LocksCompatible' /\ locks' \subseteq Locks
        /\ \A l \in locks : l[1] # w => l \in locks'
    BY <1>2, ReleaseKeeps DEF UnlinkAvatar, IInv
  <2>3. /\ url' \in [Users -> Urls] /\ avatar' \in [Users -> Images \cup {None}]
        /\ raced' \subseteq Users
    BY <1>2 DEF UnlinkAvatar, Relinked, Race, IInv, TypeOK, Urls
  <2>4. TypeOK' /\ FilesOnlyLeave
    BY <1>2, <2>1, <2>2, <2>3 DEF UnlinkAvatar, IInv, TypeOK, bounds, FilesOnlyLeave
  <2> QED
    BY <1>2, <2>2, <2>4, EndInv DEF UnlinkAvatar, bounds
<1> QED
  BY <1>1, <1>2

LEMMA CascadeUserInv ==
    ASSUME IInv, NEW w \in Workers, CascadeUser(w)
    PROVE  IInv'
<1>1. req' \in [Workers -> Request]
  BY RequestDone DEF CascadeUser, IInv
<1>2. /\ LocksCompatible' /\ locks' \subseteq Locks
      /\ \A l \in locks : l[1] # w => l \in locks'
  BY ReleaseKeeps DEF CascadeUser, IInv
<1>3. FilesOnlyLeave /\ files' \in [FileIds -> Users \cup {None}]
  BY DEF CascadeUser, Cascaded, FilesOnlyLeave, IInv, TypeOK
<1>4. TypeOK'
  BY <1>1, <1>2, <1>3 DEF CascadeUser, IInv, TypeOK, bounds, history, Urls
<1> QED
  BY <1>2, <1>3, <1>4, EndInv DEF CascadeUser, bounds

LEMMA GoogleSignInInv ==
    ASSUME IInv, NEW u \in Users, GoogleSignIn(u)
    PROVE  IInv'
<1>1. TypeOK' /\ FilesOnlyLeave
  BY DEF GoogleSignIn, IInv, TypeOK, FilesOnlyLeave, bounds, history, Urls
<1> QED
  BY <1>1, StillStep DEF GoogleSignIn, bounds

LEMMA FetchInv ==
    ASSUME IInv, NEW u \in Users, Fetch(u)
    PROVE  IInv'
<1>1. cached' \in [Users -> [Versions -> Images \cup {None}]]
  BY DEF Fetch, IInv, TypeOK
<1>2. TypeOK' /\ FilesOnlyLeave
  BY <1>1, RowsKeepFiles DEF Fetch, IInv, TypeOK, rows, bounds, history
<1> QED
  BY <1>2, StillStep DEF Fetch, bounds

LEMMA TickInv ==
    ASSUME IInv, Tick
    PROVE  IInv'
<1>1. now' \in Versions
  BY BoundTypes DEF Tick, IInv, TypeOK, Versions
<1>2. TypeOK' /\ FilesOnlyLeave
  BY <1>1, RowsKeepFiles DEF Tick, IInv, TypeOK, rows, history
<1> QED
  BY <1>2, StillStep DEF Tick

LEMMA StutterInv ==
    ASSUME IInv, UNCHANGED vars
    PROVE  IInv'
<1>1. TypeOK' /\ FilesOnlyLeave
  BY RowsKeepFiles DEF vars, IInv, TypeOK, rows, history, bounds
<1> QED
  BY <1>1, StillStep DEF vars, bounds

LEMMA StepIInv == IInv /\ [Next]_vars => IInv'
<1> SUFFICES ASSUME IInv, [Next]_vars PROVE IInv'
  OBVIOUS
<1>1. ASSUME NEW w \in Workers, Statement(w) PROVE IInv'
  BY <1>1, CountFilesInv, RefuseFileInv, StoreFileInv, ReplyFileInv, UpsertAvatarInv,
     LinkAvatarInv, RemoveAvatarInv, UnlinkAvatarInv, EraseUserInv, CascadeUserInv DEF Statement
<1>2. ASSUME NEW w \in Workers, Timeout(w) \/ Crash(w) PROVE IInv'
  BY <1>2, FailInv DEF Timeout, Crash
<1>3. ASSUME NEW w \in Workers, NEW u \in Users,
             UploadFile(w, u) \/ UploadAvatar(w, u) \/ DeleteAvatar(w, u) \/ DeleteMe(w, u)
      PROVE  IInv'
  BY <1>3, UploadFileInv, UploadAvatarInv, DeleteAvatarInv, DeleteMeInv
<1>4. ASSUME NEW u \in Users, GoogleSignIn(u) \/ Fetch(u) PROVE IInv'
  BY <1>4, GoogleSignInInv, FetchInv
<1>5. ASSUME NEW u \in Users, NEW f \in FileIds, DeleteFile(u, f) PROVE IInv'
  BY <1>5, DeleteFileInv
<1> QED
  BY <1>1, <1>2, <1>3, <1>4, <1>5, TickInv, StutterInv DEF Next

(* No account keeps more than files_max_per_user files, however many of    *)
(* its uploads run at once: the count under the row lock is right.         *)
THEOREM CountIsRight == Spec => []IInv
BY InitIInv, StepIInv, PTL DEF Spec

----------------------------------------------------------------------------
(* The locks a request can hold in each phase; who erases an account holds *)
(* its row, and who is about to store an avatar holds the avatar, and the  *)
(* user as well when there is no row a cascade would have to wait for.     *)
Holds(r) ==
    IF r.pc \in {"full", "store", "cascade"} THEN {UserLock(r.user, "excl")}
    ELSE IF r.pc = "link" THEN {AvatarLock(r.user), UserLock(r.user, "share")}
    ELSE IF r.pc = "unlink" THEN {AvatarLock(r.user)} ELSE {}
LocksByPhase == \A l \in locks : l[2] \in Holds(req[l[1]])
Erasing ==
    \A w \in Workers : req[w].pc = "cascade" => <<w, UserLock(req[w].user, "excl")>> \in locks
Linking ==
    \A w \in Workers : req[w].pc = "link" =>
        /\ req[w].user \in live
        /\ <<w, AvatarLock(req[w].user)>> \in locks
        /\ avatar[req[w].user] = None => <<w, UserLock(req[w].user, "share")>> \in locks
HolderInv == LocksByPhase /\ Erasing /\ Linking

(* What holds of the locks and the phase of worker w after its step.       *)
Settled(w) ==
    /\ \A l \in locks : l[1] = w => l[2] \in Holds(req[w])
    /\ req[w].pc = "cascade" => <<w, UserLock(req[w].user, "excl")>> \in locks
    /\ req[w].pc = "link" =>
           /\ req[w].user \in live
           /\ <<w, AvatarLock(req[w].user)>> \in locks
           /\ avatar[req[w].user] = None => <<w, UserLock(req[w].user, "share")>> \in locks

LEMMA HolderStep ==
    ASSUME IInv, HolderInv, NEW w \in Workers, Settled(w)',
           \A v \in Workers : v # w => req'[v] = req[v],
           \A l \in locks' : l[1] # w => l \in locks,
           \A l \in locks : l[1] # w => l \in locks',
           \A v \in Workers : v # w /\ req[v].pc = "link" =>
               /\ req[v].user \in live'
               /\ avatar'[req[v].user] = None => avatar[req[v].user] = None
    PROVE  HolderInv'
<1>1. LocksByPhase'
  <2> SUFFICES ASSUME NEW l \in locks' PROVE l[2] \in Holds(req'[l[1]])
    BY DEF LocksByPhase, Holds, AvatarLock, UserLock
  <2>1. CASE l[1] = w
    BY <2>1 DEF Settled, Holds, AvatarLock, UserLock
  <2>2. CASE l[1] # w
    <3>1. l \in locks /\ l[1] \in Workers
      BY <2>2, LockFields DEF IInv
    <3> QED
      BY <2>2, <3>1 DEF HolderInv, LocksByPhase
  <2> QED
    BY <2>1, <2>2
<1>2. Erasing'
  <2> SUFFICES ASSUME NEW v \in Workers, req'[v].pc = "cascade"
               PROVE  <<v, UserLock(req'[v].user, "excl")>> \in locks'
    BY DEF Erasing, UserLock
  <2>1. CASE v = w
    BY <2>1 DEF Settled, UserLock
  <2>2. CASE v # w
    BY <2>2 DEF HolderInv, Erasing
  <2> QED
    BY <2>1, <2>2
<1>3. Linking'
  <2> SUFFICES ASSUME NEW v \in Workers, req'[v].pc = "link"
               PROVE  /\ req'[v].user \in live'
                      /\ <<v, AvatarLock(req'[v].user)>> \in locks'
                      /\ avatar'[req'[v].user] = None =>
                             <<v, UserLock(req'[v].user, "share")>> \in locks'
    BY DEF Linking, UserLock, AvatarLock
  <2>1. CASE v = w
    BY <2>1 DEF Settled, UserLock, AvatarLock
  <2>2. CASE v # w
    BY <2>2 DEF HolderInv, Linking
  <2> QED
    BY <2>1, <2>2
<1> QED
  BY <1>1, <1>2, <1>3 DEF HolderInv

LEMMA HolderStill ==
    ASSUME HolderInv, UNCHANGED <<req, locks, live, avatar>>
    PROVE  HolderInv'
BY DEF HolderInv, LocksByPhase, Erasing, Linking

(* A request in a phase that holds nothing.                                *)
LEMMA HoldsNothing ==
    ASSUME HolderInv, NEW w \in Workers,
           req[w].pc \notin {"full", "store", "cascade", "link", "unlink"}
    PROVE  \A l \in locks : l[1] # w
BY DEF HolderInv, LocksByPhase, Holds

LEMMA HolderBegins ==
    ASSUME IInv, HolderInv, NEW w \in Workers, req[w] = Idle,
           \A v \in Workers : v # w => req'[v] = req[v],
           req'[w].pc \notin {"link", "cascade"},
           UNCHANGED <<locks, live, avatar>>
    PROVE  HolderInv'
<1>1. \A l \in locks : l[1] # w
  BY HoldsNothing DEF Idle
<1>2. Settled(w)'
  BY <1>1 DEF Settled
<1> QED
  BY <1>2, HolderStep DEF HolderInv, Linking

LEMMA HolderEnds ==
    ASSUME IInv, HolderInv, NEW w \in Workers, Release(w),
           \A v \in Workers : v # w => req'[v] = req[v],
           req'[w].pc \notin {"link", "cascade"},
           \A v \in Workers : v # w /\ req[v].pc = "link" =>
               /\ req[v].user \in live'
               /\ avatar'[req[v].user] = None => avatar[req[v].user] = None
    PROVE  HolderInv'
<1>1. /\ locks' \subseteq locks /\ \A l \in locks' : l[1] # w
      /\ \A l \in locks : l[1] # w => l \in locks'
  BY ReleaseKeeps DEF IInv
<1>2. Settled(w)'
  BY <1>1 DEF Settled
<1> QED
  BY <1>1, <1>2, HolderStep

LEMMA HolderFails ==
    ASSUME IInv, HolderInv, NEW w \in Workers, Fail(w)
    PROVE  HolderInv'
<1>1. /\ req'[w].pc = "idle"
      /\ \A v \in Workers : v # w => req'[v] = req[v]
  BY RequestDone DEF Fail, IInv, Idle
<1>2. UNCHANGED <<live, avatar>> /\ Release(w)
  BY DEF Fail, rows
<1> QED
  BY <1>1, <1>2, HolderEnds DEF HolderInv, Linking

LEMMA HolderAcquires ==
    ASSUME IInv, HolderInv, NEW w \in Workers, Acquire(w),
           req[w].pc \notin {"full", "store", "cascade", "link", "unlink"},
           \A v \in Workers : v # w => req'[v] = req[v],
           Wants(req[w]) \subseteq Holds(req'[w]),
           req'[w].pc = "cascade" => UserLock(req'[w].user, "excl") \in Wants(req[w]),
           req'[w].pc = "link" =>
               /\ req'[w].user \in live
               /\ AvatarLock(req'[w].user) \in Wants(req[w])
               /\ avatar[req'[w].user] = None => UserLock(req'[w].user, "share") \in Wants(req[w]),
           UNCHANGED <<live, avatar>>
    PROVE  HolderInv'
<1>1. locks' = locks \cup {<<w, k>> : k \in Wants(req[w])}
  BY DEF Acquire
<1>2. \A l \in locks : l[1] # w
  BY HoldsNothing
<1>3. \A l \in locks' : IF l[1] = w THEN l[2] \in Wants(req[w]) ELSE l \in locks
  BY <1>1, <1>2
<1>4. Settled(w)'
  <2>1. \A l \in locks' : l[1] = w => l[2] \in Holds(req'[w])
    BY <1>3
  <2>2. \A k \in Wants(req[w]) : <<w, k>> \in locks'
    BY <1>1
  <2> QED
    BY <2>1, <2>2 DEF Settled, Holds, AvatarLock, UserLock
<1> QED
  BY <1>1, <1>3, <1>4, HolderStep DEF HolderInv, Linking

(* Two requests about to store, or remove, the same avatar exclude each    *)
(* other, and so do one that stores it and one that erases the account.    *)
LEMMA AvatarsExclude ==
    ASSUME IInv, NEW u \in Users, NEW v \in Workers, NEW w \in Workers, v # w,
           <<v, AvatarLock(u)>> \in locks, <<w, AvatarLock(u)>> \in locks
    PROVE  FALSE
BY DEF IInv, LocksCompatible, AvatarLock, Conflict

LEMMA UploadFileHolds ==
    ASSUME IInv, HolderInv, NEW w \in Workers, NEW u \in Users, UploadFile(w, u)
    PROVE  HolderInv'
<1>1. Starting("count", u) \in Request /\ Starting("count", u).pc = "count"
  BY RequestBegins DEF IInv, Phases
<1>2. PICK r : r = [Starting("count", u) EXCEPT !.file = nextFile]
  OBVIOUS
<1>3. r.pc = "count" /\ req' = [req EXCEPT ![w] = r] /\ req \in [Workers -> Request]
  BY <1>1, <1>2 DEF UploadFile, Begin, IInv, TypeOK, Request
<1>4. /\ req'[w].pc = "count"
      /\ \A v \in Workers : v # w => req'[v] = req[v]
  BY <1>3
<1> QED
  BY <1>4, HolderBegins DEF UploadFile, Begin, rows

LEMMA UploadAvatarHolds ==
    ASSUME IInv, HolderInv, NEW w \in Workers, NEW u \in Users, UploadAvatar(w, u)
    PROVE  HolderInv'
<1>1. Seeing("upsert", u) \in Request /\ Seeing("upsert", u).pc = "upsert"
  BY RequestBegins DEF IInv, Phases
<1>2. PICK r : r = [Seeing("upsert", u) EXCEPT !.image = nextImage]
  OBVIOUS
<1>3. r.pc = "upsert" /\ req' = [req EXCEPT ![w] = r] /\ req \in [Workers -> Request]
  BY <1>1, <1>2 DEF UploadAvatar, Begin, IInv, TypeOK, Request
<1>4. /\ req'[w].pc = "upsert"
      /\ \A v \in Workers : v # w => req'[v] = req[v]
  BY <1>3
<1> QED
  BY <1>4, HolderBegins DEF UploadAvatar, Begin, rows

LEMMA DeleteAvatarHolds ==
    ASSUME IInv, HolderInv, NEW w \in Workers, NEW u \in Users, DeleteAvatar(w, u)
    PROVE  HolderInv'
<1>1. Seeing("remove", u) \in Request /\ Seeing("remove", u).pc = "remove"
  BY RequestBegins DEF IInv, Phases
<1>2. /\ req'[w].pc = "remove"
      /\ \A v \in Workers : v # w => req'[v] = req[v]
  BY <1>1, RequestSet DEF DeleteAvatar, Begin, IInv
<1> QED
  BY <1>2, HolderBegins DEF DeleteAvatar, Begin, rows

LEMMA DeleteMeHolds ==
    ASSUME IInv, HolderInv, NEW w \in Workers, NEW u \in Users, DeleteMe(w, u)
    PROVE  HolderInv'
<1>1. Starting("erase", u) \in Request /\ Starting("erase", u).pc = "erase"
  BY RequestBegins DEF IInv, Phases
<1>2. /\ req'[w].pc = "erase"
      /\ \A v \in Workers : v # w => req'[v] = req[v]
  BY <1>1, RequestSet DEF DeleteMe, Begin, IInv
<1> QED
  BY <1>2, HolderBegins DEF DeleteMe, Begin, rows

LEMMA CountFilesHolds ==
    ASSUME IInv, HolderInv, NEW w \in Workers, CountFiles(w)
    PROVE  HolderInv'
<1>1. /\ req'[w].pc \in {"store", "full"} /\ req'[w].user = req[w].user
      /\ \A v \in Workers : v # w => req'[v] = req[v]
  BY RequestMoves DEF CountFiles, IInv, Phases
<1>2. Wants(req[w]) \subseteq Holds(req'[w])
  BY <1>1 DEF CountFiles, Wants, Holds
<1> QED
  BY <1>1, <1>2, HolderAcquires DEF CountFiles, rows

LEMMA RefuseFileHolds ==
    ASSUME IInv, HolderInv, NEW w \in Workers, RefuseFile(w)
    PROVE  HolderInv'
BY HolderFails DEF RefuseFile, Fail

LEMMA StoreFileHolds ==
    ASSUME IInv, HolderInv, NEW w \in Workers, StoreFile(w)
    PROVE  HolderInv'
<1>1. CASE req[w].user \notin live
  BY <1>1, HolderFails DEF StoreFile
<1>2. CASE req[w].user \in live
  <2>1. /\ req'[w].pc = "reply"
        /\ \A v \in Workers : v # w => req'[v] = req[v]
    BY <1>2, RequestMoves DEF StoreFile, IInv, Phases
  <2> QED
    BY <1>2, <2>1, HolderEnds DEF StoreFile, HolderInv, Linking
<1> QED
  BY <1>1, <1>2

LEMMA ReplyFileHolds ==
    ASSUME IInv, HolderInv, NEW w \in Workers, ReplyFile(w)
    PROVE  HolderInv'
<1>1. /\ req'[w].pc = "idle"
      /\ \A v \in Workers : v # w => req'[v] = req[v]
  BY RequestDone DEF ReplyFile, IInv, Idle
<1>2. \A l \in locks : l[1] # w
  BY HoldsNothing DEF ReplyFile
<1>3. Settled(w)'
  BY <1>1, <1>2 DEF ReplyFile, Settled
<1> QED
  BY <1>1, <1>3, HolderStep DEF ReplyFile, rows, HolderInv, Linking

LEMMA UpsertAvatarHolds ==
    ASSUME IInv, HolderInv, NEW w \in Workers, UpsertAvatar(w)
    PROVE  HolderInv'
<1>1. CASE req[w].user \notin live
  BY <1>1, HolderFails DEF UpsertAvatar
<1>2. CASE req[w].user \in live
  <2>1. /\ req'[w].pc = "link" /\ req'[w].user = req[w].user
        /\ \A v \in Workers : v # w => req'[v] = req[v]
    BY <1>2, UpsertAvatarMoves
  <2>2. Wants(req[w]) = {AvatarLock(req[w].user)} \cup
            (IF avatar[req[w].user] = None THEN {UserLock(req[w].user, "share")} ELSE {})
    BY DEF UpsertAvatar, Wants
  <2>3. Wants(req[w]) \subseteq Holds(req'[w])
    BY <2>1, <2>2 DEF Holds
  <2> QED
    BY <1>2, <2>1, <2>2, <2>3, HolderAcquires DEF UpsertAvatar, rows
<1> QED
  BY <1>1, <1>2

LEMMA LinkAvatarHolds ==
    ASSUME IInv, HolderInv, NEW w \in Workers, LinkAvatar(w)
    PROVE  HolderInv'
<1>1. /\ req'[w].pc = "idle"
      /\ \A v \in Workers : v # w => req'[v] = req[v]
  BY RequestDone DEF LinkAvatar, IInv, Idle
<1>2. PICK u \in Users : u = req[w].user /\ <<w, AvatarLock(u)>> \in locks
  BY DEF LinkAvatar, IInv, Named, HolderInv, Linking
<1>3. ASSUME NEW v \in Workers, v # w, req[v].pc = "link"
      PROVE  req[v].user \in live' /\ avatar'[req[v].user] = avatar[req[v].user]
  <2>1. PICK x \in Users : x = req[v].user /\ <<v, AvatarLock(x)>> \in locks /\ x \in live
    BY <1>3 DEF IInv, Named, HolderInv, Linking
  <2>2. x # u
    BY <1>2, <1>3, <2>1, AvatarsExclude
  <2> QED
    BY <1>2, <2>1, <2>2 DEF LinkAvatar, IInv, TypeOK
<1> QED
  BY <1>1, <1>3, HolderEnds DEF LinkAvatar

LEMMA RemoveAvatarHolds ==
    ASSUME IInv, HolderInv, NEW w \in Workers, RemoveAvatar(w)
    PROVE  HolderInv'
<1>1. /\ req'[w].pc = "unlink" /\ req'[w].user = req[w].user
      /\ \A v \in Workers : v # w => req'[v] = req[v]
  BY RequestMoves DEF RemoveAvatar, IInv, Phases
<1>2. Wants(req[w]) \subseteq Holds(req'[w])
  BY <1>1 DEF RemoveAvatar, Wants, Holds
<1> QED
  BY <1>1, <1>2, HolderAcquires DEF RemoveAvatar, rows

(* The avatar a deletion takes away was locked by it.                      *)
LEMMA RemovedIsOwn ==
    ASSUME IInv, HolderInv, NEW w \in Workers, req[w].pc = "unlink", Removed(w)
    PROVE  <<w, AvatarLock(req[w].user)>> \in locks
<1>1. PICK l \in locks : l[1] = w
  BY DEF Removed, Held
<1>2. l[2] = AvatarLock(req[w].user)
  BY <1>1 DEF HolderInv, LocksByPhase, Holds
<1> QED
  BY <1>1, <1>2, LockFields DEF IInv

LEMMA UnlinkAvatarHolds ==
    ASSUME IInv, HolderInv, NEW w \in Workers, UnlinkAvatar(w)
    PROVE  HolderInv'
<1>1. CASE req[w].user \notin live
  BY <1>1, HolderFails DEF UnlinkAvatar
<1>2. CASE req[w].user \in live
  <2>1. /\ req'[w].pc = "idle"
        /\ \A v \in Workers : v # w => req'[v] = req[v]
    BY <1>2, RequestDone DEF UnlinkAvatar, IInv, Idle
  <2>2. ASSUME NEW v \in Workers, v # w, req[v].pc = "link"
        PROVE  req[v].user \in live' /\ avatar'[req[v].user] = avatar[req[v].user]
    <3>1. PICK x \in Users : x = req[v].user /\ <<v, AvatarLock(x)>> \in locks /\ x \in live
      BY <2>2 DEF IInv, Named, HolderInv, Linking
    <3>2. Removed(w) => x # req[w].user
      BY <2>2, <3>1, RemovedIsOwn, AvatarsExclude DEF UnlinkAvatar
    <3> QED
      BY <1>2, <3>1, <3>2 DEF UnlinkAvatar, IInv, TypeOK
  <2> QED
    BY <1>2, <2>1, <2>2, HolderEnds DEF UnlinkAvatar
<1> QED
  BY <1>1, <1>2

LEMMA EraseUserHolds ==
    ASSUME IInv, HolderInv, NEW w \in Workers, EraseUser(w)
    PROVE  HolderInv'
<1>1. /\ req'[w].pc = "cascade" /\ req'[w].user = req[w].user
      /\ \A v \in Workers : v # w => req'[v] = req[v]
  BY RequestMoves DEF EraseUser, IInv, Phases
<1>2. Wants(req[w]) = {UserLock(req[w].user, "excl")}
  BY DEF EraseUser, Wants
<1>3. Wants(req[w]) \subseteq Holds(req'[w])
  BY <1>1, <1>2 DEF Holds
<1> QED
  BY <1>1, <1>2, <1>3, HolderAcquires DEF EraseUser, rows

(* A cascade waits for whoever is about to store the avatar it would       *)
(* delete, and whoever is about to store a first one holds the user row.   *)
LEMMA CascadeSpares ==
    ASSUME IInv, HolderInv, NEW w \in Workers, CascadeUser(w),
           NEW v \in Workers, req[v].pc = "link"
    PROVE  req[v].user # req[w].user
<1> SUFFICES ASSUME req[v].user = req[w].user PROVE FALSE
  OBVIOUS
<1>1. v # w /\ req[w].pc = "cascade" /\ ~ Waiting(w)
  BY DEF CascadeUser
<1>2. PICK u \in Users : u = req[w].user
  BY <1>1 DEF IInv, Named
<1>3. /\ <<w, UserLock(u, "excl")>> \in locks
      /\ <<v, AvatarLock(u)>> \in locks
      /\ avatar[u] = None => <<v, UserLock(u, "share")>> \in locks
  BY <1>1, <1>2 DEF HolderInv, Erasing, Linking
<1>4. CASE avatar[u] = None
  BY <1>1, <1>3, <1>4 DEF IInv, LocksCompatible, UserLock, Conflict
<1>5. CASE avatar[u] # None
  <2>1. Wants(req[w]) = {AvatarLock(u)}
    BY <1>1, <1>2, <1>5 DEF Wants
  <2>2. <<v, AvatarLock(u)>> \in Held(v)
    BY <1>3 DEF Held
  <2>3. Blocks(v, w)
    BY <1>1, <2>1, <2>2 DEF Blocks, AvatarLock, Conflict
  <2> QED
    BY <1>1, <2>3 DEF Waiting
<1> QED
  BY <1>4, <1>5

LEMMA CascadeUserHolds ==
    ASSUME IInv, HolderInv, NEW w \in Workers, CascadeUser(w)
    PROVE  HolderInv'
<1>1. /\ req'[w].pc = "idle"
      /\ \A v \in Workers : v # w => req'[v] = req[v]
  BY RequestDone DEF CascadeUser, IInv, Idle
<1>2. ASSUME NEW v \in Workers, v # w, req[v].pc = "link"
      PROVE  req[v].user \in live' /\ avatar'[req[v].user] = avatar[req[v].user]
  <2>1. req[v].user # req[w].user /\ req[v].user \in live
    BY <1>2, CascadeSpares DEF HolderInv, Linking
  <2> QED
    BY <2>1 DEF CascadeUser, IInv, TypeOK
<1> QED
  BY <1>1, <1>2, HolderEnds DEF CascadeUser

LEMMA InitHolderInv == Init => HolderInv
BY DEF Init, HolderInv, LocksByPhase, Erasing, Linking, Idle

LEMMA StepHolderInv == IInv /\ HolderInv /\ [Next]_vars => HolderInv'
<1> SUFFICES ASSUME IInv, HolderInv, [Next]_vars PROVE HolderInv'
  OBVIOUS
<1>1. ASSUME NEW w \in Workers, Statement(w) PROVE HolderInv'
  BY <1>1, CountFilesHolds, RefuseFileHolds, StoreFileHolds, ReplyFileHolds, UpsertAvatarHolds, LinkAvatarHolds,
     RemoveAvatarHolds, UnlinkAvatarHolds, EraseUserHolds, CascadeUserHolds DEF Statement
<1>2. ASSUME NEW w \in Workers, Timeout(w) \/ Crash(w) PROVE HolderInv'
  BY <1>2, HolderFails DEF Timeout, Crash
<1>3. ASSUME NEW w \in Workers, NEW u \in Users,
             UploadFile(w, u) \/ UploadAvatar(w, u) \/ DeleteAvatar(w, u) \/ DeleteMe(w, u)
      PROVE  HolderInv'
  BY <1>3, UploadFileHolds, UploadAvatarHolds, DeleteAvatarHolds, DeleteMeHolds
<1>4. ASSUME NEW u \in Users, GoogleSignIn(u) \/ Fetch(u) PROVE HolderInv'
  BY <1>4, HolderStill DEF GoogleSignIn, Fetch, rows
<1>5. ASSUME NEW u \in Users, NEW f \in FileIds, DeleteFile(u, f) PROVE HolderInv'
  BY <1>5, HolderStill DEF DeleteFile
<1>6. CASE Tick
  BY <1>6, HolderStill DEF Tick, rows
<1>7. CASE UNCHANGED vars
  BY <1>7, HolderStill DEF vars, rows
<1> QED
  BY <1>1, <1>2, <1>3, <1>4, <1>5, <1>6, <1>7 DEF Next

LEMMA SpecHolderInv == Spec => [](IInv /\ HolderInv)
BY InitIInv, StepIInv, InitHolderInv, StepHolderInv, PTL DEF Spec

----------------------------------------------------------------------------
(* No file or avatar outlives its account.                                 *)
LEMMA RowsStay ==
    ASSUME NoOrphans, UNCHANGED <<live, files, avatar>>
    PROVE  NoOrphans'
BY DEF NoOrphans

LEMMA StepNoOrphans == IInv /\ HolderInv /\ NoOrphans /\ [Next]_vars => NoOrphans'
<1> SUFFICES ASSUME IInv, HolderInv, NoOrphans, [Next]_vars PROVE NoOrphans'
  OBVIOUS
<1>1. ASSUME NEW w \in Workers, StoreFile(w) PROVE NoOrphans'
  <2>1. CASE req[w].user \in live
    BY <1>1, <2>1 DEF StoreFile, NoOrphans, IInv, TypeOK
  <2>2. CASE req[w].user \notin live
    BY <1>1, <2>2, RowsStay DEF StoreFile, Fail, rows
  <2> QED
    BY <2>1, <2>2
<1>2. ASSUME NEW w \in Workers, LinkAvatar(w) PROVE NoOrphans'
  <2>1. req[w].user \in live
    BY <1>2 DEF LinkAvatar, HolderInv, Linking
  <2> QED
    BY <1>2, <2>1 DEF LinkAvatar, NoOrphans, IInv, TypeOK
<1>3. ASSUME NEW w \in Workers, UnlinkAvatar(w) PROVE NoOrphans'
  <2>1. CASE req[w].user \in live
    BY <1>3, <2>1 DEF UnlinkAvatar, NoOrphans, IInv, TypeOK
  <2>2. CASE req[w].user \notin live
    BY <1>3, <2>2, RowsStay DEF UnlinkAvatar, Fail, rows
  <2> QED
    BY <2>1, <2>2
<1>4. ASSUME NEW w \in Workers, CascadeUser(w) PROVE NoOrphans'
  BY <1>4 DEF CascadeUser, Cascaded, NoOrphans, IInv, TypeOK
<1>5. ASSUME NEW w \in Workers, Statement(w) PROVE NoOrphans'
  <2>1. CASE CountFiles(w) \/ RefuseFile(w) \/ ReplyFile(w) \/ RemoveAvatar(w) \/ EraseUser(w)
    BY <2>1, RowsStay DEF CountFiles, RefuseFile, ReplyFile, RemoveAvatar, EraseUser, rows
  <2>2. CASE UpsertAvatar(w)
    BY <2>2, RowsStay DEF UpsertAvatar, Fail, rows
  <2> QED
    BY <1>1, <1>2, <1>3, <1>4, <1>5, <2>1, <2>2 DEF Statement
<1>6. ASSUME NEW w \in Workers, Timeout(w) \/ Crash(w) PROVE NoOrphans'
  BY <1>6, RowsStay DEF Timeout, Crash, Fail, rows
<1>7. ASSUME NEW w \in Workers, NEW u \in Users,
             UploadFile(w, u) \/ UploadAvatar(w, u) \/ DeleteAvatar(w, u) \/ DeleteMe(w, u)
      PROVE  NoOrphans'
  BY <1>7, RowsStay DEF UploadFile, UploadAvatar, DeleteAvatar, DeleteMe, rows
<1>8. ASSUME NEW u \in Users, GoogleSignIn(u) \/ Fetch(u) PROVE NoOrphans'
  BY <1>8, RowsStay DEF GoogleSignIn, Fetch, rows
<1>9. ASSUME NEW u \in Users, NEW f \in FileIds, DeleteFile(u, f) PROVE NoOrphans'
  BY <1>9 DEF DeleteFile, NoOrphans, IInv, TypeOK
<1>10. CASE Tick \/ UNCHANGED vars
  BY <1>10, RowsStay DEF Tick, vars, rows
<1> QED
  BY <1>5, <1>6, <1>7, <1>8, <1>9, <1>10 DEF Next

(* No file or avatar outlives its account: an upload past its lock keeps   *)
(* the account, and one that is not yet there finds it gone.               *)
THEOREM NothingOutlivesItsAccount == Spec => []NoOrphans
<1>1. Init => NoOrphans
  BY DEF Init, NoOrphans
<1> QED
  BY <1>1, SpecHolderInv, StepNoOrphans, PTL DEF Spec

----------------------------------------------------------------------------
(* The user's lock that each of link and unlink waits for is not one that  *)
(* the other holds: only a cascade closes the circle.                      *)
LEMMA WaitsFor ==
    ASSUME IInv, HolderInv, NEW v \in Workers, NEW w \in Workers, Blocks(v, w),
           req[v].pc # "cascade", req[w].pc \in {"link", "unlink"}
    PROVE  req[v].pc \in {"full", "store"}
<1>1. PICK h \in Held(v), k \in Wants(req[w]) :
          h[2][1] = k[1] /\ h[2][2] = k[2] /\ Conflict(h[2][3], k[3])
  BY DEF Blocks
<1>2. k = UserLock(req[w].user, "noKey")
  BY <1>1 DEF Wants
<1>3. h[2] \in Holds(req[v])
  BY <1>1 DEF Held, HolderInv, LocksByPhase
<1>4. h[2][1] = "user" /\ h[2][3] # "share"
  BY <1>1, <1>2 DEF UserLock, Conflict
<1> QED
  BY <1>3, <1>4 DEF Holds, UserLock, AvatarLock

LEMMA HoldsWhileWaiting ==
    ASSUME IInv, HolderInv, NEW v \in Workers, NEW w \in Workers, NEW x \in Workers,
           Blocks(v, w), Blocks(x, v), req[v].pc # "cascade"
    PROVE  req[v].pc \in {"link", "unlink"}
<1>1. PICK h \in Held(v) : h[2] \in Holds(req[v])
  BY DEF Blocks, Held, HolderInv, LocksByPhase
<1>2. PICK k : k \in Wants(req[v])
  BY DEF Blocks
<1>3. req[v].pc \in {"full", "store", "link", "unlink"}
  BY <1>1 DEF Holds
<1>4. req[v].pc \in {"full", "store"} => Wants(req[v]) = {}
  BY DEF Wants
<1> QED
  BY <1>2, <1>3, <1>4

(* However many transactions wait for each other, one of them deletes the  *)
(* account: without it, whom a waiting one waits for does not wait itself  *)
(* for one that waits (auth.py:443, avatars.py:84-97, 106-109).            *)
THEOREM OnlyErasureDeadlocks == Spec => []DeadlockNeedsErase
<1>1. ASSUME IInv, HolderInv PROVE DeadlockNeedsErase
  <2> SUFFICES ASSUME NEW S \in SUBSET Workers, Deadlocked(S),
                      \A w \in S : req[w].pc # "cascade"
               PROVE  FALSE
    BY DEF DeadlockNeedsErase
  <2>1. ASSUME NEW v \in S, NEW w \in S, Blocks(v, w) PROVE req[v].pc \in {"link", "unlink"}
    <3>1. PICK x \in S : Blocks(x, v)
      BY DEF Deadlocked
    <3> QED
      BY <1>1, <2>1, <3>1, HoldsWhileWaiting
  <2>2. PICK w \in S, v \in S, x \in S : Blocks(v, w) /\ Blocks(x, v)
    BY DEF Deadlocked
  <2>3. req[v].pc \in {"link", "unlink"} /\ req[x].pc \in {"link", "unlink"}
    BY <2>1, <2>2
  <2>4. req[x].pc \in {"full", "store"}
    BY <1>1, <2>2, <2>3, WaitsFor
  <2> QED
    BY <2>3, <2>4
<1> QED
  BY <1>1, SpecHolderInv, PTL

----------------------------------------------------------------------------
(* The versions only grow: an image about to be stored has a later one     *)
(* than the profile, or any browser, has seen of its account.              *)
Stamped(u) ==
    /\ last[u] \in Versions => last[u] <= now
    /\ url[u] \in Versions => last[u] \in Versions /\ url[u] <= last[u]
    /\ \A v \in Versions : cached[u][v] # None => last[u] \in Versions /\ v <= last[u]
Prepared(w) ==
    /\ req[w].pc \in {"upsert", "link"} => req[w].image \in Images
    /\ req[w].pc = "link" =>
           /\ req[w].version \in Versions /\ req[w].version <= now
           /\ last[req[w].user] \in Versions => last[req[w].user] <= req[w].version
VersionInv ==
    /\ \A u \in Users : Stamped(u)
    /\ \A w \in Workers : Prepared(w)

LEMMA VersionTypes ==
    /\ Versions \subseteq Nat /\ Images \subseteq Nat
    /\ None \notin Versions /\ None \notin Images /\ Picture \notin Versions
BY BoundTypes, NoneAssumption DEF Versions, Images

LEMMA VersionsStay ==
    ASSUME IInv, IInv', VersionInv, UNCHANGED <<last, cached>>, now <= now',
           \A u \in Users : url'[u] = url[u] \/ url'[u] \notin Versions,
           \A w \in Workers : req'[w].pc \in {"upsert", "link"} => req'[w] = req[w]
    PROVE  VersionInv'
<1>1. now \in Nat /\ now' \in Nat
  BY VersionTypes DEF IInv, TypeOK
<1>2. ASSUME NEW u \in Users PROVE Stamped(u)'
  <2>1. Stamped(u)
    BY DEF VersionInv
  <2>2. last[u] \in Versions => last[u] <= now'
    BY <1>1, <2>1, BoundTypes DEF Stamped, Versions
  <2> QED
    BY <2>1, <2>2 DEF Stamped
<1>3. ASSUME NEW w \in Workers PROVE Prepared(w)'
  <2>1. Prepared(w)
    BY DEF VersionInv
  <2>2. req[w].pc = "link" => req[w].version <= now'
    BY <1>1, <2>1, BoundTypes DEF Prepared, Versions
  <2> QED
    BY <2>1, <2>2 DEF Prepared
<1> QED
  BY <1>2, <1>3 DEF VersionInv

LEMMA NowStays ==
    ASSUME IInv, now' = now
    PROVE  now <= now'
BY VersionTypes DEF IInv, TypeOK

LEMMA FailVersions ==
    ASSUME IInv, IInv', VersionInv, NEW w \in Workers, Fail(w), UNCHANGED <<bounds, cached>>
    PROVE  VersionInv'
<1>1. /\ req'[w].pc = "idle"
      /\ \A v \in Workers : v # w => req'[v] = req[v]
  BY RequestDone DEF Fail, IInv, Idle
<1>2. now <= now'
  BY NowStays DEF bounds
<1> QED
  BY <1>1, <1>2, VersionsStay DEF Fail, rows, history

LEMMA UploadAvatarVersions ==
    ASSUME IInv, VersionInv, NEW w \in Workers, NEW u \in Users, UploadAvatar(w, u)
    PROVE  VersionInv'
<1>1. PICK r : r = [Seeing("upsert", u) EXCEPT !.image = nextImage]
  OBVIOUS
<1>2. r.pc = "upsert" /\ r.image = nextImage /\ nextImage \in Images
  <2>1. Seeing("upsert", u) \in Request /\ Seeing("upsert", u).pc = "upsert"
    BY RequestBegins DEF IInv, Phases
  <2>2. nextImage \in Images
    BY BoundTypes DEF UploadAvatar, IInv, TypeOK, Images
  <2> QED
    BY <1>1, <2>1, <2>2 DEF Request
<1>3. req' = [req EXCEPT ![w] = r] /\ UNCHANGED <<url, last, cached, now>>
  BY <1>1 DEF UploadAvatar, Begin, rows, history
<1>4. \A v \in Workers : Prepared(v)'
  BY <1>2, <1>3 DEF VersionInv, Prepared, IInv, TypeOK
<1> QED
  BY <1>3, <1>4 DEF VersionInv, Stamped

LEMMA UpsertAvatarVersions ==
    ASSUME IInv, IInv', VersionInv, NEW w \in Workers, UpsertAvatar(w)
    PROVE  VersionInv'
<1>1. CASE req[w].user \notin live
  BY <1>1, FailVersions DEF UpsertAvatar
<1>2. CASE req[w].user \in live
  <2>1. /\ req'[w].pc = "link" /\ req'[w].user = req[w].user /\ req'[w].version = now
        /\ \A v \in Workers : v # w => req'[v] = req[v]
    BY <1>2, UpsertAvatarMoves
  <2>2. req'[w].image = req[w].image
    BY <1>2 DEF UpsertAvatar, IInv, TypeOK, Request
  <2>3. UNCHANGED <<url, last, cached, now>>
    BY <1>2 DEF UpsertAvatar, rows, history, bounds
  <2>4. now \in Versions /\ now <= now /\ req[w].user \in Users
    BY <1>2, VersionTypes DEF IInv, TypeOK
  <2>5. Prepared(w)'
    BY <2>1, <2>2, <2>3, <2>4 DEF UpsertAvatar, VersionInv, Prepared, Stamped
  <2>6. \A v \in Workers : v # w => Prepared(v)'
    BY <2>1, <2>3 DEF VersionInv, Prepared
  <2> QED
    BY <2>3, <2>5, <2>6 DEF VersionInv, Stamped
<1> QED
  BY <1>1, <1>2

LEMMA LinkAvatarVersions ==
    ASSUME IInv, HolderInv, VersionInv, NEW w \in Workers, LinkAvatar(w)
    PROVE  VersionInv'
<1>1. /\ req'[w].pc = "idle"
      /\ \A v \in Workers : v # w => req'[v] = req[v]
  BY RequestDone DEF LinkAvatar, IInv, Idle
<1>2. PICK u \in Users : u = req[w].user /\ <<w, AvatarLock(u)>> \in locks
  BY DEF LinkAvatar, IInv, Named, HolderInv, Linking
<1>3. PICK n \in Versions : n = req[w].version /\ n <= now
  BY DEF LinkAvatar, VersionInv, Prepared
<1>4. last[u] \in Versions => last[u] <= n
  BY <1>2, <1>3 DEF LinkAvatar, VersionInv, Prepared
<1>5. /\ UNCHANGED <<cached, now>>
      /\ \A x \in Users : last'[x] = IF x = u THEN n ELSE last[x]
      /\ \A x \in Users : url'[x] = url[x] \/ (x = u /\ url'[x] = n)
  BY <1>2, <1>3 DEF LinkAvatar, Relinked, IInv, TypeOK, bounds
<1>6. Stamped(u)'
  <2>1. Stamped(u) /\ n \in Nat /\ n <= n
    BY <1>3, VersionTypes DEF VersionInv
  <2>2. \A m \in Versions : last[u] \in Versions /\ m <= last[u] => m <= n
    BY <1>4, <2>1, BoundTypes DEF Versions
  <2> QED
    BY <1>3, <1>5, <2>1, <2>2 DEF Stamped
<1>7. \A x \in Users : x # u => Stamped(x)'
  BY <1>5 DEF VersionInv, Stamped
<1>8. ASSUME NEW v \in Workers PROVE Prepared(v)'
  <2>1. CASE v = w
    BY <1>1, <2>1 DEF Prepared
  <2>2. CASE v # w
    <3>1. req[v].pc = "link" => req[v].user \in Users /\ req[v].user # u
      <4> SUFFICES ASSUME req[v].pc = "link" PROVE req[v].user \in Users /\ req[v].user # u
        OBVIOUS
      <4>1. PICK x \in Users : x = req[v].user /\ <<v, AvatarLock(x)>> \in locks
        BY DEF IInv, Named, HolderInv, Linking
      <4> QED
        BY <1>2, <2>2, <4>1, AvatarsExclude
    <3> QED
      BY <1>1, <1>5, <2>2, <3>1 DEF VersionInv, Prepared
  <2> QED
    BY <2>1, <2>2
<1> QED
  BY <1>6, <1>7, <1>8 DEF VersionInv

LEMMA FetchVersions ==
    ASSUME IInv, VersionInv, NEW u \in Users, Fetch(u)
    PROVE  VersionInv'
<1>1. /\ UNCHANGED <<url, last, now, req>>
      /\ \A x \in Users, v \in Versions :
             cached'[x][v] = cached[x][v] \/ (x = u /\ v = url[u])
  BY DEF Fetch, IInv, TypeOK, rows, history, bounds
<1>2. url[u] \in Versions
  BY DEF Fetch
<1>3. \A x \in Users : Stamped(x)'
  BY <1>1, <1>2 DEF VersionInv, Stamped
<1> QED
  BY <1>1, <1>3 DEF VersionInv, Prepared

LEMMA StepVersionInv ==
    IInv /\ IInv' /\ HolderInv /\ VersionInv /\ [Next]_vars => VersionInv'
<1> SUFFICES ASSUME IInv, IInv', HolderInv, VersionInv, [Next]_vars PROVE VersionInv'
  OBVIOUS
<1>1. ASSUME NEW w \in Workers, NEW pc \in Phases \ {"upsert", "link"}, Goto(w, pc),
             UNCHANGED <<url, last, cached, now>>
      PROVE  VersionInv'
  <2>1. req'[w].pc = pc /\ \A v \in Workers : v # w => req'[v] = req[v]
    BY <1>1, RequestMoves DEF IInv
  <2> QED
    BY <1>1, <2>1, NowStays, VersionsStay
<1>2. ASSUME NEW w \in Workers, NEW u \in Users,
             UploadFile(w, u) \/ DeleteAvatar(w, u) \/ DeleteMe(w, u)
      PROVE  VersionInv'
  <2>1. /\ req'[w].pc \in {"count", "remove", "erase"}
        /\ \A v \in Workers : v # w => req'[v] = req[v]
    <3>1. CASE UploadFile(w, u)
      <4>1. PICK r : r = [Starting("count", u) EXCEPT !.file = nextFile]
        OBVIOUS
      <4>2. Starting("count", u) \in Request /\ Starting("count", u).pc = "count"
        BY RequestBegins DEF IInv, Phases
      <4>3. r.pc = "count" /\ req' = [req EXCEPT ![w] = r]
        BY <3>1, <4>1, <4>2 DEF UploadFile, Begin, Request
      <4> QED
        BY <4>3 DEF IInv, TypeOK
    <3>2. CASE DeleteAvatar(w, u)
      <4>1. Seeing("remove", u).pc = "remove"
        BY RequestBegins DEF IInv, Phases
      <4> QED
        BY <3>2, <4>1 DEF DeleteAvatar, Begin, IInv, TypeOK
    <3>3. CASE DeleteMe(w, u)
      <4>1. Starting("erase", u).pc = "erase"
        BY RequestBegins DEF IInv, Phases
      <4> QED
        BY <3>3, <4>1 DEF DeleteMe, Begin, IInv, TypeOK
    <3> QED
      BY <1>2, <3>1, <3>2, <3>3
  <2>2. \A v \in Workers : req'[v].pc \in {"upsert", "link"} => req'[v] = req[v]
    BY <2>1
  <2>3. UNCHANGED <<url, last, cached, now>>
    BY <1>2 DEF UploadFile, DeleteAvatar, DeleteMe, rows, history, bounds
  <2> QED
    BY <2>2, <2>3, NowStays, VersionsStay
<1>3. ASSUME NEW w \in Workers, Done(w), UNCHANGED <<last, cached, now>>,
             \A u \in Users : url'[u] = url[u] \/ url'[u] \notin Versions
      PROVE  VersionInv'
  <2>1. req'[w].pc = "idle" /\ \A v \in Workers : v # w => req'[v] = req[v]
    BY <1>3, RequestDone DEF IInv, Idle
  <2> QED
    BY <1>3, <2>1, NowStays, VersionsStay
<1>4. ASSUME NEW w \in Workers, Statement(w) PROVE VersionInv'
  <2>1. CASE CountFiles(w)
    BY <1>1, <2>1 DEF CountFiles, Phases, rows, history, bounds
  <2>2. CASE StoreFile(w)
    <3>1. CASE req[w].user \in live
      BY <1>1, <2>2, <3>1 DEF StoreFile, Phases, history, bounds
    <3>2. CASE req[w].user \notin live
      BY <2>2, <3>2, FailVersions DEF StoreFile
    <3> QED
      BY <3>1, <3>2
  <2>3. CASE ReplyFile(w) \/ RefuseFile(w)
    BY <1>3, <2>3 DEF ReplyFile, RefuseFile, rows, history, bounds
  <2>4. CASE RemoveAvatar(w) \/ EraseUser(w)
    BY <1>1, <2>4 DEF RemoveAvatar, EraseUser, Phases, rows, history, bounds
  <2>5. CASE UnlinkAvatar(w)
    <3>1. CASE req[w].user \in live
      <4>1. \A u \in Users : url'[u] = url[u] \/ url'[u] \notin Versions
        BY <2>5, <3>1, VersionTypes DEF UnlinkAvatar, Relinked, IInv, TypeOK
      <4> QED
        BY <1>3, <2>5, <3>1, <4>1 DEF UnlinkAvatar, bounds
    <3>2. CASE req[w].user \notin live
      BY <2>5, <3>2, FailVersions DEF UnlinkAvatar
    <3> QED
      BY <3>1, <3>2
  <2>6. CASE CascadeUser(w)
    <3>1. \A u \in Users : url'[u] = url[u] \/ url'[u] \notin Versions
      BY <2>6, VersionTypes DEF CascadeUser, IInv, TypeOK
    <3> QED
      BY <1>3, <2>6, <3>1 DEF CascadeUser, history, bounds
  <2> QED
    BY <1>4, <2>1, <2>2, <2>3, <2>4, <2>5, <2>6, UpsertAvatarVersions, LinkAvatarVersions
       DEF Statement
<1>5. ASSUME NEW w \in Workers, Timeout(w) \/ Crash(w) PROVE VersionInv'
  BY <1>5, FailVersions DEF Timeout, Crash
<1>6. ASSUME NEW u \in Users, GoogleSignIn(u) PROVE VersionInv'
  <2>1. \A x \in Users : url'[x] = url[x] \/ url'[x] \notin Versions
    BY <1>6, VersionTypes DEF GoogleSignIn, IInv, TypeOK
  <2> QED
    BY <1>6, <2>1, NowStays, VersionsStay DEF GoogleSignIn, bounds, history
<1>7. ASSUME NEW u \in Users, NEW f \in FileIds, DeleteFile(u, f) PROVE VersionInv'
  BY <1>7, NowStays, VersionsStay DEF DeleteFile, bounds, history
<1>8. CASE Tick
  <2>1. now <= now'
    BY <1>8, VersionTypes DEF Tick, IInv, TypeOK
  <2> QED
    BY <1>8, <2>1, VersionsStay DEF Tick, rows, history
<1>9. CASE UNCHANGED vars
  BY <1>9, NowStays, VersionsStay DEF vars, rows, history, bounds
<1> QED
  BY <1>2, <1>4, <1>5, <1>6, <1>7, <1>8, <1>9, UploadAvatarVersions, FetchVersions DEF Next

----------------------------------------------------------------------------
(* What a profile shows is served, and the image a browser has for it is   *)
(* the current one.                                                        *)
Shown(u) ==
    /\ u \in live /\ u \notin raced /\ url[u] \in Versions => avatar[u] # None
    /\ u \in live /\ u \notin raced /\ u \notin rushed /\ url[u] \in Versions =>
           cached[u][url[u]] \in {None, avatar[u]}

LEMMA ShownStays ==
    ASSUME NEW u \in Users, Shown(u), UNCHANGED cached,
           u \in live' => u \in live,
           url'[u] \notin Versions \/
               (/\ url'[u] = url[u] /\ avatar'[u] = avatar[u]
                /\ (u \in raced <=> u \in raced') /\ (u \in rushed <=> u \in rushed'))
    PROVE  Shown(u)'
BY DEF Shown

LEMMA LinkAvatarShown ==
    ASSUME IInv, VersionInv, \A u \in Users : Shown(u), NEW w \in Workers, LinkAvatar(w),
           NEW u \in Users
    PROVE  Shown(u)'
<1>1. CASE u # req[w].user
  <2>1. url'[u] = url[u] /\ avatar'[u] = avatar[u] /\ UNCHANGED <<cached, live>>
    BY <1>1 DEF LinkAvatar, Relinked, IInv, TypeOK
  <2>2. (u \in raced <=> u \in raced') /\ (u \in rushed <=> u \in rushed')
    BY <1>1 DEF LinkAvatar, Race, Rush
  <2> QED
    BY <2>1, <2>2, ShownStays
<1>2. CASE u = req[w].user
  <2>1. PICK n \in Versions : n = req[w].version
    BY DEF LinkAvatar, VersionInv, Prepared
  <2>2. last[u] \in Versions => last[u] <= n
    BY <1>2, <2>1 DEF LinkAvatar, VersionInv, Prepared
  <2>3. avatar'[u] = req[w].image /\ req[w].image # None /\ UNCHANGED <<cached, live>>
    BY <1>2, VersionTypes DEF LinkAvatar, VersionInv, Prepared, IInv, TypeOK
  <2>4. ASSUME u \notin raced' PROVE url'[u] = n
    <3>1. req[w].loaded = url[u]
      BY <1>2, <2>4 DEF LinkAvatar, Race, Overtaken
    <3> QED
      BY <1>2, <2>1, <3>1 DEF LinkAvatar, Relinked, IInv, TypeOK
  <2>5. ASSUME u \notin rushed' PROVE cached[u][n] = None
    <3>1. last[u] # n
      BY <1>2, <2>1, <2>5 DEF LinkAvatar, Rush
    <3>2. last[u] \in Versions => ~ (n <= last[u])
      BY <2>2, <3>1, BoundTypes DEF Versions
    <3> QED
      BY <3>2 DEF VersionInv, Stamped
  <2> QED
    BY <2>3, <2>4, <2>5 DEF Shown
<1> QED
  BY <1>1, <1>2

LEMMA UnlinkAvatarShown ==
    ASSUME IInv, \A u \in Users : Shown(u), NEW w \in Workers, UnlinkAvatar(w),
           NEW u \in Users
    PROVE  Shown(u)'
<1>1. CASE req[w].user \notin live
  BY <1>1, ShownStays DEF UnlinkAvatar, Fail, rows, history
<1>2. CASE req[w].user \in live /\ u # req[w].user
  <2>1. url'[u] = url[u] /\ avatar'[u] = avatar[u] /\ UNCHANGED <<cached, live, rushed>>
    BY <1>2 DEF UnlinkAvatar, Relinked, IInv, TypeOK
  <2>2. u \in raced <=> u \in raced'
    BY <1>2 DEF UnlinkAvatar, Race
  <2> QED
    BY <2>1, <2>2, ShownStays
<1>3. CASE req[w].user \in live /\ u = req[w].user
  <2>1. CASE u \in raced'
    BY <2>1 DEF Shown
  <2>2. CASE u \notin raced'
    <3>1. req[w].loaded = url[u]
      BY <1>3, <2>2 DEF UnlinkAvatar, Race, Overtaken
    <3>2. url'[u] = None
      BY <1>3, <3>1 DEF UnlinkAvatar, Relinked, IInv, TypeOK
    <3> QED
      BY <3>2, VersionTypes DEF Shown
  <2> QED
    BY <2>1, <2>2
<1> QED
  BY <1>1, <1>2, <1>3

LEMMA StepShown ==
    ASSUME IInv, VersionInv, \A u \in Users : Shown(u), [Next]_vars
    PROVE  \A u \in Users : Shown(u)'
<1> SUFFICES ASSUME NEW u \in Users PROVE Shown(u)'
  OBVIOUS
<1>1. ASSUME UNCHANGED <<live, avatar, url, raced, rushed, cached>> PROVE Shown(u)'
  BY <1>1, ShownStays
<1>2. ASSUME NEW w \in Workers, Statement(w) PROVE Shown(u)'
  <2>1. CASE CountFiles(w) \/ RefuseFile(w) \/ ReplyFile(w) \/ RemoveAvatar(w) \/ EraseUser(w)
    BY <1>1, <2>1 DEF CountFiles, RefuseFile, ReplyFile, RemoveAvatar, EraseUser, rows, history
  <2>2. CASE StoreFile(w) \/ UpsertAvatar(w)
    BY <1>1, <2>2 DEF StoreFile, UpsertAvatar, Fail, rows, history
  <2>3. CASE CascadeUser(w)
    <3>1. CASE u = req[w].user
      BY <2>3, <3>1 DEF CascadeUser, Shown
    <3>2. CASE u # req[w].user
      BY <2>3, <3>2, ShownStays DEF CascadeUser, history, IInv, TypeOK
    <3> QED
      BY <3>1, <3>2
  <2> QED
    BY <1>2, <2>1, <2>2, <2>3, LinkAvatarShown, UnlinkAvatarShown DEF Statement
<1>3. ASSUME NEW w \in Workers, Timeout(w) \/ Crash(w) PROVE Shown(u)'
  BY <1>1, <1>3 DEF Timeout, Crash, Fail, rows, history
<1>4. ASSUME NEW w \in Workers, NEW x \in Users,
             UploadFile(w, x) \/ UploadAvatar(w, x) \/ DeleteAvatar(w, x) \/ DeleteMe(w, x)
      PROVE  Shown(u)'
  BY <1>1, <1>4 DEF UploadFile, UploadAvatar, DeleteAvatar, DeleteMe, rows, history
<1>5. ASSUME NEW x \in Users, GoogleSignIn(x) PROVE Shown(u)'
  <2>1. url'[u] = url[u] \/ url'[u] \notin Versions
    BY <1>5, VersionTypes DEF GoogleSignIn, IInv, TypeOK
  <2> QED
    BY <1>5, <2>1, ShownStays DEF GoogleSignIn, history
<1>6. ASSUME NEW x \in Users, Fetch(x) PROVE Shown(u)'
  <2>1. /\ UNCHANGED <<live, avatar, url, raced, rushed>>
        /\ \A v \in Versions :
               cached'[u][v] = cached[u][v] \/ (u = x /\ v = url[x] /\ cached'[u][v] = avatar[u])
    BY <1>6 DEF Fetch, IInv, TypeOK, rows, history
  <2> QED
    BY <2>1 DEF Shown
<1>7. ASSUME NEW x \in Users, NEW f \in FileIds, DeleteFile(x, f) PROVE Shown(u)'
  BY <1>1, <1>7 DEF DeleteFile, history
<1>8. CASE Tick \/ UNCHANGED vars
  BY <1>1, <1>8 DEF Tick, vars, rows, history
<1> QED
  BY <1>2, <1>3, <1>4, <1>5, <1>6, <1>7, <1>8 DEF Next

LEMMA ShownAndFresh == Spec => [](\A u \in Users : Shown(u))
<1>1. Init => VersionInv /\ \A u \in Users : Shown(u)
  BY VersionTypes DEF Init, VersionInv, Stamped, Prepared, Shown, Idle
<1>2. IInv /\ IInv' /\ HolderInv /\ VersionInv /\ (\A u \in Users : Shown(u)) /\ [Next]_vars
          => VersionInv' /\ (\A u \in Users : Shown(u))'
  BY StepVersionInv, StepShown
<1> QED
  BY <1>1, <1>2, SpecHolderInv, PTL DEF Spec

(* A shown address of ours has an image behind it, except after an avatar  *)
(* request that committed over a change it had not seen.                   *)
THEOREM ProfilesAreServed == Spec => []ShownIsServed
<1>1. (\A u \in Users : Shown(u)) /\ IInv => ShownIsServed
  BY DEF Shown, ShownIsServed, IInv, TypeOK
<1> QED
  BY <1>1, ShownAndFresh, CountIsRight, PTL

(* The image a browser keeps for the address a profile shows is the        *)
(* current one, except after two uploads within one second.                *)
THEOREM CachesAreFresh == Spec => []CacheFresh
<1>1. (\A u \in Users : Shown(u)) /\ IInv => CacheFresh
  BY DEF Shown, CacheFresh, IInv, TypeOK
<1> QED
  BY <1>1, ShownAndFresh, CountIsRight, PTL

----------------------------------------------------------------------------
(* The refinement: a store is a Put, a deletion a Take, a cascade Empty.   *)
LEMMA SameFilesStutter ==
    ASSUME UNCHANGED files
    PROVE  \A u \in Users : FilesOf(u)' = FilesOf(u)
BY DEF FilesOf

LEMMA StoreIsPut ==
    ASSUME IInv, NEW w \in Workers, StoreFile(w), req[w].user \in live
    PROVE  \E u \in Users, f \in FileIds : Drawer!Put(u, f)
<1>1. PICK u \in Users : u = req[w].user
  BY DEF IInv, TypeOK
<1>2. PICK f \in FileIds : f = req[w].file /\ files[f] = None
  BY DEF StoreFile, IInv, FreshIds, Uploading
<1>3. files' = [files EXCEPT ![f] = u]
  BY <1>1, <1>2 DEF StoreFile
<1>4. \A x \in Users : FilesOf(x)' = IF x = u THEN FilesOf(x) \cup {f} ELSE FilesOf(x)
  BY <1>2, <1>3, BoundTypes DEF FilesOf, IInv, TypeOK
<1>5. f \notin UNION {[x \in Users |-> FilesOf(x)][v] : v \in Users}
  BY <1>2, BoundTypes DEF FilesOf
<1>6. Cardinality(FilesOf(u)) < FilesMax
  BY <1>1 DEF StoreFile, IInv, StoreHoldsRow, BelowMax
<1>7. [x \in Users |-> FilesOf(x)]' = [[x \in Users |-> FilesOf(x)] EXCEPT ![u] = @ \cup {f}]
  BY <1>4
<1>8. [x \in Users |-> FilesOf(x)][u] = FilesOf(u)
  OBVIOUS
<1>9. Drawer!Cardinality(FilesOf(u)) = Cardinality(FilesOf(u))
  BY DEF Drawer!Cardinality, Cardinality
<1>10. Drawer!Put(u, f)
  BY <1>5, <1>6, <1>7, <1>8, <1>9 DEF Drawer!Put
<1> QED
  BY <1>10

LEMMA DeleteIsTake ==
    ASSUME IInv, NEW u \in Users, NEW f \in FileIds, DeleteFile(u, f)
    PROVE  Drawer!Take(u, f)
<1>1. files' = [files EXCEPT ![f] = None] /\ f \in FilesOf(u) /\ files \in [FileIds -> Users \cup {None}]
  BY DEF DeleteFile, FilesOf, IInv, TypeOK
<1>2. \A x \in Users : FilesOf(x)' = IF x = u THEN FilesOf(x) \ {f} ELSE FilesOf(x)
  BY <1>1, BoundTypes DEF FilesOf
<1> QED
  BY <1>1, <1>2 DEF Drawer!Take

LEMMA CascadeIsEmpty ==
    ASSUME IInv, NEW w \in Workers, CascadeUser(w)
    PROVE  \E u \in Users : Drawer!Empty(u)
<1>1. PICK u \in Users : u = req[w].user
  BY DEF CascadeUser, IInv, Named
<1>2. files' = [f \in FileIds |-> IF files[f] = u THEN None ELSE files[f]]
  BY <1>1 DEF CascadeUser, Cascaded
<1>3. \A x \in Users : FilesOf(x)' = IF x = u THEN {} ELSE FilesOf(x)
  BY <1>2, BoundTypes DEF FilesOf
<1>4. Drawer!Empty(u)
  BY <1>3 DEF Drawer!Empty
<1> QED
  BY <1>4

LEMMA StepImplementsDrawer ==
    IInv /\ [Next]_vars => [Drawer!Next]_[u \in Users |-> FilesOf(u)]
<1> SUFFICES ASSUME IInv, [Next]_vars
             PROVE  Drawer!Next \/ \A u \in Users : FilesOf(u)' = FilesOf(u)
  OBVIOUS
<1>1. ASSUME NEW w \in Workers, StoreFile(w)
      PROVE  Drawer!Next \/ UNCHANGED files
  BY <1>1, StoreIsPut DEF Drawer!Next, StoreFile, Fail, rows
<1>2. ASSUME NEW w \in Workers, CascadeUser(w) PROVE Drawer!Next
  BY <1>2, CascadeIsEmpty DEF Drawer!Next
<1>3. ASSUME NEW u \in Users, NEW f \in FileIds, DeleteFile(u, f) PROVE Drawer!Next
  BY <1>3, DeleteIsTake DEF Drawer!Next
<1>4. ASSUME NEW w \in Workers, Statement(w) PROVE Drawer!Next \/ UNCHANGED files
  <2>1. CASE CountFiles(w) \/ RefuseFile(w) \/ ReplyFile(w) \/ RemoveAvatar(w) \/ EraseUser(w)
    BY <2>1 DEF CountFiles, RefuseFile, ReplyFile, RemoveAvatar, EraseUser, Fail, rows
  <2>2. CASE UpsertAvatar(w) \/ LinkAvatar(w) \/ UnlinkAvatar(w)
    BY <2>2 DEF UpsertAvatar, LinkAvatar, UnlinkAvatar, Fail, rows
  <2> QED
    BY <1>1, <1>2, <1>4, <2>1, <2>2 DEF Statement
<1>5. ASSUME NEW w \in Workers, Timeout(w) \/ Crash(w) PROVE UNCHANGED files
  BY <1>5 DEF Timeout, Crash, Fail, rows
<1>6. ASSUME NEW w \in Workers, NEW u \in Users,
             UploadFile(w, u) \/ UploadAvatar(w, u) \/ DeleteAvatar(w, u) \/ DeleteMe(w, u)
      PROVE  UNCHANGED files
  BY <1>6 DEF UploadFile, UploadAvatar, DeleteAvatar, DeleteMe, rows
<1>7. ASSUME NEW u \in Users, GoogleSignIn(u) \/ Fetch(u) PROVE UNCHANGED files
  BY <1>7 DEF GoogleSignIn, Fetch, rows
<1>8. ASSUME Tick \/ UNCHANGED vars PROVE UNCHANGED files
  BY <1>8 DEF Tick, vars, rows
<1>9. Drawer!Next \/ UNCHANGED files
  BY <1>3, <1>4, <1>5, <1>6, <1>7, <1>8 DEF Next
<1> QED
  BY <1>9, SameFilesStutter

(* The attachments implement a drawer of FilesMax files per account.       *)
THEOREM AttachmentsImplementDrawer == Spec => ImplementsDrawer
<1>1. Init => Drawer!Init
  <2> SUFFICES ASSUME Init, NEW u \in Users PROVE FilesOf(u) = {}
    BY DEF Drawer!Init
  <2> QED
    BY BoundTypes DEF Init, FilesOf
<1> QED
  BY <1>1, InitIInv, StepIInv, StepImplementsDrawer, PTL DEF Spec, ImplementsDrawer, Drawer!Spec
=============================================================================
