------------------------------ MODULE Bootstrap ------------------------------
(***************************************************************************)
(* The schema at startup: _create_schema of backend/app/main.py.           *)
(*                                                                         *)
(* Starters run all of it: an API process with db_bootstrap, or the        *)
(* admin's migration while the API serves.  Jobs (ingestion, the seeding   *)
(* of users) run create_all alone.  Every step is a transaction that looks *)
(* at what is there and creates the rest, and nothing keeps two processes  *)
(* from taking the same one; the database may be booting or go away.  A    *)
(* request of the serving role locks `saved_items` and then, for the       *)
(* policy on it, `friendships`; the policies are recreated under exclusive *)
(* locks taken the other way round.                                        *)
(***************************************************************************)
EXTENDS Naturals, FiniteSets

CONSTANTS
    Starters, Jobs,
    MayExtend,     \* processes whose role may create extensions
    Retries,       \* attempts of _create_schema
    MaxOutages,    \* bound: times the database goes down
    MaxReads,      \* bound: requests that meet a migration
    MaxRestarts    \* bound: processes that are started again while they serve

Procs == Starters \cup Jobs

ASSUME ProcsAssumption == Starters \cap Jobs = {} /\ MayExtend \subseteq Procs
ASSUME BoundsAssumption ==
    Retries \in Nat \ {0} /\ MaxOutages \in Nat /\ MaxReads \in Nat /\ MaxRestarts \in Nat

VARIABLES
    up,         \* the database accepts connections
    schema,     \* what is committed
    proc,       \* process -> where it is in its bootstrap
    request,    \* a request of the serving role: "idle", "saved" (holds saved_items)
    outages, reads, restarts

bounds == <<outages, reads, restarts>>
vars == <<up, schema, proc, request, bounds>>

Extensions == {"vector", "pg_trgm"}
Complete == Extensions \cup {"tables", "added", "columns", "indexes", "checks", "policies"}

(* Step n creates these objects; it needs those.  create_all makes a table *)
(* with its columns, indexes and checks, so the steps after it have work   *)
(* only on tables that are older than these.                               *)
Last == 7
Creates(n, seen) ==
    CASE n = 1 -> {"vector"}
      [] n = 2 -> {"pg_trgm"}
      [] n = 3 -> IF "tables" \in seen THEN {"added"}
                  ELSE {"tables", "added", "columns", "indexes", "checks"}
      [] n = 4 -> {"columns"}
      [] n = 5 -> {"indexes"}
      [] n = 6 -> {"checks"}
      [] n = 7 -> {"policies"}
Needs(n) == IF n = 3 THEN Extensions ELSE {}
First(p) == IF p \in Jobs THEN 3 ELSE 1
Final(p) == IF p \in Jobs THEN 3 ELSE Last

(* "check" and "create" are the two halves of a step's transaction; "lock" *)
(* comes between them where the policies are recreated.                    *)
States == {"down", "check", "lock", "create", "sleep", "ready"}
Down == [pc |-> "down", step |-> 1, tries |-> 0, seen |-> {}]

Init ==
    /\ up \in BOOLEAN
    /\ schema \in {{}, {"vector", "tables"}, Complete}
    /\ proc = [p \in Procs |-> Down]
    /\ request = "idle"
    /\ outages = 0 /\ reads = 0 /\ restarts = 0

Goto(p, r) == proc' = [proc EXCEPT ![p] = r]
Dies(p) == Goto(p, Down)

(* An OperationalError starts the attempt over after a pause; the last one *)
(* is raised.  A job does not retry.                                       *)
Retried(p) ==
    IF p \in Jobs \/ proc[p].tries = Retries - 1 THEN Dies(p)
    ELSE Goto(p, [Down EXCEPT !.pc = "sleep", !.tries = proc[p].tries + 1])

(* The step is done: the next one, or the application starts.              *)
Onward(p) ==
    Goto(p, IF proc[p].step = Final(p) THEN [Down EXCEPT !.pc = "ready"]
            ELSE [proc[p] EXCEPT !.pc = "check", !.step = @ + 1, !.seen = {}])

----------------------------------------------------------------------------
Start(p) ==
    /\ proc[p].pc = "down"
    /\ Goto(p, [Down EXCEPT !.pc = "check", !.step = First(p)])
    /\ UNCHANGED <<up, schema, request, bounds>>
WakeUp(p) ==
    /\ proc[p].pc = "sleep"
    /\ Goto(p, [proc[p] EXCEPT !.pc = "check"])
    /\ UNCHANGED <<up, schema, request, bounds>>

(* The transaction begins; the existence checks see what is committed.     *)
Check(p) ==
    /\ proc[p].pc = "check" /\ up
    /\ proc[p].step = Last => \A q \in Procs : proc[q].pc # "lock" /\
           ~ (proc[q].pc = "create" /\ proc[q].step = Last)
    /\ Goto(p, [proc[p] EXCEPT !.pc = IF proc[p].step = Last THEN "lock" ELSE "create",
                               !.seen = schema])
    /\ UNCHANGED <<up, schema, request, bounds>>
NoDatabase(p) ==
    /\ proc[p].pc = "check" /\ ~ up
    /\ Retried(p)
    /\ UNCHANGED <<up, schema, request, bounds>>

(* _ensure_rls has `friendships` and gets `saved_items`; all it drops and  *)
(* creates is in one transaction.                                          *)
EachOnItsOwn(s) == s \ {"policies"}
Uncommitted(s) == s
Lock(p) ==
    /\ proc[p].pc = "lock" /\ request # "saved"
    /\ Goto(p, [proc[p] EXCEPT !.pc = "create"])
    /\ schema' = Uncommitted(schema)
    /\ UNCHANGED <<up, request, bounds>>

(* What the step found missing and another process has created since.      *)
NoCheck(p) == Creates(proc[p].step, proc[p].seen) \cap schema
Clash(p) ==
    IF proc[p].step \in {4, 7} THEN {}
    ELSE (Creates(proc[p].step, proc[p].seen) \cap schema) \ proc[p].seen
Refused(p) ==
    \/ proc[p].step \in {1, 2} /\ p \notin MayExtend
    \/ ~ Needs(proc[p].step) \subseteq schema
    \/ Clash(p) # {}

(* COMMIT, or an error of another kind: a warning where an extension is    *)
(* ensured, the end of the process anywhere else.                          *)
ToleratesAll(p) == TRUE
Tolerates(p) == proc[p].step \in {1, 2}
Create(p) ==
    /\ proc[p].pc = "create"
    /\ IF ~ Refused(p)
       THEN schema' = schema \cup Creates(proc[p].step, proc[p].seen) /\ Onward(p)
       ELSE schema' = schema /\ IF Tolerates(p) THEN Onward(p) ELSE Dies(p)
    /\ UNCHANGED <<up, request, bounds>>

(* The lock wait is cut off: by the deadlock detector or the timeout.      *)
LockTimeout(p) ==
    /\ proc[p].pc = "lock" /\ request = "saved"
    /\ Retried(p)
    /\ UNCHANGED <<up, schema, request, bounds>>

(* A process that serves is deployed or started again.                     *)
Restart(p) ==
    /\ proc[p].pc = "ready" /\ restarts < MaxRestarts
    /\ Dies(p) /\ restarts' = restarts + 1
    /\ UNCHANGED <<up, schema, request, outages, reads>>

(* A request that reads saved_items under its policy.                      *)
HoldsFriendships(p) == proc[p].step = Last /\ proc[p].pc \in {"lock", "create"}
HoldsSaved(p) == proc[p].step = Last /\ proc[p].pc = "create"
Read ==
    /\ request = "idle" /\ up /\ reads < MaxReads /\ "policies" \in schema
    /\ \A p \in Procs : ~ HoldsSaved(p)
    /\ request' = "saved" /\ reads' = reads + 1
    /\ UNCHANGED <<up, schema, proc, outages, restarts>>
Answer ==
    /\ request = "saved"
    /\ \A p \in Procs : ~ HoldsFriendships(p)
    /\ request' = "idle"
    /\ UNCHANGED <<up, schema, proc, bounds>>
RequestTimeout ==
    /\ request = "saved"
    /\ \E p \in Procs : HoldsFriendships(p)
    /\ request' = "idle"
    /\ UNCHANGED <<up, schema, proc, bounds>>

(* The database goes away: what is open is rolled back, and who has a      *)
(* connection gets an OperationalError.                                    *)
InTransaction(p) == proc[p].pc \in {"lock", "create"}
Cut(p) ==
    IF ~ InTransaction(p) THEN proc[p]
    ELSE IF p \in Jobs \/ proc[p].tries = Retries - 1 THEN Down
    ELSE [Down EXCEPT !.pc = "sleep", !.tries = proc[p].tries + 1]
GoDown ==
    /\ up /\ outages < MaxOutages
    /\ up' = FALSE /\ outages' = outages + 1
    /\ proc' = [p \in Procs |-> Cut(p)]
    /\ request' = "idle"
    /\ UNCHANGED <<schema, reads, restarts>>
ComeUp ==
    /\ ~ up /\ up' = TRUE
    /\ UNCHANGED <<schema, proc, request, bounds>>

Step(p) ==
    \/ Start(p) \/ WakeUp(p) \/ Check(p) \/ NoDatabase(p)
    \/ Lock(p) \/ Create(p) \/ LockTimeout(p)

Next ==
    \/ \E p \in Procs : Step(p) \/ Restart(p)
    \/ Read \/ Answer \/ RequestTimeout \/ GoDown \/ ComeUp

(* A process that can go on does and is started again when it dies         *)
(* (restart: unless-stopped, the kubelet); the database comes back.        *)
Fairness == WF_vars(ComeUp) /\ WF_vars(Answer \/ RequestTimeout) /\ \A p \in Procs : WF_vars(Step(p))
Spec == Init /\ [][Next]_vars /\ Fairness
----------------------------------------------------------------------------
TypeOK ==
    /\ up \in BOOLEAN
    /\ schema \subseteq Complete
    /\ proc \in [Procs -> [pc: States, step: 1..Last, tries: 0..Retries - 1,
                           seen: SUBSET Complete]]
    /\ request \in {"idle", "saved"}
    /\ outages \in 0..MaxOutages /\ reads \in 0..MaxReads /\ restarts \in 0..MaxRestarts

(* Who serves has the whole schema, whatever failed or was tolerated on    *)
(* the way, and keeps it while another process runs the migration: the     *)
(* policies are dropped and created in one transaction (main.py:42-48,     *)
(* 211-231).  A replica with DB_BOOTSTRAP=false runs none of this and      *)
(* serves whatever the schema is (main.py:239): it is not a starter.       *)
ServesComplete == \A p \in Starters : proc[p].pc = "ready" => schema = Complete

(* Every process is ready in the end, and again after a restart: one that  *)
(* dies because another was faster finds the objects the next time, and a  *)
(* deadlock with a request or a database that is still booting is retried  *)
(* (main.py:219-231).                                                      *)
BecomesReady == \A p \in Procs : proc[p].pc = "down" ~> proc[p].pc = "ready"
=============================================================================
