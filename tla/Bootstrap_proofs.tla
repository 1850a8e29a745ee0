-------------------------- MODULE Bootstrap_proofs --------------------------
(***************************************************************************)
(* Bootstrap for any processes, privileges, retries, outages and requests. *)
(* A starter that reached step n has all the steps before it created (the  *)
(* extensions, which it tolerates to miss, because create_all needs them)  *)
(* and nothing that was committed is ever gone.                            *)
(***************************************************************************)
EXTENDS Bootstrap, TLAPS

State == [pc: States, step: 1..Last, tries: 0..Retries - 1, seen: SUBSET Complete]

(* What is there when a starter is at step n.                              *)
Behind(n) ==
    UNION {IF n > 3 THEN Extensions \cup {"tables", "added"} ELSE {},
           IF n > 4 THEN {"columns"} ELSE {},
           IF n > 5 THEN {"indexes"} ELSE {},
           IF n > 6 THEN {"checks"} ELSE {}}

Sound(p, r, s) ==
    /\ r.seen \subseteq s
    /\ p \in Starters => Behind(r.step) \subseteq s
    /\ p \in Starters /\ r.pc = "ready" => Complete \subseteq s
    /\ p \in Jobs /\ r.pc \notin {"down", "ready"} => r.step = Final(p)
AllSound == \A p \in Procs : Sound(p, proc[p], schema)

LEMMA BoundTypes == Retries \in Nat \ {0} /\ 0 \in 0..Retries - 1
BY BoundsAssumption

LEMMA DownIsSound ==
    ASSUME NEW p, NEW s
    PROVE  Down \in State /\ Sound(p, Down, s)
<1>1. Down \in State
  BY BoundTypes DEF Down, State, States, Last
<1>2. Down.seen = {} /\ Down.pc = "down" /\ Down.step = 1
  BY DEF Down
<1>3. Behind(1) = {}
  BY DEF Behind
<1> QED
  BY <1>1, <1>2, <1>3 DEF Sound

(* A process that is asleep between two attempts.                          *)
LEMMA Asleep ==
    ASSUME NEW t \in 0..Retries - 1, NEW r, r = [Down EXCEPT !.pc = "sleep", !.tries = t]
    PROVE  r \in State /\ r.seen = {} /\ r.pc = "sleep" /\ r.step = 1
<1>1. PICK d : d = Down
  OBVIOUS
<1>2. d \in State /\ d.seen = {} /\ d.step = 1
  BY <1>1, DownIsSound DEF Down
<1>3. r = [d EXCEPT !.pc = "sleep", !.tries = t] /\ "sleep" \in States
  BY <1>1 DEF States
<1> QED
  BY <1>2, <1>3 DEF State

LEMMA Beginning ==
    ASSUME NEW n \in {1, 3}, NEW r, r = [Down EXCEPT !.pc = "check", !.step = n]
    PROVE  r \in State /\ r.seen = {} /\ r.pc = "check" /\ r.step = n
<1>1. PICK d : d = Down
  OBVIOUS
<1>2. d \in State /\ d.seen = {}
  BY <1>1, DownIsSound DEF Down
<1>3. r = [d EXCEPT !.pc = "check", !.step = n] /\ "check" \in States /\ n \in 1..Last
  BY <1>1 DEF States, Last
<1> QED
  BY <1>2, <1>3 DEF State

LEMMA SoundGrows ==
    ASSUME NEW p, NEW r, NEW s, NEW t, Sound(p, r, s), s \subseteq t
    PROVE  Sound(p, r, t)
BY DEF Sound

(* A step that only moves process p keeps all, if p moves soundly.         *)
LEMMA Moved ==
    ASSUME TypeOK, AllSound, NEW p \in Procs, NEW r \in State, Goto(p, r),
           Sound(p, r, schema'), schema \subseteq schema', schema' \subseteq Complete,
           up' \in BOOLEAN, request' \in {"idle", "saved"}, outages' = outages,
           reads' = reads, restarts' \in 0..MaxRestarts
    PROVE  TypeOK' /\ AllSound'
<1>1. proc' = [proc EXCEPT ![p] = r] /\ proc \in [Procs -> State]
  BY DEF Goto, TypeOK, State
<1>2. proc' \in [Procs -> State] /\ \A q \in Procs : proc'[q] = IF q = p THEN r ELSE proc[q]
  BY <1>1
<1>3. TypeOK'
  BY <1>2 DEF TypeOK, State
<1>4. ASSUME NEW q \in Procs PROVE Sound(q, proc'[q], schema')
  BY <1>2, SoundGrows DEF AllSound
<1> QED
  BY <1>3, <1>4 DEF AllSound

LEMMA RetriedMoves ==
    ASSUME TypeOK, NEW p \in Procs, Retried(p), NEW s
    PROVE  \E r \in State : Goto(p, r) /\ Sound(p, r, s)
<1>1. CASE p \in Jobs \/ proc[p].tries = Retries - 1
  BY <1>1, DownIsSound DEF Retried, Dies
<1>2. CASE ~ (p \in Jobs \/ proc[p].tries = Retries - 1)
  <2>0. PICK t : t = proc[p].tries + 1
    OBVIOUS
  <2>1. PICK r : r = [Down EXCEPT !.pc = "sleep", !.tries = t]
    OBVIOUS
  <2>2. proc[p].tries \in 0..Retries - 1
    BY DEF TypeOK
  <2>3. t \in 0..Retries - 1
    BY <1>2, <2>0, <2>2, BoundTypes
  <2>4. r \in State /\ r.seen = {} /\ r.step = 1 /\ r.pc = "sleep"
    BY <2>1, <2>3, Asleep
  <2>5. Sound(p, r, s)
    BY <1>2, <2>4 DEF Sound, Behind
  <2> QED
    BY <1>2, <2>0, <2>1, <2>4, <2>5 DEF Retried
<1> QED
  BY <1>1, <1>2

(* The process goes on to the next step, or serves.                        *)
LEMMA OnwardMoves ==
    ASSUME TypeOK, AllSound, NEW p \in Procs, Onward(p), proc[p].pc = "create", NEW s,
           p \in Starters => Behind(proc[p].step + 1) \subseteq s,
           p \in Starters /\ proc[p].step = Last => Complete \subseteq s
    PROVE  \E r \in State : Goto(p, r) /\ Sound(p, r, s)
<1>1. proc[p] \in State /\ proc[p].step \in 1..7 /\ Final(p) \in {3, 7}
  BY DEF TypeOK, State, Last, Final
<1>2. CASE proc[p].step = Final(p)
  <2>1. PICK r : r = [Down EXCEPT !.pc = "ready"]
    OBVIOUS
  <2>2. r \in State /\ r.seen = {} /\ r.step = 1 /\ r.pc = "ready"
    BY <2>1, BoundTypes DEF Down, State, States, Last
  <2>3. p \in Starters => proc[p].step = Last
    BY <1>2, ProcsAssumption DEF Final
  <2>4. Sound(p, r, s)
    BY <2>2, <2>3 DEF Sound, Behind
  <2> QED
    BY <1>2, <2>1, <2>2, <2>4 DEF Onward
<1>3. CASE proc[p].step # Final(p)
  <2>1. PICK n : n = proc[p].step + 1
    OBVIOUS
  <2>2. PICK r : r = [proc[p] EXCEPT !.pc = "check", !.step = n, !.seen = {}]
    OBVIOUS
  <2>3. p \notin Jobs
    BY <1>3 DEF AllSound, Sound
  <2>4. n \in 1..7
    BY <1>1, <1>3, <2>1, <2>3 DEF Final, Last
  <2>5. r \in State /\ r.seen = {} /\ r.step = n /\ r.pc = "check"
    BY <1>1, <2>2, <2>4 DEF State, States, Last
  <2>6. Sound(p, r, s)
    BY <2>1, <2>3, <2>5 DEF Sound
  <2> QED
    BY <1>3, <2>1, <2>2, <2>5, <2>6 DEF Onward
<1> QED
  BY <1>2, <1>3

(* A step of a starter leaves behind what the next one counts on.          *)
LEMMA CreateLeaves ==
    ASSUME TypeOK, AllSound, NEW p \in Starters, proc[p].pc = "create",
           ~ Refused(p), NEW s, s = schema \cup Creates(proc[p].step, proc[p].seen)
    PROVE  /\ Behind(proc[p].step + 1) \subseteq s
           /\ proc[p].step = Last => Complete \subseteq s
<1>1. PICK n, seen : n = proc[p].step /\ seen = proc[p].seen
  OBVIOUS
<1>2. n \in 1..7 /\ seen \subseteq schema /\ Behind(n) \subseteq schema /\ Needs(n) \subseteq schema
  BY <1>1 DEF TypeOK, AllSound, Sound, Refused, Procs, Last
<1>3. s = schema \cup Creates(n, seen)
  BY <1>1
<1>4. CASE n \in {1, 2}
  BY <1>1, <1>4 DEF Behind, Last
<1>5. CASE n = 3
  <2>1. Extensions \subseteq schema /\ Behind(n + 1) = Extensions \cup {"tables", "added"}
    BY <1>2, <1>5 DEF Needs, Behind
  <2>2. {"tables", "added"} \subseteq s
    <3>1. CASE "tables" \in seen
      <4>1. Creates(3, seen) = {"added"}
        BY <3>1 DEF Creates
      <4> QED
        BY <1>2, <1>3, <1>5, <3>1, <4>1
    <3>2. CASE "tables" \notin seen
      <4>1. Creates(3, seen) = {"tables", "added", "columns", "indexes", "checks"}
        BY <3>2 DEF Creates
      <4> QED
        BY <1>3, <1>5, <4>1
    <3> QED
      BY <3>1, <3>2
  <2> QED
    BY <1>1, <1>3, <1>5, <2>1, <2>2 DEF Last
<1>6. CASE n \in {4, 5, 6}
  BY <1>1, <1>2, <1>3, <1>6 DEF Behind, Creates, Last
<1>7. CASE n = 7
  BY <1>1, <1>2, <1>3, <1>7 DEF Behind, Creates, Last, Complete
<1> QED
  BY <1>2, <1>4, <1>5, <1>6, <1>7

LEMMA CreatesComplete ==
    ASSUME NEW n \in 1..7, NEW seen
    PROVE  Creates(n, seen) \subseteq Complete
BY DEF Creates, Complete, Extensions

LEMMA StepSound ==
    ASSUME TypeOK, AllSound, [Next]_vars
    PROVE  TypeOK' /\ AllSound'
<1>0. proc \in [Procs -> State] /\ schema \subseteq Complete
  BY DEF TypeOK, State
<1>1. ASSUME NEW p \in Procs, Start(p) PROVE TypeOK' /\ AllSound'
  <2>1. PICK r : r = [Down EXCEPT !.pc = "check", !.step = First(p)]
    OBVIOUS
  <2>2. First(p) \in {1, 3} /\ (p \in Jobs => First(p) = Final(p))
        /\ (p \in Starters => First(p) = 1)
    BY ProcsAssumption DEF First, Final
  <2>3. r \in State /\ r.seen = {} /\ r.step = First(p) /\ r.pc = "check"
    BY <2>1, <2>2, Beginning
  <2>4. Sound(p, r, schema)
    BY <2>2, <2>3 DEF Sound, Behind
  <2> QED
    BY <1>0, <1>1, <2>1, <2>3, <2>4, Moved DEF Start, bounds, TypeOK
<1>2. ASSUME NEW p \in Procs, WakeUp(p) PROVE TypeOK' /\ AllSound'
  <2>1. PICK r : r = [proc[p] EXCEPT !.pc = "check"]
    OBVIOUS
  <2>2. r \in State /\ r.seen = proc[p].seen /\ r.step = proc[p].step /\ r.pc = "check"
    BY <1>0, <2>1 DEF State, States
  <2>3. Sound(p, r, schema)
    BY <1>2, <2>2 DEF Sound, AllSound, WakeUp
  <2> QED
    BY <1>0, <1>2, <2>1, <2>2, <2>3, Moved DEF WakeUp, bounds, TypeOK
<1>3. ASSUME NEW p \in Procs, Check(p) PROVE TypeOK' /\ AllSound'
  <2>1. PICK v : v = IF proc[p].step = Last THEN "lock" ELSE "create"
    OBVIOUS
  <2>2. PICK r : r = [proc[p] EXCEPT !.pc = v, !.seen = schema]
    OBVIOUS
  <2>3. v \in {"lock", "create"}
    BY <2>1
  <2>4. r \in State /\ r.seen = schema /\ r.step = proc[p].step /\ r.pc = v
    BY <1>0, <2>2, <2>3 DEF State, States
  <2>5. Sound(p, r, schema)
    BY <1>3, <2>3, <2>4 DEF Sound, AllSound, Check
  <2> QED
    BY <1>0, <1>3, <2>1, <2>2, <2>4, <2>5, Moved DEF Check, bounds, TypeOK
<1>4. ASSUME NEW p \in Procs, NoDatabase(p) \/ LockTimeout(p) PROVE TypeOK' /\ AllSound'
  <2>1. PICK r \in State : Goto(p, r) /\ Sound(p, r, schema)
    BY <1>4, RetriedMoves DEF NoDatabase, LockTimeout
  <2> QED
    BY <1>0, <1>4, <2>1, Moved DEF NoDatabase, LockTimeout, bounds, TypeOK
<1>5. ASSUME NEW p \in Procs, Lock(p) PROVE TypeOK' /\ AllSound'
  <2>1. PICK r : r = [proc[p] EXCEPT !.pc = "create"]
    OBVIOUS
  <2>2. r \in State /\ r.seen = proc[p].seen /\ r.step = proc[p].step /\ r.pc = "create"
    BY <1>0, <2>1 DEF State, States
  <2>3. Sound(p, r, schema)
    BY <1>5, <2>2 DEF Sound, AllSound, Lock
  <2> QED
    BY <1>0, <1>5, <2>1, <2>2, <2>3, Moved DEF Lock, Uncommitted, bounds, TypeOK
<1>6. ASSUME NEW p \in Procs, Create(p) PROVE TypeOK' /\ AllSound'
  <2>1. proc[p].step \in 1..7 /\ proc[p].pc = "create"
    BY <1>0, <1>6 DEF State, Last, Create
  <2>2. CASE ~ Refused(p)
    <3>1. schema' = schema \cup Creates(proc[p].step, proc[p].seen) /\ Onward(p)
      BY <1>6, <2>2 DEF Create
    <3>2. PICK r \in State : Goto(p, r) /\ Sound(p, r, schema')
      <4>1. p \in Starters => /\ Behind(proc[p].step + 1) \subseteq schema'
                              /\ proc[p].step = Last => Complete \subseteq schema'
        BY <2>1, <2>2, <3>1, CreateLeaves
      <4> QED
        BY <2>1, <3>1, <4>1, OnwardMoves
    <3>3. schema \subseteq schema' /\ schema' \subseteq Complete
      BY <1>0, <2>1, <3>1, CreatesComplete
    <3> QED
      BY <1>6, <3>2, <3>3, Moved DEF Create, bounds, TypeOK
  <2>3. CASE Refused(p) /\ ~ Tolerates(p)
    <3>1. schema' = schema /\ Goto(p, Down)
      BY <1>6, <2>3 DEF Create, Dies
    <3> QED
      BY <1>0, <1>6, <3>1, DownIsSound, Moved DEF Create, bounds, TypeOK
  <2>4. CASE Refused(p) /\ Tolerates(p)
    <3>1. schema' = schema /\ Onward(p) /\ proc[p].step \in {1, 2}
      BY <1>6, <2>4 DEF Create, Tolerates
    <3>2. Behind(proc[p].step + 1) = {} /\ proc[p].step # Last
      BY <3>1 DEF Behind, Last
    <3>3. PICK r \in State : Goto(p, r) /\ Sound(p, r, schema)
      BY <2>1, <3>1, <3>2, OnwardMoves
    <3> QED
      BY <1>0, <1>6, <3>1, <3>3, Moved DEF Create, bounds, TypeOK
  <2> QED
    BY <2>2, <2>3, <2>4
<1>7. ASSUME NEW p \in Procs, Restart(p) PROVE TypeOK' /\ AllSound'
  <2>1. restarts' \in 0..MaxRestarts
    BY <1>7, BoundsAssumption DEF Restart, TypeOK
  <2>2. Goto(p, Down)
    BY <1>7 DEF Restart, Dies
  <2> QED
    BY <1>0, <1>7, <2>1, <2>2, DownIsSound, Moved DEF Restart, TypeOK
<1>8. CASE Read \/ Answer \/ RequestTimeout \/ ComeUp
  <2>1. /\ schema' = schema /\ proc' = proc /\ outages' = outages /\ restarts' = restarts
        /\ up' \in BOOLEAN /\ request' \in {"idle", "saved"}
    BY <1>8 DEF Read, Answer, RequestTimeout, ComeUp, bounds, TypeOK
  <2>2. reads' \in 0..MaxReads
    BY <1>8, BoundsAssumption DEF Read, Answer, RequestTimeout, ComeUp, bounds, TypeOK
  <2> QED
    BY <2>1, <2>2 DEF TypeOK, AllSound
<1>9. CASE GoDown
  <2>1. ASSUME NEW p \in Procs PROVE Cut(p) \in State /\ Sound(p, Cut(p), schema)
    <3>1. CASE ~ InTransaction(p)
      BY <1>0, <3>1 DEF Cut, AllSound
    <3>2. CASE InTransaction(p) /\ (p \in Jobs \/ proc[p].tries = Retries - 1)
      BY <3>2, DownIsSound DEF Cut
    <3>3. CASE InTransaction(p) /\ ~ (p \in Jobs \/ proc[p].tries = Retries - 1)
      <4>1. PICK t : t = proc[p].tries + 1
        OBVIOUS
      <4>2. proc[p].tries \in 0..Retries - 1
        BY DEF TypeOK
      <4>3. t \in 0..Retries - 1
        BY <3>3, <4>1, <4>2, BoundTypes
      <4>4. Cut(p) = [Down EXCEPT !.pc = "sleep", !.tries = t]
        BY <3>3, <4>1 DEF Cut
      <4>5. /\ Cut(p) \in State /\ Cut(p).seen = {} /\ Cut(p).step = 1
            /\ Cut(p).pc = "sleep"
        BY <4>3, <4>4, Asleep
      <4> QED
        BY <3>3, <4>5 DEF Sound, Behind
    <3> QED
      BY <3>1, <3>2, <3>3
  <2>2. proc' \in [Procs -> State] /\ \A p \in Procs : proc'[p] = Cut(p)
    BY <1>9, <2>1 DEF GoDown
  <2>3. outages' \in 0..MaxOutages
    BY <1>9, BoundsAssumption DEF GoDown, TypeOK
  <2>4. TypeOK'
    BY <1>9, <2>2, <2>3 DEF GoDown, TypeOK, State
  <2>5. AllSound'
    BY <1>9, <2>1, <2>2 DEF GoDown, AllSound
  <2> QED
    BY <2>4, <2>5
<1>10. CASE UNCHANGED vars
  BY <1>10 DEF vars, bounds, TypeOK, AllSound
<1> QED
  BY <1>1, <1>2, <1>3, <1>4, <1>5, <1>6, <1>7, <1>8, <1>9, <1>10 DEF Next, Step

(* Who serves has the whole schema, whatever the other processes, the      *)
(* outages and the requests did to its bootstrap.                          *)
THEOREM WhoServesHasAll == Spec => []ServesComplete
<1>1. Init => TypeOK /\ AllSound
  <2> SUFFICES ASSUME Init PROVE TypeOK /\ AllSound
    OBVIOUS
  <2>1. \A p \in Procs : proc[p] = Down /\ Down \in State /\ Sound(p, Down, schema)
    BY DownIsSound DEF Init
  <2>2. proc \in [Procs -> State]
    BY <2>1 DEF Init
  <2>3. schema \subseteq Complete
    BY DEF Init, Complete, Extensions
  <2> QED
    BY <2>1, <2>2, <2>3, BoundsAssumption DEF Init, TypeOK, State, AllSound
<1>2. TypeOK /\ AllSound => ServesComplete
  BY DEF TypeOK, AllSound, Sound, ServesComplete, Procs
<1> QED
  BY <1>1, <1>2, StepSound, PTL DEF Spec
=============================================================================
