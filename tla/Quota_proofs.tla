---------------------------- MODULE Quota_proofs ----------------------------
(***************************************************************************)
(* Quota for any limiters, limits, labels, periods and finite number of    *)
(* calls.  The verdicts are right because each call of a period read a     *)
(* number of its own off the counter (Numbered) and because the counter is *)
(* never ahead of the times its calls raised it (Backed).                  *)
(***************************************************************************)
EXTENDS Quota, FiniteSetTheorems, TLAPS

Counters == [Limiters -> [Periods -> [used: Nat, ttl: BOOLEAN]]]

LEMMA CallSets ==
    ASSUME NEW l, NEW P, NEW S
    PROVE  /\ IsFiniteSet(Of(l, P, S)) /\ Cardinality(Of(l, P, S)) \in Nat
           /\ Of(l, P, S) \subseteq Calls
<1>1. Of(l, P, S) \in SUBSET Calls
  BY DEF Of
<1> QED
  BY <1>1, CallsAssumption, FS_Subset, FS_CardinalityType

(* The counter a call is about.                                            *)
LEMMA CallKey ==
    ASSUME TypeOK, NEW c \in Calls, NEW l, l = call[c].limiter, NEW p, p = call[c].period,
           NEW k, k = Label[l][p]
    PROVE  /\ l \in Limiters /\ p \in Periods /\ k \in Periods /\ Limit[l] \in Nat \ {0}
           /\ p \in Labelled(l, k)
           /\ \A j \in Periods : p \in Labelled(l, j) <=> j = k
BY LimitAssumption, LabelAssumption DEF TypeOK, Call, Periods, Labelled

(* What a step does to the one call it is about.                           *)
LEMMA CallMoves ==
    ASSUME TypeOK, NEW c \in Calls, NEW pc \in Phases, Goto(c, pc)
    PROVE  /\ call' \in [Calls -> Call] /\ call'[c].pc = pc
           /\ call'[c].limiter = call[c].limiter /\ call'[c].period = call[c].period
           /\ call'[c].used = call[c].used /\ call'[c].raised = call[c].raised
           /\ \A d \in Calls : d # c => call'[d] = call[d]
<1>1. call[c] \in Call /\ call' = [call EXCEPT ![c] = [call[c] EXCEPT !.pc = pc]]
  BY DEF TypeOK, Goto
<1>2. PICK r : r = [call[c] EXCEPT !.pc = pc]
  OBVIOUS
<1>3. /\ r \in Call /\ r.pc = pc /\ r.limiter = call[c].limiter
      /\ r.period = call[c].period /\ r.used = call[c].used /\ r.raised = call[c].raised
  BY <1>1, <1>2 DEF Call
<1> QED
  BY <1>1, <1>2, <1>3 DEF TypeOK

LEMMA BeginMoves ==
    ASSUME TypeOK, NEW c \in Calls, Begin(c)
    PROVE  /\ call' \in [Calls -> Call] /\ call'[c].pc = "count"
           /\ call'[c].limiter = call[c].limiter /\ call'[c].period = clock
           /\ call'[c].raised = call[c].raised
           /\ \A d \in Calls : d # c => call'[d] = call[d]
<1>1. PICK r : r = [call[c] EXCEPT !.pc = "count", !.period = clock]
  OBVIOUS
<1>2. /\ r \in Call /\ r.pc = "count" /\ r.limiter = call[c].limiter /\ r.period = clock
      /\ r.raised = call[c].raised
  BY <1>1 DEF TypeOK, Call, Phases
<1>3. call' = [call EXCEPT ![c] = r]
  BY <1>1 DEF Begin, TypeOK
<1> QED
  BY <1>2, <1>3 DEF TypeOK

LEMMA RaiseMoves ==
    ASSUME TypeOK, NEW l \in Limiters, NEW k \in Periods, Raise(l, k)
    PROVE  /\ counter' \in Counters
           /\ counter'[l][k].used = counter[l][k].used + 1
           /\ counter'[l][k].ttl = counter[l][k].ttl
           /\ \A m \in Limiters, q \in Periods :
                  <<m, q>> # <<l, k>> => counter'[m][q] = counter[m][q]
<1>1. counter[l][k] \in [used: Nat, ttl: BOOLEAN]
  BY DEF TypeOK
<1>2. PICK x : x = [counter[l][k] EXCEPT !.used = counter[l][k].used + 1]
  OBVIOUS
<1>3. /\ x \in [used: Nat, ttl: BOOLEAN] /\ x.used = counter[l][k].used + 1
      /\ x.ttl = counter[l][k].ttl
  BY <1>1, <1>2
<1>4. counter' = [counter EXCEPT ![l] = [counter[l] EXCEPT ![k] = x]]
  BY <1>2 DEF Raise, TypeOK
<1> QED
  BY <1>3, <1>4 DEF TypeOK, Counters

LEMMA ExpiresMoves ==
    ASSUME TypeOK, NEW l \in Limiters, NEW k \in Periods, Expires(l, k)
    PROVE  /\ counter' \in Counters
           /\ counter'[l][k].ttl \/ counter'[l][k].used = 0
           /\ \A m \in Limiters, q \in Periods : counter'[m][q].used = counter[m][q].used
           /\ \A m \in Limiters, q \in Periods :
                  <<m, q>> # <<l, k>> => counter'[m][q] = counter[m][q]
<1>1. counter[l][k] \in [used: Nat, ttl: BOOLEAN]
  BY DEF TypeOK
<1>2. PICK x : x = [counter[l][k] EXCEPT !.ttl = counter[l][k].ttl \/ counter[l][k].used > 0]
  OBVIOUS
<1>3. x \in [used: Nat, ttl: BOOLEAN] /\ x.used = counter[l][k].used
  BY <1>1, <1>2
<1>4. x.ttl \/ x.used = 0
  <2>1. x.ttl = (counter[l][k].ttl \/ counter[l][k].used > 0)
    BY <1>1, <1>2
  <2>2. counter[l][k].used > 0 \/ counter[l][k].used = 0
    BY <1>1
  <2> QED
    BY <1>3, <2>1, <2>2
<1>5. counter' = [counter EXCEPT ![l] = [counter[l] EXCEPT ![k] = x]]
  BY <1>2 DEF Expires, TypeOK
<1>6. /\ counter' \in Counters /\ counter'[l][k] = x
      /\ \A m \in Limiters, q \in Periods :
             <<m, q>> # <<l, k>> => counter'[m][q] = counter[m][q]
  BY <1>3, <1>5 DEF TypeOK, Counters
<1> QED
  BY <1>3, <1>4, <1>6

(* INCR gives the call the next number of its counter.                     *)
LEMMA IncrMoves ==
    ASSUME TypeOK, NEW c \in Calls, Incr(c),
           NEW l, l = call[c].limiter, NEW p, p = call[c].period, NEW k, k = Label[l][p],
           NEW n, n = counter[l][k].used + 1
    PROVE  /\ n \in Nat /\ n > 0 /\ call[c].pc = "count" /\ UNCHANGED clock
           /\ call' \in [Calls -> Call] /\ call'[c].used = n
           /\ call'[c].raised = call[c].raised + 1
           /\ call'[c].limiter = l /\ call'[c].period = p
           /\ call'[c].pc = IF n = 1 THEN "expire"
                            ELSE IF n <= Limit[l] THEN "counted" ELSE "refused"
           /\ \A d \in Calls : d # c => call'[d] = call[d]
           /\ Raise(l, k)
<1>1. l \in Limiters /\ k \in Periods /\ call[c].pc = "count" /\ UNCHANGED clock
  BY CallKey DEF Incr
<1>2. counter[l][k] \in [used: Nat, ttl: BOOLEAN] /\ n \in Nat /\ n > 0
  BY <1>1 DEF TypeOK
<1>3. PICK v : v = IF n = 1 THEN "expire" ELSE IF n <= Limit[l] THEN "counted" ELSE "refused"
  OBVIOUS
<1> PICK i \in Nat : i = call[c].raised + 1
  BY DEF TypeOK, Call
<1>4. PICK r : r = [call[c] EXCEPT !.used = n, !.raised = i, !.pc = v]
  OBVIOUS
<1>5. /\ r \in Call /\ r.pc = v /\ r.used = n /\ r.limiter = l /\ r.period = p
      /\ r.raised = i
  <2>1. call[c] \in Call /\ v \in Phases
    BY <1>3 DEF TypeOK, Phases
  <2> QED
    BY <1>2, <1>4, <2>1 DEF Call
<1>6. call' = [call EXCEPT ![c] = r] /\ Raise(l, k)
  BY <1>3, <1>4 DEF Incr, Key, FirstHit, Verdict, Within, TypeOK
<1>7. /\ call' \in [Calls -> Call] /\ call'[c] = r
      /\ \A d \in Calls : d # c => call'[d] = call[d]
  BY <1>5, <1>6 DEF TypeOK
<1> QED
  BY <1>1, <1>2, <1>3, <1>5, <1>6, <1>7

LEMMA ResendMoves ==
    ASSUME TypeOK, NEW c \in Calls, Resend(c),
           NEW l, l = call[c].limiter, NEW p, p = call[c].period, NEW k, k = Label[l][p]
    PROVE  /\ call[c].pc = "count" /\ call'[c].pc = "count" /\ UNCHANGED clock
           /\ call[c].raised < MaxResends /\ call'[c].raised = call[c].raised + 1
           /\ call' \in [Calls -> Call] /\ call'[c].limiter = l /\ call'[c].period = p
           /\ \A d \in Calls : d # c => call'[d] = call[d]
           /\ Raise(l, k)
<1> PICK i \in Nat : i = call[c].raised + 1
  BY DEF TypeOK, Call
<1>1. PICK r : r = [call[c] EXCEPT !.raised = i]
  OBVIOUS
<1>2. r \in Call /\ r.pc = call[c].pc /\ r.limiter = l /\ r.period = p /\ r.raised = i
  <2>1. call[c] \in Call
    BY DEF TypeOK
  <2> QED
    BY <1>1, <2>1 DEF Call
<1>3. call' = [call EXCEPT ![c] = r]
  BY <1>1 DEF Resend, TypeOK
<1>4. /\ call' \in [Calls -> Call] /\ call'[c] = r
      /\ \A d \in Calls : d # c => call'[d] = call[d]
  BY <1>2, <1>3 DEF TypeOK
<1> QED
  BY <1>2, <1>4 DEF Resend, Key

LEMMA ExpiryMoves ==
    ASSUME TypeOK, NEW c \in Calls, SetExpiry(c),
           NEW l, l = call[c].limiter, NEW p, p = call[c].period, NEW k, k = Label[l][p]
    PROVE  /\ call[c].pc = "expire" /\ UNCHANGED clock
           /\ call' \in [Calls -> Call]
           /\ call'[c].limiter = l /\ call'[c].period = p /\ call'[c].used = call[c].used
           /\ call'[c].raised = call[c].raised
           /\ call'[c].pc = IF call[c].used <= Limit[l] THEN "counted" ELSE "refused"
           /\ \A d \in Calls : d # c => call'[d] = call[d]
           /\ Expires(l, k)
<1>1. Verdict(c, call[c].used) \in Phases /\ Goto(c, Verdict(c, call[c].used))
  BY DEF Verdict, Phases, SetExpiry
<1> QED
  BY <1>1, CallMoves DEF SetExpiry, Key, Verdict, Within

LEMMA FailMoves ==
    ASSUME TypeOK, NEW c \in Calls, RedisFails(c),
           NEW l, l = call[c].limiter, NEW p, p = call[c].period, NEW k, k = Label[l][p]
    PROVE  /\ call' \in [Calls -> Call] /\ call'[c].pc = "free" /\ UNCHANGED clock
           /\ call'[c].limiter = l /\ call'[c].period = p
           /\ \A d \in Calls : d # c => call'[d] = call[d]
           /\ \/ /\ call[c].pc \in {"count", "expire"}
                 /\ call'[c].raised = call[c].raised /\ UNCHANGED counter
              \/ /\ call[c].pc = "count"
                 /\ call'[c].raised = call[c].raised + 1 /\ Raise(l, k)
              \/ /\ call[c].pc = "expire"
                 /\ call'[c].raised = call[c].raised /\ Expires(l, k)
<1> PICK i \in Nat : i = call[c].raised + 1
  BY DEF TypeOK, Call
<1>1. CASE /\ Goto(c, "free")
           /\ \/ call[c].pc \in {"count", "expire"} /\ UNCHANGED counter
              \/ call[c].pc = "expire" /\ Expires(l, k)
  BY <1>1, CallMoves DEF RedisFails, Phases
<1>2. CASE /\ call[c].pc = "count"
           /\ call' = [call EXCEPT ![c].pc = "free", ![c].raised = @ + 1]
           /\ Raise(l, Key(l, p))
  <2>1. PICK r : r = [call[c] EXCEPT !.pc = "free", !.raised = i]
    OBVIOUS
  <2>2. r \in Call /\ r.pc = "free" /\ r.limiter = l /\ r.period = p /\ r.raised = i
    <3>1. call[c] \in Call
      BY DEF TypeOK
    <3> QED
      BY <2>1, <3>1 DEF Call, Phases
  <2>3. call' = [call EXCEPT ![c] = r]
    BY <1>2, <2>1 DEF TypeOK
  <2>4. /\ call' \in [Calls -> Call] /\ call'[c] = r
        /\ \A d \in Calls : d # c => call'[d] = call[d]
    BY <2>2, <2>3 DEF TypeOK
  <2> QED
    BY <1>2, <2>2, <2>4 DEF RedisFails, Key
<1> QED
  BY <1>1, <1>2 DEF RedisFails, Key

LEMMA GoneMoves ==
    ASSUME TypeOK, NEW l \in Limiters, NEW k \in Periods, Gone(l, k)
    PROVE  /\ counter' \in Counters
           /\ counter'[l][k].used = 0
           /\ \A m \in Limiters, q \in Periods :
                  <<m, q>> # <<l, k>> => counter'[m][q] = counter[m][q]
BY DEF TypeOK, Gone, NoCounter, Counters

LEMMA InitType == Init => TypeOK
<1> SUFFICES ASSUME Init PROVE TypeOK
  OBVIOUS
<1>1. 0 \in Periods
  BY LimitAssumption DEF Periods
<1>2. [pc: {"unborn"}, limiter: Limiters, period: {0}, used: {0}, raised: {0}] \subseteq Call
  BY <1>1 DEF Call, Phases
<1>3. call \in [Calls -> Call]
  BY <1>2 DEF Init
<1>4. counter \in [Limiters -> [Periods -> [used: Nat, ttl: BOOLEAN]]]
  BY DEF Init, NoCounter
<1> QED
  BY <1>1, <1>3, <1>4 DEF Init, TypeOK

LEMMA StepType == TypeOK /\ [Next]_vars => TypeOK'
<1> SUFFICES ASSUME TypeOK, [Next]_vars PROVE TypeOK'
  OBVIOUS
<1>1. ASSUME NEW c \in Calls, Begin(c) PROVE TypeOK'
  BY <1>1, BeginMoves DEF Begin, TypeOK
<1>2. ASSUME NEW c \in Calls, Incr(c) PROVE TypeOK'
  BY <1>2, IncrMoves, CallKey, RaiseMoves DEF TypeOK, Counters
<1>3. ASSUME NEW c \in Calls, Resend(c) PROVE TypeOK'
  BY <1>3, ResendMoves, CallKey, RaiseMoves DEF TypeOK, Counters
<1>4. ASSUME NEW c \in Calls, SetExpiry(c) PROVE TypeOK'
  BY <1>4, ExpiryMoves, CallKey, ExpiresMoves DEF TypeOK, Counters
<1>5. ASSUME NEW c \in Calls, RedisFails(c) PROVE TypeOK'
  BY <1>5, FailMoves, CallKey, RaiseMoves, ExpiresMoves DEF TypeOK, Counters
<1>6. ASSUME NEW c \in Calls, Crash(c) PROVE TypeOK'
  BY <1>6, CallMoves DEF Crash, TypeOK, Phases
<1>7. ASSUME NEW l \in Limiters, NEW k \in Periods, Gone(l, k) PROVE TypeOK'
  BY <1>7, GoneMoves DEF Gone, TypeOK, Counters
<1>8. CASE Tick
  BY <1>8, LimitAssumption DEF Tick, TypeOK, Periods
<1>9. CASE UNCHANGED vars
  BY <1>9 DEF vars, TypeOK
<1> QED
  BY <1>1, <1>2, <1>3, <1>4, <1>5, <1>6, <1>7, <1>8, <1>9 DEF Next

LEMMA UsedIsNat ==
    ASSUME TypeOK, NEW l \in Limiters, NEW k \in Periods
    PROVE  counter[l][k].used \in Nat /\ counter[l][k].used <= counter[l][k].used
BY DEF TypeOK

(* A call raised nothing before it began and can raise once more while it  *)
(* counts; whoever is about to set an expiry made the counter.             *)
Underway ==
    \A c \in Calls :
        /\ call[c].period <= clock
        /\ call[c].pc = "unborn" => call[c].raised = 0
        /\ call[c].pc = "count" => call[c].raised <= MaxResends
        /\ call[c].pc = "expire" => call[c].used = 1

LEMMA InitUnderway == Init => Underway
BY DEF Init, Underway

LEMMA StepUnderway == TypeOK /\ Underway /\ [Next]_vars => Underway'
<1> SUFFICES ASSUME TypeOK, Underway, [Next]_vars PROVE Underway'
  OBVIOUS
<1>0. clock \in Nat /\ \A c \in Calls : call[c].period \in Nat /\ call[c].raised \in Nat
  BY DEF TypeOK, Call, Periods
<1>1. ASSUME NEW c \in Calls, Begin(c) PROVE Underway'
  <2>1. /\ UNCHANGED clock /\ call[c].raised = 0
        /\ call'[c].pc = "count" /\ call'[c].period = clock /\ call'[c].raised = 0
        /\ \A d \in Calls : d # c => call'[d] = call[d]
    BY <1>1, BeginMoves DEF Begin, Underway
  <2> SUFFICES ASSUME NEW d \in Calls
               PROVE  /\ call'[d].period <= clock'
                      /\ call'[d].pc = "unborn" => call'[d].raised = 0
                      /\ call'[d].pc = "count" => call'[d].raised <= MaxResends
                      /\ call'[d].pc = "expire" => call'[d].used = 1
    BY DEF Underway
  <2>2. CASE d = c
    BY <1>0, <2>1, <2>2, ResendsAssumption
  <2>3. CASE d # c
    BY <2>1, <2>3 DEF Underway
  <2> QED
    BY <2>2, <2>3
<1>2. ASSUME NEW c \in Calls, Incr(c) PROVE Underway'
  BY <1>0, <1>2, IncrMoves DEF Underway
<1>3. ASSUME NEW c \in Calls, Resend(c) PROVE Underway'
  BY <1>0, <1>3, ResendsAssumption, ResendMoves DEF Underway
<1>4. ASSUME NEW c \in Calls, SetExpiry(c) PROVE Underway'
  BY <1>4, ExpiryMoves DEF Underway
<1>5. ASSUME NEW c \in Calls, RedisFails(c) PROVE Underway'
  BY <1>5, FailMoves DEF Underway
<1>6. ASSUME NEW c \in Calls, Crash(c) PROVE Underway'
  BY <1>6, CallMoves DEF Crash, Phases, Underway
<1>7. CASE Tick \/ UNCHANGED vars \/ \E l \in Limiters, k \in Periods : Gone(l, k)
  <2>1. UNCHANGED call /\ (clock' = clock \/ clock' = clock + 1)
    BY <1>7 DEF Tick, vars, Gone
  <2>2. \A c \in Calls : call[c].period <= clock'
    BY <1>0, <2>1 DEF Underway
  <2> QED
    BY <2>1, <2>2 DEF Underway
<1> QED
  BY <1>1, <1>2, <1>3, <1>4, <1>5, <1>6, <1>7 DEF Next

----------------------------------------------------------------------------
(* Whose call it is that leaves a counter without an expiry.               *)
Culprit(c, l, k) ==
    call[c].limiter = l /\ call[c].period \in Labelled(l, k) /\ Unfinished(c)
Leak(l, k) ==
    counter[l][k].used > 0 /\ ~ counter[l][k].ttl => \E c \in Calls : Culprit(c, l, k)

LEMMA LeaksAreTheseLeaks == LeaksOnlyByFailure <=> \A l \in Limiters, k \in Periods : Leak(l, k)
BY DEF LeaksOnlyByFailure, Leak, Culprit

(* Culprits stay, and a counter whose call is none after a step is none.   *)
LEMMA LeakKept ==
    ASSUME NEW l \in Limiters, NEW k \in Periods, Leak(l, k), NEW c \in Calls,
           \A d \in Calls : d # c => call'[d] = call[d],
           Culprit(c, l, k) => Culprit(c, l, k)',
           \/ Culprit(c, l, k)' \/ counter'[l][k] = counter[l][k]
           \/ counter[l][k].used > 0 /\ counter'[l][k].ttl = counter[l][k].ttl
           \/ counter'[l][k].ttl \/ counter'[l][k].used = 0
    PROVE  Leak(l, k)'
<1>1. \A d \in Calls : Culprit(d, l, k) => Culprit(d, l, k)'
  BY DEF Culprit, Unfinished, Labelled
<1> QED
  BY <1>1 DEF Leak

LEMMA StepLeaks ==
    TypeOK /\ Underway /\ LeaksOnlyByFailure /\ [Next]_vars => LeaksOnlyByFailure'
<1> SUFFICES ASSUME TypeOK, Underway, \A l \in Limiters, k \in Periods : Leak(l, k), [Next]_vars,
                    NEW m \in Limiters, NEW q \in Periods
             PROVE  Leak(m, q)'
  BY LeaksAreTheseLeaks DEF LeaksOnlyByFailure, Leak, Culprit, Unfinished, Labelled
<1>0. Leak(m, q) /\ \A c \in Calls : call[c] \in Call
  BY DEF TypeOK
<1>1. ASSUME NEW c \in Calls, Begin(c) PROVE Leak(m, q)'
  <2>1. ~ Culprit(c, m, q)
    BY <1>1 DEF Begin, Culprit, Unfinished, Underway
  <2> QED
    BY <1>0, <1>1, <2>1, BeginMoves, LeakKept DEF Begin
<1>2. ASSUME NEW c \in Calls, Incr(c) PROVE Leak(m, q)'
  <2>1. PICK l, p : l = call[c].limiter /\ p = call[c].period
    OBVIOUS
  <2>2. PICK k : k = Label[l][p]
    OBVIOUS
  <2>3. PICK n : n = counter[l][k].used + 1
    OBVIOUS
  <2>4. l \in Limiters /\ k \in Periods /\ counter[l][k].used \in Nat
    BY <2>1, <2>2, CallKey, UsedIsNat
  <2>5. /\ call[c].pc = "count" /\ call'[c].raised = call[c].raised + 1
        /\ call'[c].limiter = l /\ call'[c].period = p
        /\ n = 1 => call'[c].pc = "expire"
        /\ \A d \in Calls : d # c => call'[d] = call[d]
        /\ Raise(l, k)
    BY <1>2, <2>1, <2>2, <2>3, IncrMoves
  <2>6. call[c].raised \in Nat
    BY <1>0 DEF Call
  <2>7. Culprit(c, m, q) => Culprit(c, m, q)'
    BY <2>1, <2>5, <2>6 DEF Culprit, Unfinished, Labelled
  <2>8. CASE <<m, q>> # <<l, k>>
    <3>1. counter'[m][q] = counter[m][q]
      BY <2>4, <2>5, <2>8, RaiseMoves
    <3> QED
      BY <1>0, <2>5, <2>7, <3>1, LeakKept
  <2>9. CASE <<m, q>> = <<l, k>> /\ n = 1
    <3>1. p \in Labelled(l, k)
      BY <2>1, <2>2, CallKey
    <3>2. Culprit(c, m, q)'
      BY <2>5, <2>6, <2>9, <3>1 DEF Culprit, Unfinished, Labelled
    <3> QED
      BY <1>0, <2>5, <3>2, LeakKept
  <2>10. CASE <<m, q>> = <<l, k>> /\ n # 1
    <3>1. counter[m][q].used > 0 /\ counter'[m][q].ttl = counter[m][q].ttl
      BY <2>3, <2>4, <2>5, <2>10, RaiseMoves
    <3> QED
      BY <1>0, <2>5, <2>7, <3>1, LeakKept
  <2> QED
    BY <2>8, <2>9, <2>10
<1>3. ASSUME NEW c \in Calls, Resend(c) \/ RedisFails(c) PROVE Leak(m, q)'
  <2>1. PICK l, p : l = call[c].limiter /\ p = call[c].period
    OBVIOUS
  <2>2. PICK k : k = Label[l][p]
    OBVIOUS
  <2>3. l \in Limiters /\ k \in Periods /\ p \in Labelled(l, k) /\ call[c].raised \in Nat
    BY <1>0, <2>1, <2>2, CallKey DEF Call
  <2>4. /\ call[c].pc \in {"count", "expire"} /\ call'[c].pc \in {"count", "free"}
        /\ call'[c].limiter = l /\ call'[c].period = p
        /\ \A d \in Calls : d # c => call'[d] = call[d]
        /\ \/ call'[c].raised = call[c].raised /\ UNCHANGED counter
           \/ call'[c].raised = call[c].raised + 1 /\ Raise(l, k)
           \/ call'[c].raised = call[c].raised /\ Expires(l, k)
    BY <1>3, <2>1, <2>2, ResendMoves, FailMoves
  <2>5. Culprit(c, m, q) => Culprit(c, m, q)'
    BY <2>1, <2>3, <2>4 DEF Culprit, Unfinished, Labelled
  <2>6. CASE UNCHANGED counter
    BY <1>0, <2>4, <2>5, <2>6, LeakKept
  <2>7. CASE call'[c].raised = call[c].raised + 1 /\ Raise(l, k)
    <3>1. CASE <<m, q>> # <<l, k>>
      <4>1. counter'[m][q] = counter[m][q]
        BY <2>3, <2>7, <3>1, RaiseMoves
      <4> QED
        BY <1>0, <2>4, <2>5, <4>1, LeakKept
    <3>2. CASE <<m, q>> = <<l, k>>
      <4>1. Culprit(c, m, q)'
        BY <2>3, <2>4, <2>7, <3>2 DEF Culprit, Unfinished, Labelled
      <4> QED
        BY <1>0, <2>4, <4>1, LeakKept
    <3> QED
      BY <3>1, <3>2
  <2>8. CASE Expires(l, k)
    <3>1. \/ counter'[m][q] = counter[m][q]
          \/ counter'[m][q].ttl \/ counter'[m][q].used = 0
      BY <2>3, <2>8, ExpiresMoves
    <3> QED
      BY <1>0, <2>4, <2>5, <3>1, LeakKept
  <2> QED
    BY <2>4, <2>6, <2>7, <2>8
<1>4. ASSUME NEW c \in Calls, SetExpiry(c) PROVE Leak(m, q)'
  <2>1. PICK l, p : l = call[c].limiter /\ p = call[c].period
    OBVIOUS
  <2>2. PICK k : k = Label[l][p]
    OBVIOUS
  <2>3. /\ call[c].pc = "expire" /\ call'[c].limiter = l /\ call'[c].period = p
        /\ call'[c].raised = call[c].raised
        /\ \A d \in Calls : d # c => call'[d] = call[d]
        /\ Expires(l, k)
    BY <1>4, <2>1, <2>2, ExpiryMoves
  <2>4. l \in Limiters /\ k \in Periods
    BY <2>1, <2>2, CallKey
  <2>5. CASE <<m, q>> = <<l, k>>
    <3>1. counter'[m][q].ttl \/ counter'[m][q].used = 0
      BY <2>3, <2>4, <2>5, ExpiresMoves
    <3> QED
      BY <3>1 DEF Leak
  <2>6. CASE <<m, q>> # <<l, k>>
    <3>1. counter'[m][q] = counter[m][q]
      BY <2>3, <2>4, <2>6, ExpiresMoves
    <3>2. ~ Culprit(c, m, q)
      BY <2>1, <2>2, <2>6, CallKey DEF Culprit
    <3> QED
      BY <1>0, <2>3, <3>1, <3>2, LeakKept
  <2> QED
    BY <2>5, <2>6
<1>5. ASSUME NEW c \in Calls, Crash(c) PROVE Leak(m, q)'
  <2>1. /\ call'[c].pc = "dead" /\ call'[c].limiter = call[c].limiter
        /\ call'[c].period = call[c].period /\ call'[c].raised = call[c].raised
        /\ \A d \in Calls : d # c => call'[d] = call[d]
        /\ UNCHANGED counter
    BY <1>5, CallMoves DEF Crash, Phases
  <2>2. Culprit(c, m, q) => Culprit(c, m, q)'
    BY <2>1 DEF Culprit, Unfinished, Labelled
  <2> QED
    BY <1>0, <2>1, <2>2, LeakKept
<1>6. ASSUME NEW l \in Limiters, NEW k \in Periods, Gone(l, k) PROVE Leak(m, q)'
  <2>1. UNCHANGED call
    BY <1>6 DEF Gone
  <2>2. counter'[m][q].used = 0 \/ counter'[m][q] = counter[m][q]
    BY <1>6, GoneMoves
  <2> QED
    BY <1>0, <2>1, <2>2 DEF Leak, Culprit, Unfinished, Labelled
<1>7. CASE Tick \/ UNCHANGED vars
  BY <1>0, <1>7 DEF Tick, vars, Leak, Culprit, Unfinished, Labelled
<1> QED
  BY <1>1, <1>2, <1>3, <1>4, <1>5, <1>6, <1>7 DEF Next

(* A counter without an expiry belongs to a call that is not done with it, *)
(* that Redis or its process failed, or that raised it twice: no other     *)
(* order of calls leaves one.                                              *)
THEOREM OnlyFailuresLeak == Spec => []LeaksOnlyByFailure
<1>1. Init => LeaksOnlyByFailure
  BY DEF Init, LeaksOnlyByFailure, NoCounter
<1> QED
  BY <1>1, InitType, StepType, InitUnderway, StepUnderway, StepLeaks, PTL DEF Spec

----------------------------------------------------------------------------
(* While a period lasts, its counter has not expired: each call of it has  *)
(* a number of its own.                                                    *)
Takers == {"expire", "counted"}
Distinct(l, p) ==
    /\ \A c \in Of(l, {p}, Takers) :
           /\ 0 < call[c].used /\ call[c].used <= counter[l][Label[l][p]].used
           /\ call[c].pc = "counted" => call[c].used <= Limit[l]
    /\ \A c, d \in Of(l, {p}, Takers) : c # d => call[c].used # call[d].used
Numbered == \A l \in Limiters : <<l, clock>> \notin Early => Distinct(l, clock)

(* A call of this counter that was none of the takers stays none, or goes. *)
LEMMA DistinctKept ==
    ASSUME TypeOK, TypeOK', NEW l \in Limiters, NEW p \in Periods, Distinct(l, p),
           counter[l][Label[l][p]].used <= counter'[l][Label[l][p]].used,
           \A c \in Of(l, {p}, Takers)' :
               c \in Of(l, {p}, Takers) /\ call'[c].used = call[c].used,
           \A c \in Of(l, {p}, Takers)' : call'[c].pc = "counted" =>
               call[c].pc = "counted" \/ call[c].used <= Limit[l]
    PROVE  Distinct(l, p)'
<1>1. PICK k \in Periods : k = Label[l][p]
  BY LabelAssumption DEF Periods
<1>2. counter[l][k].used \in Nat /\ counter'[l][k].used \in Nat
  BY DEF TypeOK
<1>3. \A c \in Of(l, {p}, Takers) : call[c].used \in Nat
  BY DEF Of, TypeOK, Call
<1>4. ASSUME NEW c \in Of(l, {p}, Takers)'
      PROVE  /\ 0 < call'[c].used /\ call'[c].used <= counter'[l][k].used
             /\ call'[c].pc = "counted" => call'[c].used <= Limit[l]
  <2>1. c \in Of(l, {p}, Takers) /\ call'[c].used = call[c].used
    OBVIOUS
  <2>2. /\ 0 < call[c].used /\ call[c].used <= counter[l][k].used
        /\ call[c].pc = "counted" => call[c].used <= Limit[l]
    BY <1>1, <2>1 DEF Distinct
  <2>3. call'[c].pc = "counted" => call[c].used <= Limit[l]
    BY <2>2
  <2>4. counter[l][k].used <= counter'[l][k].used /\ call[c].used \in Nat
    BY <1>1, <1>3, <2>1
  <2>5. call[c].used <= counter'[l][k].used
    BY <1>2, <2>2, <2>4
  <2> QED
    BY <2>1, <2>2, <2>3, <2>5
<1>5. \A c, d \in Of(l, {p}, Takers)' : c # d => call'[c].used # call'[d].used
  BY DEF Distinct
<1> QED
  BY <1>1, <1>4, <1>5 DEF Distinct

(* A raise takes nothing from a counter, of whatever key.                  *)
LEMMA RaiseAdds ==
    ASSUME TypeOK, NEW l \in Limiters, NEW k \in Periods, Raise(l, k),
           NEW m \in Limiters, NEW j \in Periods
    PROVE  counter[m][j].used <= counter'[m][j].used
BY RaiseMoves, UsedIsNat

LEMMA StepNumbered ==
    ASSUME TypeOK, TypeOK', Underway, Numbered, [Next]_vars
    PROVE  Numbered'
<1> SUFFICES ASSUME NEW m \in Limiters, <<m, clock'>> \notin Early PROVE Distinct(m, clock)'
  BY DEF Numbered
<1>0. PICK q \in Periods : q = clock'
  BY DEF TypeOK
<1> SUFFICES Distinct(m, q)'
  BY <1>0 DEF Distinct, Of
<1>a. PICK j \in Periods : j = Label[m][q]
  BY LabelAssumption DEF Periods
<1>b. UNCHANGED clock => Distinct(m, q)
  BY <1>0 DEF Numbered
<1>1. ASSUME NEW c \in Calls, Begin(c) PROVE Distinct(m, q)'
  <2>1. call[c].pc \notin Takers /\ call'[c].pc \notin Takers
    BY <1>1, BeginMoves DEF Begin, Takers
  <2>2. /\ UNCHANGED <<clock, counter>>
        /\ \A d \in Calls : d # c => call'[d] = call[d]
    BY <1>1, BeginMoves DEF Begin
  <2>3. \A d \in Of(m, {q}, Takers)' : d # c /\ d \in Of(m, {q}, Takers) /\ call'[d] = call[d]
    BY <2>1, <2>2 DEF Of
  <2> QED
    BY <1>a, <1>b, <2>2, <2>3, UsedIsNat, DistinctKept
<1>2. ASSUME NEW c \in Calls, Incr(c) PROVE Distinct(m, q)'
  <2>1. PICK l, p : l = call[c].limiter /\ p = call[c].period
    OBVIOUS
  <2>2. PICK k : k = Label[l][p]
    OBVIOUS
  <2>3. PICK n : n = counter[l][k].used + 1
    OBVIOUS
  <2>4. /\ UNCHANGED clock /\ call[c].pc = "count"
        /\ call'[c].limiter = l /\ call'[c].period = p /\ call'[c].used = n
        /\ call'[c].pc = IF n = 1 THEN "expire" ELSE IF n <= Limit[l] THEN "counted" ELSE "refused"
        /\ \A d \in Calls : d # c => call'[d] = call[d]
        /\ Raise(l, k)
    BY <1>2, <2>1, <2>2, <2>3, IncrMoves
  <2>5. l \in Limiters /\ k \in Periods /\ Distinct(m, q) /\ Limit[l] \in Nat \ {0}
    BY <1>b, <2>1, <2>2, <2>4, CallKey
  <2>6. CASE <<m, q>> # <<l, p>>
    <3>1. \A d \in Of(m, {q}, Takers)' : d \in Of(m, {q}, Takers) /\ call'[d] = call[d]
      BY <2>1, <2>4, <2>6 DEF Of
    <3>2. counter[m][j].used <= counter'[m][j].used
      BY <2>4, <2>5, RaiseAdds
    <3> QED
      BY <1>a, <2>5, <3>1, <3>2, DistinctKept
  <2>7. CASE <<m, q>> = <<l, p>>
    <3>1. counter[m][j].used \in Nat /\ counter'[m][j].used = counter[m][j].used + 1 /\ k = j
      BY <1>a, <2>2, <2>4, <2>5, <2>7, RaiseMoves, UsedIsNat
    <3>2. call'[c].used = counter[m][j].used + 1
      BY <2>3, <2>4, <2>7, <3>1
    <3>3. call'[c].pc = "counted" => call'[c].used <= Limit[m]
      BY <2>4, <2>7
    <3>4. \A d \in Of(m, {q}, Takers)' : d # c => d \in Of(m, {q}, Takers) /\ call'[d] = call[d]
      BY <2>4 DEF Of
    <3>5. ASSUME NEW d \in Of(m, {q}, Takers)'
          PROVE  /\ 0 < call'[d].used /\ call'[d].used <= counter'[m][j].used
                 /\ call'[d].pc = "counted" => call'[d].used <= Limit[m]
                 /\ d # c => call'[d].used < call'[c].used
      <4>1. CASE d = c
        BY <3>1, <3>2, <3>3, <4>1
      <4>2. CASE d # c
        <5>1. d \in Of(m, {q}, Takers) /\ call'[d] = call[d] /\ call[d].used \in Nat
          BY <3>4, <3>5, <4>2 DEF Of, TypeOK, Call
        <5>2. /\ 0 < call[d].used /\ call[d].used <= counter[m][j].used
              /\ call[d].pc = "counted" => call[d].used <= Limit[m]
          BY <1>a, <2>5, <5>1 DEF Distinct
        <5> QED
          BY <3>1, <3>2, <5>1, <5>2
      <4> QED
        BY <4>1, <4>2
    <3>6. ASSUME NEW d \in Of(m, {q}, Takers)', NEW e \in Of(m, {q}, Takers)', d # e
          PROVE  call'[d].used # call'[e].used
      <4>1. CASE d # c /\ e # c
        BY <2>5, <3>4, <3>6, <4>1 DEF Distinct
      <4>2. CASE d = c \/ e = c
        <5>1. call'[c].used \in Nat /\ call'[d].used \in Nat /\ call'[e].used \in Nat
          BY DEF TypeOK, Call, Of
        <5> QED
          BY <3>5, <3>6, <4>2, <5>1
      <4> QED
        BY <4>1, <4>2
    <3> QED
      BY <1>a, <3>5, <3>6 DEF Distinct
  <2> QED
    BY <2>6, <2>7
<1>3. ASSUME NEW c \in Calls, SetExpiry(c) PROVE Distinct(m, q)'
  <2>1. PICK l, p : l = call[c].limiter /\ p = call[c].period
    OBVIOUS
  <2>2. PICK k : k = Label[l][p]
    OBVIOUS
  <2>3. /\ UNCHANGED clock /\ call[c].pc = "expire" /\ call'[c].used = call[c].used
        /\ call'[c].limiter = l /\ call'[c].period = p
        /\ call'[c].pc = IF call[c].used <= Limit[l] THEN "counted" ELSE "refused"
        /\ \A d \in Calls : d # c => call'[d] = call[d]
        /\ Expires(l, k)
    BY <1>3, <2>1, <2>2, ExpiryMoves
  <2>4. counter[m][j].used <= counter'[m][j].used
    BY <2>1, <2>2, <2>3, CallKey, ExpiresMoves, UsedIsNat
  <2>5. \A d \in Of(m, {q}, Takers)' :
            d \in Of(m, {q}, Takers) /\ call'[d].used = call[d].used
    BY <2>1, <2>3 DEF Of, Takers
  <2>6. \A d \in Of(m, {q}, Takers)' : call'[d].pc = "counted" =>
            call[d].pc = "counted" \/ call[d].used <= Limit[m]
    BY <2>1, <2>3 DEF Of
  <2> QED
    BY <1>a, <1>b, <2>3, <2>4, <2>5, <2>6, DistinctKept
<1>4. ASSUME NEW c \in Calls, Resend(c) \/ RedisFails(c) PROVE Distinct(m, q)'
  <2>1. PICK l, p : l = call[c].limiter /\ p = call[c].period
    OBVIOUS
  <2>2. PICK k : k = Label[l][p]
    OBVIOUS
  <2>3. /\ UNCHANGED clock /\ call'[c].pc \in {"count", "free"}
        /\ \A d \in Calls : d # c => call'[d] = call[d]
        /\ UNCHANGED counter \/ Raise(l, k) \/ Expires(l, k)
    BY <1>4, <2>1, <2>2, ResendMoves, FailMoves
  <2>4. l \in Limiters /\ k \in Periods
    BY <2>1, <2>2, CallKey
  <2>5. counter[m][j].used <= counter'[m][j].used
    BY <2>3, <2>4, RaiseAdds, ExpiresMoves, UsedIsNat
  <2>6. \A d \in Of(m, {q}, Takers)' : d \in Of(m, {q}, Takers) /\ call'[d] = call[d]
    BY <2>3 DEF Of, Takers
  <2> QED
    BY <1>a, <1>b, <2>3, <2>5, <2>6, DistinctKept
<1>5. ASSUME NEW c \in Calls, Crash(c) PROVE Distinct(m, q)'
  <2>1. /\ UNCHANGED <<clock, counter>> /\ call'[c].pc = "dead"
        /\ \A d \in Calls : d # c => call'[d] = call[d]
    BY <1>5, CallMoves DEF Crash, Phases
  <2>2. \A d \in Of(m, {q}, Takers)' : d \in Of(m, {q}, Takers) /\ call'[d] = call[d]
    BY <2>1 DEF Of, Takers
  <2> QED
    BY <1>a, <1>b, <2>1, <2>2, UsedIsNat, DistinctKept
<1>6. ASSUME NEW l \in Limiters, NEW k \in Periods, Gone(l, k) PROVE Distinct(m, q)'
  <2>1. UNCHANGED <<clock, call>>
    BY <1>6 DEF Gone
  <2>2. <<m, j>> # <<l, k>>
    BY <1>0, <1>a, <1>6, <2>1 DEF Gone
  <2>3. counter'[m][j] = counter[m][j]
    BY <1>6, <2>2, GoneMoves
  <2> QED
    BY <1>a, <1>b, <2>1, <2>3 DEF Distinct, Of
<1>7. CASE Tick
  <2>1. clock \in Nat /\ q = clock + 1 /\ UNCHANGED <<counter, call>>
    BY <1>0, <1>7 DEF Tick, TypeOK, Periods
  <2>2. \A c \in Calls : call[c].period # q
    BY <2>1 DEF Underway, TypeOK, Call, Periods
  <2>3. Of(m, {q}, Takers)' = {}
    BY <2>1, <2>2 DEF Of
  <2> QED
    BY <2>3 DEF Distinct
<1>8. CASE UNCHANGED vars
  BY <1>b, <1>8 DEF vars, Distinct, Of
<1> QED
  BY <1>1, <1>2, <1>3, <1>4, <1>5, <1>6, <1>7, <1>8 DEF Next

(* While a period lasts, no more calls than the limit are counted as       *)
(* allowed, whatever the order of their commands, but on the day the       *)
(* clocks go back.                                                         *)
THEOREM AtMostTheLimit == Spec => []Bounded
<1>1. ASSUME TypeOK, Numbered PROVE Bounded
  <2> SUFFICES ASSUME NEW l \in Limiters, <<l, clock>> \notin Early
               PROVE  Cardinality(Of(l, {clock}, {"counted"})) <= Limit[l]
    BY DEF Bounded
  <2>1. Limit[l] \in Nat /\ Distinct(l, clock)
    BY <1>1, LimitAssumption DEF Numbered
  <2>2. PICK C : C = Of(l, {clock}, {"counted"})
    OBVIOUS
  <2>3. \A c \in C : c \in Of(l, {clock}, Takers) /\ call[c].pc = "counted" /\ call[c].used \in Nat
    BY <1>1, <2>2 DEF Of, Takers, TypeOK, Call
  <2>4. PICK f : f = [c \in C |-> call[c].used]
    OBVIOUS
  <2>5. f \in [C -> 1..Limit[l]]
    <3>1. \A c \in C : 0 < call[c].used /\ call[c].used <= Limit[l]
      BY <2>1, <2>3 DEF Distinct
    <3>2. \A c \in C : call[c].used \in 1..Limit[l]
      BY <2>1, <2>3, <3>1
    <3> QED
      BY <2>4, <3>2
  <2>6. \A c, d \in C : c # d => f[c] # f[d]
    BY <2>1, <2>3, <2>4 DEF Distinct
  <2>7. f \in Injection(C, 1..Limit[l])
    BY <2>5, <2>6 DEF Injection, IsInjective
  <2>8. IsFiniteSet(1..Limit[l]) /\ Cardinality(1..Limit[l]) = Limit[l]
    <3>1. PICK n \in Nat : n = Limit[l]
      BY <2>1
    <3>2. IsFiniteSet(1..n) /\ Cardinality(1..n) = IF 1 > n THEN 0 ELSE n - 1 + 1
      BY FS_Interval
    <3> QED
      BY <3>1, <3>2
  <2>9. Cardinality(C) <= Limit[l]
    BY <2>7, <2>8, FS_Injection
  <2> QED
    BY <2>2, <2>9
<1>2. Init => Numbered
  BY DEF Init, Numbered, Distinct, Of, Takers
<1> QED
  BY <1>1, <1>2, InitType, StepType, InitUnderway, StepUnderway, StepNumbered, PTL DEF Spec

----------------------------------------------------------------------------
(* A counter is never ahead of the times its calls raised it, and whoever  *)
(* was refused found it beyond the limit.                                  *)
Backed(l, k) ==
    /\ counter[l][k].used <= Cardinality(Hits(l, k))
    /\ Of(l, Labelled(l, k), {"refused"}) # {} => Cardinality(Hits(l, k)) > Limit[l]
AllBacked == \A l \in Limiters, k \in Periods : Backed(l, k)

LEMMA HitSets ==
    ASSUME NEW l, NEW k, NEW T, T \subseteq Calls \X (1..MaxResends + 1)
    PROVE  IsFiniteSet(T) /\ Cardinality(T) \in Nat
<1>1. IsFiniteSet(1..MaxResends + 1)
  BY ResendsAssumption, FS_Interval
<1>2. IsFiniteSet(Calls \X (1..MaxResends + 1))
  BY <1>1, CallsAssumption, FS_Product
<1> QED
  BY <1>2, FS_Subset, FS_CardinalityType

(* What a call that goes on, or begins, has raised is not forgotten.       *)
LEMMA HitsGrow ==
    ASSUME TypeOK, TypeOK', NEW c \in Calls, \A d \in Calls : d # c => call'[d] = call[d],
           call'[c].limiter = call[c].limiter, call[c].raised <= call'[c].raised,
           call'[c].period = call[c].period \/ call[c].raised = 0,
           NEW l, NEW k
    PROVE  Hits(l, k) \subseteq Hits(l, k)'
<1> SUFFICES ASSUME NEW h \in Hits(l, k) PROVE h \in Hits(l, k)'
  OBVIOUS
<1>1. PICK d \in Calls, i \in 1..MaxResends + 1 :
          /\ h = <<d, i>> /\ call[d].limiter = l /\ call[d].period \in Labelled(l, k)
          /\ i <= call[d].raised
  BY DEF Hits
<1>2. call[d].raised \in Nat /\ call'[d].raised \in Nat /\ i \in Nat /\ i > 0
  BY ResendsAssumption DEF TypeOK, Call
<1>3. call'[d].limiter = l /\ call'[d].period \in Labelled(l, k) /\ i <= call'[d].raised
  BY <1>1, <1>2
<1> QED
  BY <1>1, <1>3 DEF Hits, Labelled

LEMMA NewHit ==
    ASSUME TypeOK, NEW c \in Calls, call[c].raised <= MaxResends,
           call'[c].raised = call[c].raised + 1,
           NEW l, l = call[c].limiter, call'[c].limiter = l,
           NEW p, p = call[c].period, call'[c].period = p, NEW k, p \in Labelled(l, k)
    PROVE  \E h \in Hits(l, k)' : h \notin Hits(l, k)
<1>1. PICK i : i = call[c].raised + 1
  OBVIOUS
<1>2. i \in 1..MaxResends + 1 /\ i <= call'[c].raised /\ ~ i <= call[c].raised
  BY <1>1, ResendsAssumption DEF TypeOK, Call
<1>3. <<c, i>> \in Hits(l, k)' /\ <<c, i>> \notin Hits(l, k)
  BY <1>2 DEF Hits, Labelled
<1> QED
  BY <1>3

LEMMA BackedKept ==
    ASSUME TypeOK, TypeOK', NEW l \in Limiters, NEW k \in Periods, Backed(l, k),
           Hits(l, k) \subseteq Hits(l, k)',
           \/ counter'[l][k].used <= counter[l][k].used
           \/ /\ counter'[l][k].used = counter[l][k].used + 1
              /\ \E h \in Hits(l, k)' : h \notin Hits(l, k),
           \/ Of(l, Labelled(l, k), {"refused"})' \subseteq Of(l, Labelled(l, k), {"refused"})
           \/ counter'[l][k].used > Limit[l]
    PROVE  Backed(l, k)'
<1>1. PICK S, T : S = Hits(l, k) /\ T = Hits(l, k)'
  OBVIOUS
<1>2. T \subseteq Calls \X (1..MaxResends + 1)
  BY <1>1 DEF Hits
<1>3. IsFiniteSet(S) /\ Cardinality(S) \in Nat /\ IsFiniteSet(T) /\ Cardinality(T) \in Nat
  <2>1. S \subseteq Calls \X (1..MaxResends + 1)
    BY <1>1, <1>2
  <2> QED
    BY <1>2, <2>1, HitSets
<1>4. Cardinality(S) <= Cardinality(T)
  BY <1>1, <1>3, FS_Subset
<1>5. Limit[l] \in Nat /\ counter[l][k].used \in Nat /\ counter'[l][k].used \in Nat
  BY LimitAssumption DEF TypeOK
<1>6. counter[l][k].used <= Cardinality(S)
  BY <1>1 DEF Backed
<1>7. counter'[l][k].used <= Cardinality(T)
  <2>1. CASE counter'[l][k].used <= counter[l][k].used
    BY <1>3, <1>4, <1>5, <1>6, <2>1
  <2>2. CASE /\ counter'[l][k].used = counter[l][k].used + 1
             /\ \E h \in T : h \notin S
    <3>1. PICK h \in T : h \notin S
      BY <2>2
    <3>2. IsFiniteSet(S \cup {h}) /\ Cardinality(S \cup {h}) = Cardinality(S) + 1
      BY <1>3, <3>1, FS_AddElement
    <3>3. S \cup {h} \subseteq T
      BY <1>1, <3>1
    <3>4. Cardinality(S \cup {h}) <= Cardinality(T)
      BY <1>3, <3>3, FS_Subset
    <3> QED
      BY <1>3, <1>5, <1>6, <2>2, <3>2, <3>4
  <2> QED
    BY <1>1, <2>1, <2>2
<1>8. ASSUME Of(l, Labelled(l, k), {"refused"})' # {} PROVE Cardinality(T) > Limit[l]
  <2>1. CASE counter'[l][k].used > Limit[l]
    BY <1>3, <1>5, <1>7, <2>1
  <2>2. CASE Of(l, Labelled(l, k), {"refused"}) # {}
    <3>1. Cardinality(S) > Limit[l]
      BY <1>1, <2>2 DEF Backed
    <3> QED
      BY <1>3, <1>4, <1>5, <3>1
  <2> QED
    BY <1>8, <2>1, <2>2
<1>9. Cardinality(Hits(l, k))' = Cardinality(T)
  BY <1>1
<1> QED
  BY <1>7, <1>8, <1>9 DEF Backed

LEMMA NoneRefused ==
    ASSUME NEW c \in Calls, \A d \in Calls : d # c => call'[d] = call[d],
           call'[c].pc # "refused", NEW m, NEW q
    PROVE  Of(m, Labelled(m, q), {"refused"})' \subseteq Of(m, Labelled(m, q), {"refused"})
BY DEF Of, Labelled

LEMMA StepBacked ==
    ASSUME TypeOK, TypeOK', Underway, AllBacked, [Next]_vars
    PROVE  AllBacked'
<1> SUFFICES ASSUME NEW m \in Limiters, NEW q \in Periods PROVE Backed(m, q)'
  BY DEF AllBacked
<1>0. Backed(m, q) /\ \A c \in Calls : call[c].raised \in Nat
  BY DEF AllBacked, TypeOK, Call
<1>1. ASSUME NEW c \in Calls, Begin(c) PROVE Backed(m, q)'
  <2>1. /\ call'[c].pc = "count" /\ UNCHANGED counter
        /\ call'[c].limiter = call[c].limiter
        /\ call[c].raised = 0 /\ call'[c].raised = 0
        /\ \A d \in Calls : d # c => call'[d] = call[d]
    BY <1>1, BeginMoves DEF Begin, Underway
  <2>2. Hits(m, q) \subseteq Hits(m, q)'
    BY <2>1, HitsGrow
  <2>3. Of(m, Labelled(m, q), {"refused"})' \subseteq Of(m, Labelled(m, q), {"refused"})
    BY <2>1, NoneRefused
  <2> QED
    BY <1>0, <2>1, <2>2, <2>3, UsedIsNat, BackedKept
<1>2. ASSUME NEW c \in Calls, Incr(c) PROVE Backed(m, q)'
  <2>1. PICK l, p : l = call[c].limiter /\ p = call[c].period
    OBVIOUS
  <2>2. PICK k : k = Label[l][p]
    OBVIOUS
  <2>3. PICK n : n = counter[l][k].used + 1
    OBVIOUS
  <2>4. /\ call[c].pc = "count" /\ \A d \in Calls : d # c => call'[d] = call[d]
        /\ call'[c].limiter = l /\ call'[c].period = p
        /\ call'[c].raised = call[c].raised + 1
        /\ call'[c].pc = IF n = 1 THEN "expire" ELSE IF n <= Limit[l] THEN "counted" ELSE "refused"
        /\ Raise(l, k)
    BY <1>2, <2>1, <2>2, <2>3, IncrMoves
  <2>5. /\ l \in Limiters /\ k \in Periods /\ Limit[l] \in Nat \ {0}
        /\ p \in Labelled(l, k) /\ (p \in Labelled(l, q) <=> q = k)
    BY <2>1, <2>2, CallKey
  <2>6. Hits(m, q) \subseteq Hits(m, q)'
    BY <1>0, <2>1, <2>4, HitsGrow
  <2>7. CASE <<m, q>> # <<l, k>>
    <3>1. counter'[m][q] = counter[m][q]
      BY <2>4, <2>5, <2>7, RaiseMoves
    <3>2. Of(m, Labelled(m, q), {"refused"})' \subseteq Of(m, Labelled(m, q), {"refused"})
      BY <2>4, <2>5, <2>7 DEF Of, Labelled
    <3> QED
      BY <1>0, <2>6, <3>1, <3>2, UsedIsNat, BackedKept
  <2>8. CASE <<m, q>> = <<l, k>>
    <3>1. counter'[m][q].used = counter[m][q].used + 1 /\ counter[m][q].used \in Nat
      BY <2>4, <2>5, <2>8, RaiseMoves, UsedIsNat
    <3>2. \E h \in Hits(m, q)' : h \notin Hits(m, q)
      <4>1. call[c].raised <= MaxResends
        BY <2>4 DEF Underway
      <4> QED
        BY <2>1, <2>4, <2>5, <2>8, <4>1, NewHit
    <3>3. call'[c].pc # "refused" \/ counter'[m][q].used > Limit[m]
      BY <2>3, <2>4, <2>5, <2>8, <3>1
    <3>4. \/ Of(m, Labelled(m, q), {"refused"})' \subseteq Of(m, Labelled(m, q), {"refused"})
          \/ counter'[m][q].used > Limit[m]
      BY <2>4, <3>3, NoneRefused
    <3> QED
      BY <1>0, <2>6, <3>1, <3>2, <3>4, BackedKept
  <2> QED
    BY <2>7, <2>8
<1>3. ASSUME NEW c \in Calls, Resend(c) \/ RedisFails(c) PROVE Backed(m, q)'
  <2>1. PICK l, p : l = call[c].limiter /\ p = call[c].period
    OBVIOUS
  <2>2. PICK k : k = Label[l][p]
    OBVIOUS
  <2>3. /\ call'[c].pc # "refused" /\ call'[c].limiter = l /\ call'[c].period = p
        /\ \A d \in Calls : d # c => call'[d] = call[d]
        /\ \/ call'[c].raised = call[c].raised /\ (UNCHANGED counter \/ Expires(l, k))
           \/ call[c].pc = "count" /\ call'[c].raised = call[c].raised + 1 /\ Raise(l, k)
    BY <1>3, <2>1, <2>2, ResendMoves, FailMoves
  <2>4. l \in Limiters /\ k \in Periods /\ p \in Labelled(l, k)
    BY <2>1, <2>2, CallKey
  <2>5. Hits(m, q) \subseteq Hits(m, q)'
    BY <1>0, <2>1, <2>3, HitsGrow
  <2>6. Of(m, Labelled(m, q), {"refused"})' \subseteq Of(m, Labelled(m, q), {"refused"})
    BY <2>3, NoneRefused
  <2>7. \/ counter'[m][q].used <= counter[m][q].used
        \/ /\ counter'[m][q].used = counter[m][q].used + 1
           /\ \E h \in Hits(m, q)' : h \notin Hits(m, q)
    <3>1. CASE UNCHANGED counter \/ Expires(l, k)
      BY <2>4, <3>1, ExpiresMoves, UsedIsNat
    <3>2. CASE /\ call[c].pc = "count" /\ call'[c].raised = call[c].raised + 1
               /\ Raise(l, k) /\ <<m, q>> # <<l, k>>
      BY <2>4, <3>2, RaiseMoves, UsedIsNat
    <3>3. CASE /\ call[c].pc = "count" /\ call'[c].raised = call[c].raised + 1
               /\ Raise(l, k) /\ <<m, q>> = <<l, k>>
      <4>1. call[c].raised <= MaxResends
        BY <3>3 DEF Underway
      <4>2. \E h \in Hits(m, q)' : h \notin Hits(m, q)
        BY <2>1, <2>3, <2>4, <3>3, <4>1, NewHit
      <4> QED
        BY <2>4, <3>3, <4>2, RaiseMoves
    <3> QED
      BY <2>3, <3>1, <3>2, <3>3
  <2> QED
    BY <1>0, <2>5, <2>6, <2>7, BackedKept
<1>4. ASSUME NEW c \in Calls, SetExpiry(c) PROVE Backed(m, q)'
  <2>1. PICK l, p : l = call[c].limiter /\ p = call[c].period
    OBVIOUS
  <2>2. PICK k : k = Label[l][p]
    OBVIOUS
  <2>3. /\ call[c].pc = "expire" /\ call'[c].limiter = l /\ call'[c].period = p
        /\ call'[c].raised = call[c].raised
        /\ call'[c].pc = IF call[c].used <= Limit[l] THEN "counted" ELSE "refused"
        /\ \A d \in Calls : d # c => call'[d] = call[d]
        /\ Expires(l, k)
    BY <1>4, <2>1, <2>2, ExpiryMoves
  <2>4. l \in Limiters /\ k \in Periods /\ Limit[l] \in Nat \ {0}
    BY <2>1, <2>2, CallKey
  <2>5. call'[c].pc = "counted"
    BY <2>3, <2>4 DEF Underway
  <2>6. Hits(m, q) \subseteq Hits(m, q)'
    BY <1>0, <2>1, <2>3, HitsGrow
  <2>7. Of(m, Labelled(m, q), {"refused"})' \subseteq Of(m, Labelled(m, q), {"refused"})
    BY <2>3, <2>5, NoneRefused
  <2>8. counter'[m][q].used <= counter[m][q].used
    BY <2>3, <2>4, ExpiresMoves, UsedIsNat
  <2> QED
    BY <1>0, <2>6, <2>7, <2>8, BackedKept
<1>5. ASSUME NEW c \in Calls, Crash(c) PROVE Backed(m, q)'
  <2>1. /\ call'[c].pc = "dead" /\ UNCHANGED counter /\ call'[c].raised = call[c].raised
        /\ call'[c].limiter = call[c].limiter /\ call'[c].period = call[c].period
        /\ \A d \in Calls : d # c => call'[d] = call[d]
    BY <1>5, CallMoves DEF Crash, Phases
  <2>2. Hits(m, q) \subseteq Hits(m, q)'
    BY <1>0, <2>1, HitsGrow
  <2>3. Of(m, Labelled(m, q), {"refused"})' \subseteq Of(m, Labelled(m, q), {"refused"})
    BY <2>1, NoneRefused
  <2> QED
    BY <1>0, <2>1, <2>2, <2>3, UsedIsNat, BackedKept
<1>6. ASSUME NEW l \in Limiters, NEW k \in Periods, Gone(l, k) PROVE Backed(m, q)'
  <2>1. UNCHANGED call
    BY <1>6 DEF Gone
  <2>2. counter'[m][q].used <= counter[m][q].used
    BY <1>6, GoneMoves, UsedIsNat
  <2>3. /\ Hits(m, q)' = Hits(m, q)
        /\ Of(m, Labelled(m, q), {"refused"})' = Of(m, Labelled(m, q), {"refused"})
    BY <2>1 DEF Hits, Of, Labelled
  <2> QED
    BY <1>0, <2>2, <2>3, BackedKept
<1>7. CASE Tick \/ UNCHANGED vars
  BY <1>0, <1>7 DEF Tick, vars, Backed, Hits, Of, Labelled
<1> QED
  BY <1>1, <1>2, <1>3, <1>4, <1>5, <1>6, <1>7 DEF Next

(* A call is refused only after its counter was raised more often than the *)
(* limit by calls of periods written like its own, whatever failed and     *)
(* whatever an earlier period left behind.                                 *)
THEOREM RefusedOnlyAtTheLimit == Spec => []NoEarlyRefusal
<1>1. AllBacked => NoEarlyRefusal
  BY DEF AllBacked, Backed, NoEarlyRefusal
<1>2. Init => AllBacked
  <2> SUFFICES ASSUME Init, NEW l \in Limiters, NEW k \in Periods PROVE Backed(l, k)
    BY DEF AllBacked
  <2>1. Of(l, Labelled(l, k), {"refused"}) = {} /\ counter[l][k].used = 0
    BY DEF Init, Of, NoCounter
  <2>2. Cardinality(Hits(l, k)) \in Nat
    <3>1. Hits(l, k) \subseteq Calls \X (1..MaxResends + 1)
      BY DEF Hits
    <3> QED
      BY <3>1, HitSets
  <2> QED
    BY <2>1, <2>2 DEF Backed
<1> QED
  BY <1>1, <1>2, InitType, StepType, InitUnderway, StepUnderway, StepBacked, PTL DEF Spec
=============================================================================
