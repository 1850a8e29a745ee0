-------------------------------- MODULE Quota -------------------------------
(***************************************************************************)
(* The counters in Redis: backend/app/ratelimit.py.                        *)
(*                                                                         *)
(* A limiter keeps one counter per caller and period, a day of a search    *)
(* quota or a minute of sign-in attempts; the key is the period as it is   *)
(* written.  INCR and EXPIRE are two commands with other callers, the      *)
(* clock and a failure between them.  One caller is enough: keys of two    *)
(* never meet.                                                             *)
(***************************************************************************)
EXTENDS Naturals, FiniteSets

CONSTANTS
    Limiters,    \* check_search_quota and check_auth_rate
    Limit,       \* limiter -> calls it allows in a period
    Label,       \* limiter -> period -> the first period that is written like it
    Early,       \* <<limiter, period>> whose counter expires before the period ends
    MaxResends,  \* times the Redis client sends a command again when no answer came
    Calls,       \* calls made, each by a thread of its own
    LastPeriod   \* bound: periods 0..LastPeriod

ASSUME LimitAssumption == Limit \in [Limiters -> Nat \ {0}] /\ LastPeriod \in Nat
ASSUME LabelAssumption == Label \in [Limiters -> [0..LastPeriod -> 0..LastPeriod]]
ASSUME EarlyAssumption == Early \subseteq Limiters \X (0..LastPeriod)
ASSUME ResendsAssumption == MaxResends \in Nat
ASSUME CallsAssumption == IsFiniteSet(Calls)

VARIABLES
    clock,    \* the current period, by the clock in Warsaw
    counter,  \* limiter -> label -> the counter in Redis
    call      \* call -> what it is about, and how far it is

vars == <<clock, counter, call>>

Periods == 0..LastPeriod
NoCounter == [used |-> 0, ttl |-> FALSE]

(* A call ends "counted" or "refused" by the counter, "free" when Redis    *)
(* did not answer, or "dead" with its process; it may have raised its      *)
(* counter more than once.                                                 *)
Phases == {"unborn", "count", "expire", "counted", "refused", "free", "dead"}
Call == [pc: Phases, limiter: Limiters, period: Periods, used: Nat, raised: Nat]

Goto(c, pc) == call' = [call EXCEPT ![c].pc = pc]

Init ==
    /\ clock = 0
    /\ counter = [l \in Limiters |-> [p \in Periods |-> NoCounter]]
    /\ call \in [Calls -> [pc: {"unborn"}, limiter: Limiters, period: {0}, used: {0}, raised: {0}]]

(* The key is made with the time of now.                                   *)
Begin(c) ==
    /\ call[c].pc = "unborn"
    /\ call' = [call EXCEPT ![c].pc = "count", ![c].period = clock]
    /\ UNCHANGED <<clock, counter>>

OneKey(l, p) == 0
Key(l, p) == Label[l][p]
OneMore(c, used) == used <= Limit[call[c].limiter] + 1
Within(c, used) == used <= Limit[call[c].limiter]
Verdict(c, used) == IF Within(c, used) THEN "counted" ELSE "refused"

(* INCR takes effect once more.                                            *)
Raise(l, k) == counter' = [counter EXCEPT ![l][k].used = @ + 1]

(* INCR, and the verdict unless EXPIRE comes first.                        *)
SecondHit(used) == used = 2
FirstHit(used) == used = 1
Incr(c) ==
    LET l == call[c].limiter
        k == Key(l, call[c].period)
        used == counter[l][k].used + 1
    IN  /\ call[c].pc = "count"
        /\ Raise(l, k)
        /\ call' = [call EXCEPT ![c].used = used, ![c].raised = @ + 1,
                                ![c].pc = IF FirstHit(used) THEN "expire" ELSE Verdict(c, used)]
        /\ UNCHANGED clock

(* The connection is lost after INCR took effect: the client sends it anew.*)
Resend(c) ==
    /\ call[c].pc = "count" /\ call[c].raised < MaxResends
    /\ Raise(call[c].limiter, Key(call[c].limiter, call[c].period))
    /\ call' = [call EXCEPT ![c].raised = @ + 1]
    /\ UNCHANGED clock

(* EXPIRE of a key that is gone by now sets nothing.                       *)
Expires(l, k) == counter' = [counter EXCEPT ![l][k].ttl = @ \/ counter[l][k].used > 0]
SetExpiry(c) ==
    /\ call[c].pc = "expire"
    /\ Expires(call[c].limiter, Key(call[c].limiter, call[c].period))
    /\ Goto(c, Verdict(c, call[c].used))
    /\ UNCHANGED clock

(* A RedisError, before or after the command took effect: let through.     *)
RedisFails(c) ==
    LET l == call[c].limiter
        k == Key(l, call[c].period)
    IN  /\ \/ /\ call[c].pc \in {"count", "expire"}
              /\ Goto(c, "free") /\ UNCHANGED counter
           \/ /\ call[c].pc = "count"
              /\ call' = [call EXCEPT ![c].pc = "free", ![c].raised = @ + 1]
              /\ Raise(l, k)
           \/ /\ call[c].pc = "expire"
              /\ Goto(c, "free") /\ Expires(l, k)
        /\ UNCHANGED clock

(* The process dies between two commands.                                  *)
Crash(c) ==
    /\ call[c].pc \in {"count", "expire"}
    /\ Goto(c, "dead")
    /\ UNCHANGED <<clock, counter>>

(* A minute written like an earlier one begins an hour after it, the night *)
(* the clocks go back: calls of that one and its expiry, 60 s, are over.   *)
Over(l, k) ==
    /\ ~ counter[l][k].ttl
    /\ \A c \in Calls : call[c].limiter = l /\ Label[l][call[c].period] = k =>
           call[c].pc \notin {"count", "expire"}
Tick ==
    /\ clock < LastPeriod /\ clock' = clock + 1
    /\ \A l \in Limiters : Label[l][clock'] # clock' => Over(l, Label[l][clock'])
    /\ UNCHANGED <<counter, call>>

(* The seconds to midnight are taken off the clock on the wall: on the day *)
(* it is put back they run out an hour early.                              *)
Gone(l, k) ==
    /\ counter[l][k].ttl
    /\ Label[l][clock] # k \/ <<l, clock>> \in Early
    /\ counter' = [counter EXCEPT ![l][k] = NoCounter]
    /\ UNCHANGED <<clock, call>>

Next ==
    \/ \E c \in Calls :
           Begin(c) \/ Incr(c) \/ Resend(c) \/ SetExpiry(c) \/ RedisFails(c) \/ Crash(c)
    \/ \E l \in Limiters, k \in Periods : Gone(l, k)
    \/ Tick

Spec == Init /\ [][Next]_vars

----------------------------------------------------------------------------
(* Calls of a set of periods, and the periods that are written the same.   *)
Of(l, P, phases) ==
    {c \in Calls : call[c].pc \in phases /\ call[c].limiter = l /\ call[c].period \in P}
Labelled(l, k) == {p \in Periods : Label[l][p] = k}

(* The times calls raised a counter, or may not have finished with it.     *)
Hits(l, k) ==
    {h \in Calls \X (1..MaxResends + 1) :
        /\ call[h[1]].limiter = l /\ call[h[1]].period \in Labelled(l, k)
        /\ h[2] <= call[h[1]].raised}
Unfinished(c) ==
    /\ call[c].raised > 0
    /\ call[c].pc \in {"count", "expire", "free", "dead"} \/ call[c].raised > 1

TypeOK ==
    /\ clock \in Periods
    /\ counter \in [Limiters -> [Periods -> [used: Nat, ttl: BOOLEAN]]]
    /\ call \in [Calls -> Call]

(* While a period lasts, no more calls of it are counted as allowed than   *)
(* the limit, but on the day the clocks go back (ratelimit.py:19-35).      *)
Bounded ==
    \A l \in Limiters : <<l, clock>> \notin Early =>
        Cardinality(Of(l, {clock}, {"counted"})) <= Limit[l]

(* A call is refused only after its counter was raised more often than the *)
(* limit by calls of periods written like its own: whatever a call left    *)
(* behind, the next period starts from nothing (ratelimit.py:3-4, 27, 45). *)
NoEarlyRefusal ==
    \A l \in Limiters, k \in Periods : Of(l, Labelled(l, k), {"refused"}) # {} =>
        Cardinality(Hits(l, k)) > Limit[l]

(* A counter is without an expiry only while a call that raised it is not  *)
(* done with it, did not live to set one, or raised it twice: no later     *)
(* call sets it (ratelimit.py:29-31).                                      *)
LeaksOnlyByFailure ==
    \A l \in Limiters, k \in Periods :
        counter[l][k].used > 0 /\ ~ counter[l][k].ttl =>
            \E c \in Calls : /\ call[c].limiter = l /\ call[c].period \in Labelled(l, k)
                             /\ Unfinished(c)
=============================================================================
