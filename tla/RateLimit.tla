----------------------------- MODULE RateLimit ------------------------------
(***************************************************************************)
(* The rate limiter in front of the routes (core/rate_limit: rules.py,     *)
(* provider.py, middleware.py) over the two cache providers' counters      *)
(* (core/cache/memory.py, redis.py): fixed windows (CacheRateLimiter) and  *)
(* sliding windows (SlidingWindowRateLimiter), one rule.  The limiter and  *)
(* its rule are settings, chosen in the initial state, that never change.  *)
(*                                                                         *)
(* A counter is a cell <<key, bucket>>; the fixed window has one bucket.   *)
(* Nothing awaited by the memory provider suspends, so its check is one    *)
(* step; in Redis every command is one.                                    *)
(***************************************************************************)
EXTENDS Integers, Sequences, FiniteSets

CONSTANTS
  Requests,
  Identity,    \* the key a request is counted under; Null: no rule is
               \* registered, or the identity lacks a dimension of the rule
  Limiters,    \* the limiters there may be: provider ("memory" or "redis"), sliding
               \* (a SlidingWindowRateLimiter), and fail_closed, limit, window of its rule
  MaxTime,     \* bound of the clock
  MaxCalls,    \* bound: decisions
  Null

VARIABLES
  limiter,   \* the limiter; it never changes
  counters,  \* the cells
  now,
  calls,     \* each request
  log,       \* history: the decisions
  raced      \* history: in Redis a SET met a counter, or an INCRBY met none

rateVars == <<limiter, counters, now, calls, log, raced>>

Sliding == limiter.sliding
Limit == limiter.limit
Window == limiter.window
FailClosed == limiter.fail_closed

Keys == {Identity[r] : r \in Requests} \ {Null}
Cells == Keys \X ((-1) .. MaxTime)
Never == MaxTime + 2 * Window

Idle == [at |-> "idle"]

Init ==
  /\ limiter \in Limiters
  /\ counters = [c \in Cells |-> Null]
  /\ now = 0
  /\ calls = [r \in Requests |-> Idle]
  /\ log = <<>>
  /\ raced = FALSE

At(r, place) == calls[r].at = place
Notes(r, call) == calls' = [calls EXCEPT ![r] = call]

-----------------------------------------------------------------------------
(* The cache.                                                              *)

\* get of a counter; 0 where there is none or it expired.
Counted(c) == IF counters[c] # Null /\ counters[c].until > now THEN counters[c].count ELSE 0

\* Mutant: every increment starts the window again.
Incremented_Restarts(c, ttl) == [count |-> Counted(c) + 1, until |-> now + ttl]

\* incr: the ttl is the first increment's.
Incremented(c, ttl) ==
  IF Counted(c) > 0 THEN [counters[c] EXCEPT !.count = @ + 1] ELSE [count |-> 1, until |-> now + ttl]

-----------------------------------------------------------------------------
(* RateLimitRule.key_for, and the bucket and the weight of the sliding     *)
(* window, at the time the limiter reads its clock.                        *)

\* Mutant: the key leaves the identity out.
Charge_Shared(r) ==
  [cell |-> <<CHOOSE k \in Keys : TRUE, IF Sliding THEN now \div Window ELSE 0>>,
   elapsed |-> IF Sliding THEN now % Window ELSE 0,
   since |-> now]

Charge(r) ==
  [cell |-> <<Identity[r], IF Sliding THEN now \div Window ELSE 0>>,
   elapsed |-> IF Sliding THEN now % Window ELSE 0,
   since |-> now]

Previous(cell) == <<cell[1], cell[2] - 1>>

\* Mutant: a counter of the sliding window lives one window.
CounterTtl_One == Window

\* ttl_seconds of the counters.
CounterTtl == IF Sliding THEN 2 * Window ELSE Window

\* math.ceil(previous_count * previous_weight), weight = (window - elapsed) / window.
Weighted(previous, elapsed) == (previous * (Window - elapsed) + Window - 1) \div Window

Decision(r, since, reason, allowed, until) ==
  Append(log, [key |-> Identity[r], since |-> since, at |-> now, reason |-> reason,
               allowed |-> allowed, until |-> until])

\* The decision on the count of an increment.
Decides(r, charge, previous, counter) ==
  LET allowed == counter.count + (IF Sliding THEN Weighted(previous, charge.elapsed) ELSE 0) <= Limit
  IN log' = Decision(r, charge.since, IF allowed THEN "allowed" ELSE "limit_exceeded",
                     allowed, counter.until)

\* Mutant: an unreachable cache never denies.
_cache_failure_decision_Open(r) == log' = Decision(r, calls[r].charge.since, "cache_unavailable", TRUE, 0)

_cache_failure_decision(r) ==
  log' = Decision(r, calls[r].charge.since, "cache_unavailable", ~FailClosed, 0)

-----------------------------------------------------------------------------
(* RateLimitMiddleware.dispatch and check.                                 *)

\* call_next without a check.
Passes(r) ==
  /\ At(r, "idle") /\ Identity[r] = Null /\ Len(log) < MaxCalls
  /\ log' = Decision(r, now, "unlimited", TRUE, 0)
  /\ UNCHANGED <<counters, now, calls, raced>>

\* The memory provider.
check_memory(r) ==
  /\ limiter.provider = "memory" /\ Identity[r] # Null /\ Len(log) < MaxCalls
  /\ LET charge == Charge(r)
         counter == Incremented(charge.cell, CounterTtl)
     IN /\ counters' = [counters EXCEPT ![charge.cell] = counter]
        /\ Decides(r, charge, Counted(Previous(charge.cell)), counter)
  /\ UNCHANGED <<now, calls, raced>>

\* The Redis provider: the clock is read, then the previous bucket.
Starts(r) ==
  /\ limiter.provider = "redis" /\ At(r, "idle") /\ Identity[r] # Null /\ Len(log) < MaxCalls
  /\ Notes(r, [at |-> IF Sliding THEN "clock" ELSE "get", charge |-> Charge(r), previous |-> 0])
  /\ UNCHANGED <<counters, now, log, raced>>

GetsPrevious(r) ==
  /\ At(r, "clock")
  /\ Notes(r, [calls[r] EXCEPT !.at = "get", !.previous = Counted(Previous(calls[r].charge.cell))])
  /\ UNCHANGED <<counters, now, log, raced>>

\* incr of redis.py: GET, then SET EX or INCRBY.
Gets(r) ==
  /\ At(r, "get")
  /\ Notes(r, [calls[r] EXCEPT !.at = IF Counted(calls[r].charge.cell) = 0 THEN "set" ELSE "incrby"])
  /\ UNCHANGED <<counters, now, log, raced>>

\* The answer to the last command, or its loss.
Concludes(r, counter) ==
  /\ counters' = [counters EXCEPT ![calls[r].charge.cell] = counter]
  /\ \/ Decides(r, calls[r].charge, calls[r].previous, counter)
     \/ _cache_failure_decision(r)
  /\ Notes(r, Idle)
  /\ UNCHANGED now

Sets(r) ==
  /\ At(r, "set") /\ Len(log) < MaxCalls
  /\ Concludes(r, [count |-> 1, until |-> now + CounterTtl])
  /\ raced' = (raced \/ Counted(calls[r].charge.cell) > 0)

\* INCRBY keeps the ttl, and makes a permanent key of none.
Incrby(r) ==
  /\ At(r, "incrby") /\ Len(log) < MaxCalls
  /\ Concludes(r, Incremented(calls[r].charge.cell, Never))
  /\ raced' = (raced \/ Counted(calls[r].charge.cell) = 0)

\* The command was not carried out.
CacheFails(r) ==
  /\ calls[r].at \in {"clock", "get", "set", "incrby"} /\ Len(log) < MaxCalls
  /\ _cache_failure_decision(r)
  /\ Notes(r, Idle)
  /\ UNCHANGED <<counters, now, raced>>

Tick == now < MaxTime /\ now' = now + 1 /\ UNCHANGED <<counters, calls, log, raced>>

RequestStep(r) ==
  \/ Passes(r) \/ check_memory(r) \/ Starts(r) \/ GetsPrevious(r) \/ Gets(r)
  \/ Sets(r) \/ Incrby(r) \/ CacheFails(r)

Next == UNCHANGED limiter /\ (Tick \/ \E r \in Requests : RequestStep(r))

Spec == Init /\ [][Next]_rateVars

-----------------------------------------------------------------------------
(* Decisions of the log, by their place in it: what passed for a key with   *)
(* one counter of it or within a window from t on; and up to the i-th, what *)
(* passed for its key in a bucket, the calls of its key in the buckets or   *)
(* the window it was counted in, and its calls from t on.                   *)
PassedUntil(k, u) == {j \in DOMAIN log : log[j].key = k /\ log[j].allowed /\ log[j].until = u}
PassedFrom(k, t) ==
  {j \in DOMAIN log : log[j].key = k /\ log[j].allowed /\ log[j].at \in t .. t + Window - 1}
PassedInBucket(i, b) ==
  {j \in 1 .. i : log[j].key = log[i].key /\ log[j].allowed /\ log[j].at \div Window = b}
CallsBefore(i) ==
  {j \in 1 .. i : log[j].key = log[i].key /\ log[j].at > log[i].since - (2 * Window)}
CallsSince(i, t) == {j \in 1 .. i : log[j].key = log[i].key /\ log[j].at >= t}

(* A rule that fails closed lets no key pass more often than it says: per  *)
(* lifetime of a counter Limit times, so twice that in any window (the     *)
(* fullest ones start with a request let pass); or, in sliding windows,    *)
(* whenever a request is let pass what passed in its bucket and the        *)
(* weighted part of what passed in the bucket before are within Limit      *)
(* (provider.py lines 67-77 and 190-218).  In Redis: of fixed windows,     *)
(* unless two increments raced.                                            *)
RateKept ==
  FailClosed /\ ~raced /\ (Sliding => limiter.provider = "memory") =>
    \A i \in DOMAIN log :
      log[i].key # Null /\ log[i].allowed =>
        IF Sliding
          THEN LET bucket == log[i].at \div Window
               IN Cardinality(PassedInBucket(i, bucket))
                  + Weighted(Cardinality(PassedInBucket(i, bucket - 1)), log[i].at % Window) <= Limit
          ELSE /\ Cardinality(PassedUntil(log[i].key, log[i].until)) <= Limit
               /\ Cardinality(PassedFrom(log[i].key, log[i].at)) <= 2 * Limit

(* Whoever is denied for the limit has called more than Limit times within *)
(* the lifetime of the counters that were added up: others' calls never    *)
(* count.                                                                  *)
LimitedForCause ==
  ~raced => \A i \in DOMAIN log :
              log[i].reason = "limit_exceeded" => Cardinality(CallsBefore(i)) > Limit

(* A fixed window is over Retry-After seconds after a denial, whoever goes *)
(* on calling: the counter that denied ends within the Window seconds the  *)
(* header says (provider.py line 87), and whoever is denied from its end   *)
(* on has called more than Limit times since, so calls made within the     *)
(* window neither lengthen it nor count in the next one.                   *)
RetryAfterHolds ==
  ~Sliding /\ ~raced =>
    \A i \in DOMAIN log :
      log[i].reason = "limit_exceeded" =>
        /\ log[i].until <= log[i].at + Window
        /\ \A j \in i + 1 .. Len(log) :
             /\ log[j].reason = "limit_exceeded" /\ log[j].key = log[i].key
             /\ log[j].at >= log[i].until
             => Cardinality(CallsSince(j, log[i].until)) > Limit
=============================================================================
