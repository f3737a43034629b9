--------------------------- MODULE Infrastructure ----------------------------
(* What the platform rests on and what is proved of it: the two providers   *)
(* of locks (DatabaseLock, RedisLock), the decision cache of permissions    *)
(* (PermissionCache), the audit log, whose chain is appended to under a     *)
(* lock (Audit), and the rate limiter (RateLimit).                          *)
EXTENDS DatabaseLock, Sequences

CONSTANTS
  MaxTokens,                                            \* of RedisLock
  Callers, Provider, CacheTtl, MaxDelay, MaxChanges,   \* of PermissionCache
  Recorders, Exporters, Retainers, ProcessOf,           \* of Audit
  Distributed,   \* whether AuditService was given a LockProvider
  EarlyStart, PerRequest, Ids, ExportIds,
  Limited, Identity, Limiters, MaxCalls,                \* of RateLimit
  Nobody

VARIABLES counter, key, step, fencing, tries, lease,
          allows, versions, entry, writer, lookups, changes, revoked_at,
          log, clock, locks, chain, exports, files, txs, plain,
          limiter, counters, calls, decisions, raced

\* RateLimitRule.__post_init__: a limit and a window are greater than zero.
ASSUME LimitersAssumption ==
  \A l \in Limiters : /\ l.provider \in {"memory", "redis"} /\ l.sliding \in BOOLEAN
                      /\ l.fail_closed \in BOOLEAN
                      /\ l.limit \in Nat \ {0} /\ l.window \in Nat \ {0}

R == INSTANCE RedisLock WITH pc <- step, handle <- lease
C == INSTANCE PermissionCache WITH Requests <- Callers, Ttl <- CacheTtl, Null <- Nobody
A == INSTANCE Audit WITH Provider <- Distributed
L == INSTANCE RateLimit WITH Requests <- Limited, log <- decisions, Null <- Nobody

(* In Redis only the owner of a live key changes it (the Lua scripts of     *)
(* release and extend, SET NX of acquire).                                  *)
OthersKeyUntouched == R!OthersKeyUntouched

(* PermissionCache!RevocationTakesHold with both providers.                 *)
RevocationTakesHold == C!RevocationTakesHold

(* The audit log forks only for cause (Audit).                              *)
OneChainWhilePlain == A!OneChainWhilePlain

(* Whatever the table holds, an export is a whole chain, in order, and is   *)
(* refused only when there is none (Audit!ExportsWholeChains).              *)
ExportsWholeChains == A!ExportsWholeChains

(* The limiters let pass and deny what their rule says, and a fixed         *)
(* window's Retry-After is true (RateLimit).                                *)
LimitsAsDeclared == L!RateKept /\ L!LimitedForCause /\ L!RetryAfterHolds
=============================================================================
