--------------------------- MODULE PermissionCache ---------------------------
(***************************************************************************)
(* The cache of decisions that allow (core/permissions/cache.py and the    *)
(* CachedPolicyDecisionBackend of backends.py), for one tenant, subject,   *)
(* resource and action, next to the projection that changes the decision.  *)
(*                                                                         *)
(* A cached decision carries the versions it was stored under; a change of *)
(* the projection counts a version up before its transaction commits.  The *)
(* versions are permanent keys: get_json and each read of the marker is a  *)
(* step of its own only where awaiting the provider can suspend; the three *)
(* reads of one marker are taken together, since versions only grow.       *)
(***************************************************************************)
EXTENDS Naturals

CONSTANTS
  Requests,     \* requests that authorize
  Provider,     \* "memory", or "redis", whose get returns a string
  Ttl,          \* ttl_seconds of a cached decision
  MaxDelay,     \* bound: time between the backend's read and the store
  MaxChanges,   \* bound: projections
  MaxTime,      \* bound of the clock
  Null

VARIABLES
  allows,     \* a projected policy allows, as committed
  versions,   \* the version keys
  entry,      \* the decision key
  now,        \* the cache's clock
  writer,     \* the projecting transaction
  lookups,    \* each request; a hit notes whether a policy still allows
  changes,    \* projections so far
  revoked_at  \* history: when the policy was last seen removed

cacheVars == <<allows, versions, entry, now, writer, lookups, changes, revoked_at>>

Idle == [at |-> "idle"]

Init ==
  /\ allows \in BOOLEAN
  /\ versions = [global |-> 0, subject |-> 0]
  /\ entry = Null
  /\ now = 0
  /\ writer = Null
  /\ lookups = [r \in Requests |-> Idle]
  /\ changes = 0
  /\ revoked_at = 0

At(r, place) == lookups[r].at = place
Notes(r, lookup) == lookups' = [lookups EXCEPT ![r] = lookup]

-----------------------------------------------------------------------------
(* The projector: project_grant stores a policy, remove_grant_projection   *)
(* and reconcile remove it; they invalidate the subject, or everything     *)
(* when they know no subject.                                              *)

\* The lookups that are between read and store, marked as overtaken.
Overtaken ==
  [r \in Requests |-> IF At(r, "allowed") THEN [lookups[r] EXCEPT !.clean = FALSE] ELSE lookups[r]]

\* incr, permanently.
invalidate ==
  /\ writer = Null /\ changes < MaxChanges
  /\ changes' = changes + 1
  /\ \E scope \in DOMAIN versions : versions' = [versions EXCEPT ![scope] = @ + 1]
  /\ \E policy \in BOOLEAN : writer' = [allows |-> policy]
  /\ lookups' = Overtaken
  /\ UNCHANGED <<allows, entry, now, revoked_at>>

ProjectionCommits ==
  /\ writer # Null
  /\ allows' = writer.allows
  /\ revoked_at' = IF allows /\ ~writer.allows THEN now ELSE revoked_at
  /\ writer' = Null
  /\ lookups' = Overtaken
  /\ UNCHANGED <<versions, entry, now, changes>>

ProjectionRollsBack ==
  /\ writer # Null
  /\ writer' = Null
  /\ UNCHANGED <<allows, versions, entry, now, lookups, changes, revoked_at>>

-----------------------------------------------------------------------------
(* CachedPolicyDecisionBackend.find_allowing_policy.                       *)

\* _version refuses what is not an int: in Redis every version that is there.
_version_marker_readable == Provider = "redis" => \A scope \in DOMAIN versions : versions[scope] = 0

Live == entry # Null /\ entry.until > now

\* Mutant: the versions are not compared.
Matches_AnyVersion == Live

\* The cached decision was stored under the versions of now.
Matches == Live /\ entry.marker = versions

\* get_allowing_match finds nothing, or something stale.
get_allowing_match_Misses(r) ==
  /\ At(r, "idle")
  /\ Live => _version_marker_readable
  /\ ~Matches
  /\ Notes(r, [at |-> "missed"])
  /\ UNCHANGED <<allows, versions, entry, now, writer, changes, revoked_at>>

get_allowing_match_Hits(r) ==
  /\ At(r, "idle")
  /\ _version_marker_readable /\ Matches
  /\ Notes(r, [at |-> "hit", clean |-> entry.clean, still |-> allows, since |-> now - revoked_at])
  /\ UNCHANGED <<allows, versions, entry, now, writer, changes, revoked_at>>

\* ProjectedPolicyBackend: the SELECT.  A denial is not cached.
find_allowing_policy(r) ==
  /\ At(r, "missed")
  /\ Notes(r, IF allows THEN [at |-> "allowed", read_at |-> now, clean |-> writer = Null] ELSE Idle)
  /\ UNCHANGED <<allows, versions, entry, now, writer, changes, revoked_at>>

\* Mutant: cached decisions are permanent.
Stored_Permanent(r) == [marker |-> versions, until |-> MaxTime + 1, clean |-> lookups[r].clean]

\* The cached decision, with the versions of now; it ends after Ttl.
Stored(r) == [marker |-> versions, until |-> now + Ttl, clean |-> lookups[r].clean]

set_allowing_match(r) ==
  /\ At(r, "allowed") /\ _version_marker_readable
  /\ entry' = Stored(r)
  /\ Notes(r, Idle)
  /\ UNCHANGED <<allows, versions, now, writer, changes, revoked_at>>

\* CONFLICT, where a marker is to be read and cannot be; the request fails.
VersionConflict(r) ==
  /\ At(r, "allowed") \/ (At(r, "idle") /\ Live)
  /\ ~_version_marker_readable
  /\ Notes(r, Idle)
  /\ UNCHANGED <<allows, versions, entry, now, writer, changes, revoked_at>>

Answers(r) ==
  /\ At(r, "hit")
  /\ Notes(r, Idle)
  /\ UNCHANGED <<allows, versions, entry, now, writer, changes, revoked_at>>

-----------------------------------------------------------------------------
Tick ==
  /\ now < MaxTime
  /\ \A r \in Requests : At(r, "allowed") => now + 1 <= lookups[r].read_at + MaxDelay
  /\ now' = now + 1
  /\ UNCHANGED <<allows, versions, entry, writer, lookups, changes, revoked_at>>

LookupStep(r) ==
  \/ get_allowing_match_Misses(r) \/ get_allowing_match_Hits(r)
  \/ find_allowing_policy(r) \/ set_allowing_match(r)
  \/ VersionConflict(r) \/ Answers(r)

Next ==
  \/ invalidate \/ ProjectionCommits \/ ProjectionRollsBack \/ Tick
  \/ \E r \in Requests : LookupStep(r)

Spec == Init /\ [][Next]_cacheVars

-----------------------------------------------------------------------------
(* A permission that was revoked is soon denied, although the versions are *)
(* counted up before the revocation commits and a lookup stores what it    *)
(* read before under the versions of after: such a decision ends with its  *)
(* ttl (cache.py line 115), and a decision stored by a lookup that no      *)
(* projection overtook is never answered once the policy is gone.          *)
RevocationTakesHold ==
  \A r \in Requests :
    At(r, "hit") /\ ~lookups[r].still => /\ lookups[r].since < Ttl + MaxDelay
                                         /\ ~lookups[r].clean
=============================================================================
