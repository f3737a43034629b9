----------------------------- MODULE MCRequests -----------------------------
(* RequestServices for TLC: one of its components moves, as the setting of *)
(* a behaviour, chosen in its initial state, says.                         *)
EXTENDS RequestServices, TLC

CONSTANTS r1, r2, r3, r4,   \* requests with one Idempotency-Key
          q1, q2, q3,       \* requests to the accounts routes
          o1, o2            \* operators on tenants

VARIABLE setting

accountState == <<users, tokens, identities, states, calls>>
tenancyState ==
  <<invitations, granted, records, ops, cleaned, failed_steps, overlapped, together, repeated, direct>>
allVars == <<setting, vars, accountState, tenancyState, sessions, tenants, members>>

\* Two requests repeat one payload, the others another.
MCHash == [r \in Requests |-> IF r \in {r1, r2} THEN 1 ELSE 2]

\* Of two settings: an active tenant with every user in it.
MCInit ==
  /\ setting \in {"idempotency", "accounts", "invitations", "lifecycle", "two operators"}
  /\ Init
  /\ A!Init
  /\ T!Init
  /\ \A t \in Tenants : tenants[t] = IF setting \in {"accounts", "two operators"} THEN "active" ELSE "none"

NoDeletion == \A o \in Operators : ops'[o].at # "delete"
NoInvitation == UNCHANGED invitations
NoMember == \A o \in Operators : ops'[o].at # "entered"
\* Bound: "deleted" stands for "archived", and no suspension ("lifecycle" has both).
OneTarget == \A o \in Operators : ops'[o].target \notin {"archived", "suspended"}

\* Bound: expiries and crashes together.
IdempotencyNext ==
  /\ setting = "idempotency" /\ Next /\ expiries' + crashes' <= 2
  /\ UNCHANGED <<accountState, tenancyState, sessions, tenants, members>>

AccountsNext ==
  /\ setting = "accounts" /\ A!Next
  /\ UNCHANGED <<vars, tenancyState>>

\* Of the settings with one operator at a time, one has no deletions, one no invitations;
\* two operators work on the life cycle.
TenancyNext ==
  /\ T!Next
  /\ \/ setting = "invitations" /\ ~overlapped' /\ NoDeletion
     \/ setting = "lifecycle" /\ ~overlapped' /\ NoInvitation
     \/ setting = "two operators" /\ NoInvitation /\ NoMember /\ OneTarget
  /\ UNCHANGED <<vars, accountState>>

MCNext ==
  /\ UNCHANGED setting
  /\ IdempotencyNext \/ AccountsNext \/ TenancyNext

MCSpec == MCInit /\ [][MCNext]_allVars

Symmetry == Permutations({q1, q2, q3}) \union Permutations({o1, o2})
=============================================================================
