--------------------------- MODULE RequestServices ---------------------------
(* What requests to one deployment change side by side: the records of the  *)
(* idempotency guard (Idempotency), the accounts (Accounts) and the tenancy *)
(* (Tenancy).  The last two share the tables of tenants, memberships and    *)
(* sessions.                                                                *)
EXTENDS Idempotency

CONSTANTS
  Callers,     \* requests to the accounts routes
  Users, Admins, Tenants, Subjects, Passwords,
  Operators,   \* operators on tenants
  Statuses, MaxFailures, Null

VARIABLES users, tokens, identities, states, calls, sessions,
          tenants, members, invitations, granted, records, ops, cleaned, failed_steps,
          overlapped, together, repeated, direct

A == INSTANCE Accounts WITH Requests <- Callers
T == INSTANCE Tenancy WITH failures <- failed_steps

(* What was issued to a disabled user, or is still being issued, has an     *)
(* older token_version (Accounts!DisabledStaysOut).                         *)
DisabledStaysOut == A!DisabledStaysOut

(* Accounts!CallbackOnce, of the deliveries of one external auth callback,  *)
(* and Accounts!BoundForGood, of users who bind one subject.                *)
IdentitiesHold == A!IdentitiesHold

(* Tenancy!LegalStep, while one operator acts at a time (lost updates of a  *)
(* tenant's status by operators that overlap excluded).                     *)
LegalHistory == T!LegalHistory

(* Tenancy!DeletionInOrder, with one operator and with several.             *)
DeletionInOrder == T!DeletionInOrder
=============================================================================
