--------------------------- MODULE TenantIsolation ---------------------------
(***************************************************************************)
(* How the rows of tenants are kept apart: the context variable that names *)
(* the current tenant, the units of work and their database sessions, the  *)
(* tenant repository and the raw SQL helpers, and the database's own row   *)
(* policies, which read a session variable of the transaction.             *)
(*                                                                         *)
(* A task is a stack of the "with" blocks it is inside: contexts and units *)
(* of work.  A row is the tenant it belongs to.  Any code may raise where  *)
(* it is, and any enclosing block may catch.  Soft deletion, filters, what *)
(* raw SQL writes and the read replica are left out; connections are taken *)
(* when a unit opens.                                                      *)
(***************************************************************************)
EXTENDS Naturals, Sequences, FiniteSetsExt

CONSTANTS
  Tasks,            \* asyncio tasks, each with its own context variables
  Connections,      \* the connection pool
  Tenants,
  Rows,             \* identities of rows of a tenant table
  Owner,            \* the tenant of each row at the start, Null for no row
  MaxDepth,         \* bound: nested blocks
  Null

VARIABLES
  row_policies,  \* mode "session_variable", with the policies in force; never changes
  table,     \* the committed rows
  variable,  \* app.tenant_id of each connection
  stack,     \* each task's blocks, outermost first
  session,   \* each task's database session
  raising,   \* an exception is on its way through the task
  last       \* history: the statement, or end of a unit, of the latest step

isolationVars == <<row_policies, table, variable, stack, session, raising, last>>

Context(tenant, frozen) ==
  [kind |-> "context", tenant |-> tenant, frozen |-> frozen, rollback_only |-> FALSE]
Unit(tenant) ==
  [kind |-> "unit", tenant |-> tenant, frozen |-> FALSE, rollback_only |-> FALSE]

Block ==
  [kind : {"context", "unit"}, tenant : Tenants \cup {Null}, frozen : BOOLEAN,
   rollback_only : BOOLEAN]

Session ==
  [open : BOOLEAN, conn : Connections \cup {Null}, tenant : Tenants \cup {Null},
   draft : [Rows -> Tenants \cup {Null}], broken : BOOLEAN, failed : BOOLEAN]

Closed ==
  [open |-> FALSE, conn |-> Null, tenant |-> Null, draft |-> [r \in Rows |-> Null],
   broken |-> FALSE, failed |-> FALSE]

Nothing == [how |-> "none"]

Init ==
  /\ row_policies \in BOOLEAN
  /\ table = Owner
  /\ variable = [c \in Connections |-> Null]
  /\ stack = [t \in Tasks |-> <<>>]
  /\ session = [t \in Tasks |-> Closed]
  /\ raising = [t \in Tasks |-> FALSE]
  /\ last = Nothing

Running(t) == ~raising[t]
InUnit(t) == session[t].open
Raise(t) == raising' = [raising EXCEPT ![t] = TRUE]
Enters(t, block) ==
  /\ Len(stack[t]) < MaxDepth
  /\ stack' = [stack EXCEPT ![t] = Append(@, block)]

\* The places of blocks of a kind, and the innermost, 0 when there is none.
Places(s, kind) == {i \in DOMAIN s : s[i].kind = kind}
Innermost(s, kind) == IF Places(s, kind) = {} THEN 0 ELSE Max(Places(s, kind))

-----------------------------------------------------------------------------
(* Contexts: the request middleware, the resolver of a request's tenant,   *)
(* and the background context of tasks, schedules and outbox events.       *)

\* get_current_context().tenant_id
current_tenant_id(t) ==
  LET i == Innermost(stack[t], "context") IN IF i = 0 THEN Null ELSE stack[t][i].tenant

RequestContextMiddleware(t) ==
  /\ Running(t) /\ stack[t] = <<>>
  /\ Enters(t, Context(Null, FALSE))
  /\ last' = Nothing
  /\ UNCHANGED <<table, variable, session, raising>>

\* The user and tenant of a request are found once: a frozen context refuses.
resolve_current_tenant(t, tenant) ==
  LET i == Innermost(stack[t], "context") IN
  /\ Running(t) /\ i # 0
  /\ IF stack[t][i].frozen
     THEN Raise(t) /\ UNCHANGED stack
     ELSE stack' = [stack EXCEPT ![t][i] = Context(tenant, TRUE)] /\ UNCHANGED raising
  /\ last' = Nothing
  /\ UNCHANGED <<table, variable, session>>

use_background_context(t, tenant) ==
  /\ Running(t)
  /\ Enters(t, Context(tenant, TRUE))
  /\ last' = Nothing
  /\ UNCHANGED <<table, variable, session, raising>>

-----------------------------------------------------------------------------
(* Units of work.                                                          *)

\* Mutant: any unit joins any other.
Agree_Any(tenant, active) == TRUE

\* The tenants of two units, one in the other, are not two different ones.
Agree(tenant, active) == Null \in {tenant, active} \/ tenant = active

\* __aenter__, with a unit open around it: it joins that unit's session.
JoinsUnit(t, tenant) ==
  LET active == stack[t][Innermost(stack[t], "unit")].tenant IN
  /\ Running(t) /\ InUnit(t)
  /\ IF Agree(tenant, active)
     THEN Enters(t, Unit(IF tenant # Null THEN tenant ELSE active)) /\ UNCHANGED raising
     ELSE Raise(t) /\ UNCHANGED stack
  /\ last' = Nothing
  /\ UNCHANGED <<table, variable, session>>

\* DatabaseTenantFallback.apply: set_config(..., true) and session.info.
Applied(conn, tenant) == [variable EXCEPT ![conn] = IF row_policies THEN tenant ELSE @]

\* __aenter__ of an outermost unit, on an idle connection; the fallback is
\* passed by DatabaseRuntime.unit_of_work and not by the function.
OpensUnit(t, tenant, fallback, conn) ==
  LET applies == tenant # Null /\ fallback IN
  /\ Running(t) /\ ~InUnit(t)
  /\ \A u \in Tasks : session[u].conn # conn
  /\ Enters(t, Unit(tenant))
  /\ session' = [session EXCEPT ![t] =
                   [Closed EXCEPT !.open = TRUE, !.conn = conn,
                                  !.tenant = IF applies THEN tenant ELSE Null]]
  /\ variable' = IF applies THEN Applied(conn, tenant) ELSE variable
  /\ last' = Nothing
  /\ UNCHANGED <<table, raising>>

\* Mutant: only the unit around the one that is left.
mark_rollback_only_Parent(s) ==
  [i \in DOMAIN s |->
     IF i = Innermost(s, "unit")
     THEN [s[i] EXCEPT !.rollback_only = TRUE]
     ELSE s[i]]

\* mark_rollback_only, of the unit that is left and of those around it.
mark_rollback_only(s) ==
  [i \in DOMAIN s |-> IF s[i].kind = "unit" THEN [s[i] EXCEPT !.rollback_only = TRUE] ELSE s[i]]

\* Mutant: set_config(..., false), the setting of the connection.
Released_Kept(conn) == variable

\* The variable was set for the transaction only, which is over.
Released(conn) == [variable EXCEPT ![conn] = Null]

\* The row policy checks what the session writes when it sends it.
FlushRefused(t) ==
  \/ session[t].broken
  \/ /\ row_policies
     /\ \E r \in Rows : session[t].draft[r] \notin {Null, variable[session[t].conn]}

\* What a session wrote, over what was there.
Committed(t) ==
  [r \in Rows |-> IF session[t].draft[r] # Null THEN session[t].draft[r] ELSE table[r]]

\* __aexit__ of a joined unit.
LeavesJoinedUnit(t, rest) ==
  /\ stack' = [stack EXCEPT ![t] = IF raising[t] THEN mark_rollback_only(rest) ELSE rest]
  /\ session' = [session EXCEPT ![t].failed = @ \/ raising[t]]
  /\ last' = Nothing
  /\ UNCHANGED <<table, variable, raising>>

\* __aexit__ of the outermost unit: commit or rollback, and close.
EndsUnit(t, rest, rollback_only) ==
  LET attempt == ~raising[t] /\ ~rollback_only
      commit == attempt /\ ~FlushRefused(t) IN
  /\ table' = IF commit THEN Committed(t) ELSE table
  /\ variable' = Released(session[t].conn)
  /\ session' = [session EXCEPT ![t] = Closed]
  /\ stack' = [stack EXCEPT ![t] = rest]
  /\ raising' = [raising EXCEPT ![t] = rest # <<>> /\ (@ \/ (attempt /\ ~commit))]
  /\ last' = [how |-> "ended", committed |-> commit, kept |-> session[t].tenant,
              of |-> {session[t].draft[r] : r \in Rows} \ {Null},
              failed |-> session[t].failed \/ raising[t] \/ (attempt /\ FlushRefused(t))]

-----------------------------------------------------------------------------
(* Statements, on the session of the unit.                                 *)

\* The rows a statement of the session can reach: its own writes, and what
\* the policy of the table lets through.
Holds(t, r) == IF session[t].draft[r] # Null THEN session[t].draft[r] ELSE table[r]
Visible(t) ==
  {r \in Rows : /\ Holds(t, r) # Null
                /\ row_policies => Holds(t, r) = variable[session[t].conn]}

\* session.execute flushes first; a refused flush leaves a broken session.
\* The statement leaves the session with the writes draft.
Executes(t, how, asked, of, draft) ==
  IF FlushRefused(t)
  THEN Raise(t) /\ session' = [session EXCEPT ![t].broken = TRUE] /\ last' = Nothing
  ELSE /\ last' = [how |-> how, asked |-> asked, of |-> of, kept |-> session[t].tenant]
       /\ session' = [session EXCEPT ![t].draft = draft]
       /\ UNCHANGED raising

Reads(t, how, asked, of) == Executes(t, how, asked, of, session[t].draft)

Refuses(t) == Raise(t) /\ UNCHANGED session /\ last' = Nothing

\* TenantScopedQuery: the where clause on the tenant.
Scoped(t, tenant) == {Holds(t, r) : r \in {r \in Visible(t) : Holds(t, r) = tenant}}

\* Every row the session can reach.
Unscoped(t) == {Holds(t, r) : r \in Visible(t)}

\* TenantScopedRepository.list and get.
RepositoryReads(t) ==
  LET tenant == current_tenant_id(t) IN
  /\ Running(t) /\ InUnit(t)
  /\ IF tenant = Null THEN Refuses(t) ELSE Reads(t, "scoped", tenant, Scoped(t, tenant))
  /\ UNCHANGED <<table, variable, stack>>

\* The tenant that values name is the current one, or none.
Provided(t, given) == given \in {Null, current_tenant_id(t)}

\* TenantScopedRepository.create, with an identity nobody uses.
RepositoryCreates(t, r, given) ==
  LET tenant == current_tenant_id(t) IN
  /\ Running(t) /\ InUnit(t)
  /\ table[r] = Null /\ \A u \in Tasks : session[u].draft[r] = Null
  /\ IF tenant = Null \/ ~Provided(t, given)
     THEN Refuses(t)
     ELSE session' = [session EXCEPT ![t].draft[r] = tenant] /\ UNCHANGED raising /\ last' = Nothing
  /\ UNCHANGED <<table, variable, stack>>

\* TenantScopedRepository.update of a row it finds; tenant_id is not set.
RepositoryUpdates(t, r, given) ==
  LET tenant == current_tenant_id(t) IN
  /\ Running(t) /\ InUnit(t)
  /\ IF tenant = Null \/ ~Provided(t, given)
     THEN Refuses(t)
     ELSE /\ r \in Visible(t) /\ Holds(t, r) = tenant
          /\ Executes(t, "scoped", tenant, {Holds(t, r)}, [session[t].draft EXCEPT ![r] = Holds(t, r)])
  /\ UNCHANGED <<table, variable, stack>>

\* execute_tenant_scoped: a tenant given to it, a statement that is not sent
\* without the predicate, and a parameter tenant_id.  The predicate is looked
\* for in the text, so it may be there and restrict nothing, as in
\* "tenant_id = :tenant_id or true".
execute_tenant_scoped(t, given, predicate, parameter) ==
  LET tenant == IF given # Null THEN given ELSE current_tenant_id(t) IN
  /\ Running(t) /\ InUnit(t)
  /\ IF tenant = Null \/ predicate = "missing" \/ parameter \notin {Null, tenant}
     THEN Refuses(t)
     ELSE IF predicate = "restricts"
     THEN Reads(t, "scoped", tenant, Scoped(t, tenant))
     ELSE Reads(t, "named", tenant, Unscoped(t))
  /\ UNCHANGED <<table, variable, stack>>

\* A decision with a reason, or an access of CrossTenantPermissionGate, that
\* lacks nothing or one thing; a decision names no targets or resource.
cross_tenant_reason_and_decision(via, lacks) ==
  lacks = "nothing" \/ (via = "decision" /\ lacks \in {"targets", "resource"})

\* CrossTenantRepository and execute_cross_tenant: any row, by permission.
execute_cross_tenant(t, via, lacks) ==
  /\ Running(t) /\ InUnit(t)
  /\ IF cross_tenant_reason_and_decision(via, lacks)
     THEN Reads(t, "across", Null, Unscoped(t))
     ELSE Refuses(t)
  /\ UNCHANGED <<table, variable, stack>>

-----------------------------------------------------------------------------
(* Control: exceptions, and the death of the process.                      *)

Raises(t) ==
  /\ Running(t) /\ stack[t] # <<>>
  /\ Raise(t)
  /\ last' = Nothing
  /\ UNCHANGED <<table, variable, stack, session>>

Catches(t) ==
  /\ raising[t]
  /\ raising' = [raising EXCEPT ![t] = FALSE]
  /\ last' = Nothing
  /\ UNCHANGED <<table, variable, stack, session>>

\* The innermost block ends.
Leaves(t) ==
  LET depth == Len(stack[t])
      rest == SubSeq(stack[t], 1, depth - 1) IN
  /\ depth > 0
  /\ IF stack[t][depth].kind = "context"
     THEN /\ stack' = [stack EXCEPT ![t] = rest]
          /\ raising' = [raising EXCEPT ![t] = rest # <<>> /\ @]
          /\ last' = Nothing
          /\ UNCHANGED <<table, variable, session>>
     ELSE IF Places(rest, "unit") # {}
     THEN LeavesJoinedUnit(t, rest)
     ELSE EndsUnit(t, rest, stack[t][depth].rollback_only)

ProcessDies ==
  /\ variable' = [c \in Connections |-> Null]
  /\ stack' = [t \in Tasks |-> <<>>]
  /\ session' = [t \in Tasks |-> Closed]
  /\ raising' = [t \in Tasks |-> FALSE]
  /\ last' = Nothing
  /\ UNCHANGED <<table>>

Blocks(t) ==
  \/ RequestContextMiddleware(t)
  \/ \E tenant \in Tenants : resolve_current_tenant(t, tenant)
  \/ \E tenant \in Tenants \cup {Null} :
        \/ use_background_context(t, tenant)
        \/ JoinsUnit(t, tenant)
        \/ \E fallback \in BOOLEAN, conn \in Connections : OpensUnit(t, tenant, fallback, conn)

Statements(t) ==
  \/ RepositoryReads(t)
  \/ \E r \in Rows, given \in Tenants \cup {Null} :
        RepositoryCreates(t, r, given) \/ RepositoryUpdates(t, r, given)
  \/ \E given, parameter \in Tenants \cup {Null}, predicate \in {"missing", "named", "restricts"} :
        execute_tenant_scoped(t, given, predicate, parameter)
  \/ \E via \in {"decision", "access"},
        lacks \in {"nothing", "reason", "allowed", "platform", "targets", "resource"} :
        execute_cross_tenant(t, via, lacks)

Next ==
  /\ \/ \E t \in Tasks : Blocks(t) \/ Statements(t) \/ Raises(t) \/ Catches(t) \/ Leaves(t)
     \/ ProcessDies
  /\ UNCHANGED row_policies

Spec == Init /\ [][Next]_isolationVars

-----------------------------------------------------------------------------
(* Properties.                                                             *)

TypeOK ==
  /\ row_policies \in BOOLEAN
  /\ table \in [Rows -> Tenants \cup {Null}]
  /\ variable \in [Connections -> Tenants \cup {Null}]
  /\ stack \in [Tasks -> Seq(Block)]
  /\ session \in [Tasks -> Session]
  /\ raising \in [Tasks -> BOOLEAN]

\* A statement of the repository, or one of execute_tenant_scoped whose
\* predicate restricts it, reaches rows of the tenant it is for only, whatever
\* contexts and units it runs inside.
ScopedToTenant == last.how = "scoped" => last.of \subseteq {last.asked}

\* With the row policies, every statement of a session, one across tenants
\* or one that its predicate does not restrict too, and every row it commits
\* is of the tenant its unit was opened for, although connections serve units
\* of other tenants before and after.
KeptInSession ==
  row_policies =>
    /\ last.how \in {"scoped", "named", "across"} => last.of \subseteq {last.kept}
    /\ last.how = "ended" /\ last.committed => last.of \subseteq {last.kept}

\* A unit inside a unit for a tenant is for the same one.
UnitsAgree ==
  \A t \in Tasks : \A i, j \in DOMAIN stack[t] :
    /\ i < j /\ stack[t][i].kind = "unit" /\ stack[t][j].kind = "unit"
    /\ stack[t][i].tenant # Null
    => stack[t][j].tenant = stack[t][i].tenant

\* A session is committed when no unit in it was left by an exception, even
\* one that was caught further out, and only then (core-database.md line 52).
WholeUnits == last.how = "ended" => (last.committed <=> ~last.failed)

(* Whatever units and contexts are nested, raise and are caught, a task      *)
(* reaches and commits rows of its tenant only, and whole units of them      *)
(* (repositories.py, db/transactions.py).                                    *)
TenantsKeptApart == ScopedToTenant /\ KeptInSession /\ UnitsAgree /\ WholeUnits
=============================================================================
