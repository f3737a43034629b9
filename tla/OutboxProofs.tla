---------------------------- MODULE OutboxProofs ----------------------------
(***************************************************************************)
(* Proofs about the lease protocol of the outbox table, for any number of  *)
(* events, dispatcher processes and operators.                             *)
(***************************************************************************)
EXTENDS Outbox, TLAPS

\* An open claim_batch only locks rows it may claim, and knows their versions.
ClaimingInv ==
  /\ \A d \in Dispatchers : \A c \in claiming[d] :
       /\ pc[d] = "claim"
       /\ c = ClaimOf(c.event)
       /\ Eligible(row[c.event], at[d])
  /\ \A d1, d2 \in Dispatchers : \A c1 \in claiming[d1], c2 \in claiming[d2] :
       c1.event = c2.event => d1 = d2

\* Claims in memory are not newer than the row, and a current one knows the
\* attempt_count of the row it may complete.
HeldInv ==
  \A d \in Dispatchers : \A c \in held[d] :
    /\ c.claim_version <= row[c.event].claim_version
    /\ /\ c.claim_version = row[c.event].claim_version
       /\ row[c.event].status = "publishing"
       => c.attempt_count = row[c.event].attempt_count

\* A call looks at the past, and a mark call at an object in memory.
CallInv ==
  \A d \in Dispatchers :
    /\ at[d] <= now
    /\ cur[d] \subseteq held[d]
    /\ pc[d] # "mark" => cur[d] = {}

\* While an event can still be attempted, its budget is not used up.
BudgetInv ==
  \A e \in Events :
    row[e].status \in {"absent", "pending", "failed", "publishing"}
      => failures[e] < MaxAttempts + replays[e]

IInv ==
  /\ TypeOK
  /\ ClaimingInv
  /\ HeldInv
  /\ OneCurrentHolder
  /\ CallInv
  /\ AttemptCountExact
  /\ BudgetInv
  /\ RetryBudget

\* The operators that compute rows stay within the columns' types.
LEMMA StatusRow ==
  ASSUME NEW r \in Row, NEW s \in Statuses PROVE [r EXCEPT !.status = s] \in Row
  BY DEF Row

LEMMA AddedRow ==
  ASSUME NEW r \in Row, NEW s \in Statuses, NEW t \in Nat
  PROVE  [r EXCEPT !.status = s, !.created_at = t] \in Row
  BY DEF Row

LEMMA ClaimedRowType ==
  ASSUME NEW r \in Row, NEW c, c.claim_version \in Nat, NEW d \in Dispatchers, NEW t \in Nat
  PROVE  ClaimedRow(r, c, d, t) \in Row
<1>1. DispatcherId[d] \in Ids \union {NoOne} /\ t + LockSeconds \in Times
  BY OutboxAssumption DEF Ids, Times
<1>2. "publishing" \in Statuses
  BY DEF Statuses
<1> QED
  BY <1>1, <1>2 DEF ClaimedRow, Row

LEMMA PublishedRowType == ASSUME NEW r \in Row PROVE PublishedRow(r) \in Row
<1>1. NoTime \in Times /\ "published" \in Statuses
  BY DEF Times, Statuses
<1> QED
  BY <1>1 DEF PublishedRow, Row

LEMMA FailedRowType ==
  ASSUME NEW r \in Row, NEW c \in Claim, NEW kind, NEW t \in Nat
  PROVE  FailedRow(r, c, kind, t) \in Row
<1>1. c.attempt_count + 1 \in Nat
  BY DEF Claim
<1>2. (IF IsDead(c, kind) THEN NoTime ELSE t + RetryDelay) \in Times /\ NoTime \in Times
  BY OutboxAssumption DEF Times
<1>3. (IF IsDead(c, kind) THEN "dead_letter" ELSE "failed") \in Statuses
  BY DEF Statuses
<1> QED
  BY <1>1, <1>2, <1>3 DEF FailedRow, Row

LEMMA TypeInit == Init => TypeOK
<1>1. NoRow \in Row
  BY DEF NoRow, Row, Statuses, Times
<1> QED
  BY <1>1 DEF Init, TypeOK

(* Every action writes columns and variables of the declared types.         *)
LEMMA TypeStep == TypeOK /\ [Next]_vars => TypeOK'
<1> SUFFICES ASSUME TypeOK, [Next]_vars PROVE TypeOK'
  OBVIOUS
<1> USE DEF TypeOK
<1>0. "pending" \in Statuses
  BY DEF Statuses
<1>1. ASSUME NEW e \in Events, Add(e) PROVE TypeOK'
  <2>1. row' = [row EXCEPT ![e] = [row[e] EXCEPT !.status = "pending", !.created_at = now]]
    BY <1>1 DEF Add
  <2>2. row' \in [Events -> Row]
    BY <1>0, <2>1, AddedRow
  <2> QED
    BY <1>1, <2>2 DEF Add, procVars
<1>2. ASSUME NEW d \in Dispatchers, ClaimBegin(d) PROVE TypeOK'
  BY <1>2 DEF ClaimBegin
<1>3. ASSUME NEW d \in Dispatchers, NEW e \in Events, TryClaim(d, e) PROVE TypeOK'
  <2>1. ClaimOf(e) \in Claim
    BY DEF ClaimOf, Claim, Row
  <2> QED
    BY <1>3, <2>1 DEF TryClaim
<1>4. ASSUME NEW d \in Dispatchers, ClaimCommit(d) PROVE TypeOK'
  <2>1. \A e \in Events : ClaimOf(e).claim_version \in Nat
    BY DEF ClaimOf, Row
  <2>2. \A e \in Events : ClaimedRow(row[e], ClaimOf(e), d, at[d]) \in Row
    BY <2>1, ClaimedRowType
  <2>3. row' \in [Events -> Row]
    BY <1>4, <2>2 DEF ClaimCommit
  <2> QED
    BY <1>4, <2>3 DEF ClaimCommit
<1>5. ASSUME NEW d \in Dispatchers, MarkBegin(d) PROVE TypeOK'
  BY <1>5 DEF MarkBegin
<1>6. ASSUME NEW d \in Dispatchers, MarkPublished(d) PROVE TypeOK'
  <2>1. row' \in [Events -> Row]
    BY <1>6, PublishedRowType DEF MarkPublished, Claim
  <2> QED
    BY <1>6, <2>1 DEF MarkPublished, MarkReturn
<1>7. ASSUME NEW d \in Dispatchers, NEW kind \in Kinds, MarkFailed(d, kind) PROVE TypeOK'
  <2>1. PICK c \in cur[d] :
          /\ row' = [row EXCEPT ![c.event] = FailedRow(row[c.event], c, kind, at[d])]
          /\ failures' = [failures EXCEPT ![c.event] = @ + 1]
          /\ MarkReturn(d, held[d] \ {c})
    BY <1>7 DEF MarkFailed
  <2>2. c \in Claim /\ c.event \in Events
    BY DEF Claim
  <2>3. row' \in [Events -> Row]
    BY <2>1, <2>2, FailedRowType
  <2> QED
    BY <2>1, <2>2, <2>3 DEF MarkReturn
<1>8. ASSUME NEW d \in Dispatchers, MarkConflict(d) PROVE TypeOK'
  BY <1>8 DEF MarkConflict, MarkReturn
<1>9. ASSUME NEW d \in Dispatchers, Crash(d) PROVE TypeOK'
  BY <1>9 DEF Crash
<1>10. ASSUME NEW o \in Operators, NEW e \in Events, ReplayLoad(o, e) PROVE TypeOK'
  BY <1>10 DEF ReplayLoad, procVars
<1>11. ASSUME NEW o \in Operators, NEW e \in Events, ReplayFlush(o, e) PROVE TypeOK'
  <2>1. row' = [row EXCEPT ![e] = [row[e] EXCEPT !.status = "pending"]]
    BY <1>11 DEF ReplayFlush
  <2>2. row' \in [Events -> Row]
    BY <1>0, <2>1, StatusRow
  <2> QED
    BY <1>11, <2>2 DEF ReplayFlush, procVars
<1>12. CASE Tick
  BY <1>12 DEF Tick, procVars
<1>13. CASE UNCHANGED vars
  BY <1>13 DEF vars
<1> QED
  BY <1>1, <1>2, <1>3, <1>4, <1>5, <1>6, <1>7, <1>8, <1>9, <1>10, <1>11, <1>12, <1>13
  DEF Next

(* Type correctness of the outbox table and of the processes' memory.       *)
THEOREM TypeCorrect == Spec => []TypeOK
  BY TypeInit, TypeStep, PTL DEF Spec

-----------------------------------------------------------------------------
\* What the operators that compute rows do to the columns the invariant reads.
LEMMA ClaimedFields ==
  ASSUME NEW r \in Row, NEW c, NEW d, NEW t
  PROVE  /\ ClaimedRow(r, c, d, t).status = "publishing"
         /\ ClaimedRow(r, c, d, t).claim_version = c.claim_version
         /\ ClaimedRow(r, c, d, t).attempt_count = r.attempt_count
  BY DEF ClaimedRow, Row

LEMMA PublishedFields ==
  ASSUME NEW r \in Row
  PROVE  /\ PublishedRow(r).status = "published"
         /\ PublishedRow(r).claim_version = r.claim_version
         /\ PublishedRow(r).attempt_count = r.attempt_count
  BY DEF PublishedRow, Row

LEMMA FailedFields ==
  ASSUME NEW r \in Row, NEW c, NEW kind, NEW t
  PROVE  /\ FailedRow(r, c, kind, t).status = IF IsDead(c, kind) THEN "dead_letter" ELSE "failed"
         /\ FailedRow(r, c, kind, t).claim_version = r.claim_version
         /\ FailedRow(r, c, kind, t).attempt_count = c.attempt_count + 1
  BY DEF FailedRow, Row

LEMMA StatusFields ==
  ASSUME NEW r \in Row, NEW s
  PROVE  /\ [r EXCEPT !.status = s].status = s
         /\ [r EXCEPT !.status = s].claim_version = r.claim_version
         /\ [r EXCEPT !.status = s].attempt_count = r.attempt_count
  BY DEF Row

LEMMA AddedFields ==
  ASSUME NEW r \in Row, NEW s, NEW t
  PROVE  /\ [r EXCEPT !.status = s, !.created_at = t].status = s
         /\ [r EXCEPT !.status = s, !.created_at = t].claim_version = r.claim_version
         /\ [r EXCEPT !.status = s, !.created_at = t].attempt_count = r.attempt_count
  BY DEF Row

LEMMA InitIInv == Init => IInv
<1> SUFFICES ASSUME Init PROVE IInv
  OBVIOUS
<1>1. TypeOK
  BY TypeInit
<1>2. ClaimingInv /\ HeldInv /\ OneCurrentHolder /\ CallInv
  BY DEF Init, ClaimingInv, HeldInv, OneCurrentHolder, CallInv
<1>3. AttemptCountExact /\ BudgetInv /\ RetryBudget
  BY OutboxAssumption DEF Init, NoRow, AttemptCountExact, BudgetInv, RetryBudget
<1> QED
  BY <1>1, <1>2, <1>3 DEF IInv

\* A step that changes one unlocked row and no open claim_batch keeps the open
\* claims sound.
LEMMA ClaimingKept ==
  ASSUME IInv, NEW e \in Events, ~Locked(e),
         \A f \in Events : f # e => row'[f] = row[f],
         \A q \in Dispatchers : pc[q] = "claim" => pc'[q] = pc[q] /\ at'[q] = at[q],
         claiming' = claiming
  PROVE  ClaimingInv'
<1> USE DEF IInv, ClaimingInv
<1>1. ASSUME NEW q \in Dispatchers, NEW c \in claiming'[q]
      PROVE  /\ pc'[q] = "claim"
             /\ c = ClaimOf(c.event)'
             /\ Eligible(row'[c.event], at'[q])
  <2>1. c.event \in Events /\ c.event # e
    BY DEF Locked, TypeOK, Claim
  <2>2. pc[q] = "claim" /\ pc'[q] = pc[q] /\ at'[q] = at[q]
    OBVIOUS
  <2> QED
    BY <2>1, <2>2 DEF ClaimOf
<1> QED
  BY <1>1

\* The end of a mark call on object c, whose row becomes r without touching its
\* claim_version: everything but the counters.
LEMMA MarkKept ==
  ASSUME IInv, NEW d \in Dispatchers, pc[d] = "mark", NEW c \in cur[d], ~Locked(c.event),
         NEW r \in Row, r.claim_version = row[c.event].claim_version,
         r.status # "publishing",
         row' = [row EXCEPT ![c.event] = r],
         MarkReturn(d, held[d] \ {c})
  PROVE  ClaimingInv' /\ HeldInv' /\ OneCurrentHolder' /\ CallInv'
<1> USE DEF IInv
<1>1. c \in Claim /\ c.event \in Events
  BY DEF TypeOK, Claim
<1>2. ClaimingInv'
  BY <1>1, ClaimingKept DEF MarkReturn, TypeOK
<1>3. \A q \in Dispatchers : held'[q] \subseteq held[q] /\ held'[q] \subseteq Claim
  BY DEF MarkReturn, TypeOK
<1>4. HeldInv'
  <2> SUFFICES ASSUME NEW q \in Dispatchers, NEW x \in held'[q]
               PROVE  /\ x.claim_version <= row'[x.event].claim_version
                      /\ /\ x.claim_version = row'[x.event].claim_version
                         /\ row'[x.event].status = "publishing"
                         => x.attempt_count = row'[x.event].attempt_count
    BY DEF HeldInv
  <2>1. x \in held[q] /\ x.event \in Events
    BY <1>3 DEF Claim
  <2>2. CASE x.event = c.event
    BY <2>1, <2>2, <1>1 DEF HeldInv, TypeOK
  <2>3. CASE x.event # c.event
    BY <2>1, <2>3, <1>1 DEF HeldInv, TypeOK
  <2> QED
    BY <2>2, <2>3
<1>5. OneCurrentHolder'
  BY <1>3 DEF OneCurrentHolder
<1>6. CallInv'
  BY DEF CallInv, MarkReturn, TypeOK
<1> QED
  BY <1>2, <1>4, <1>5, <1>6

\* The counters of the other events do not change with the row of event e.
LEMMA CountersKept ==
  ASSUME IInv, NEW e \in Events,
         \A f \in Events \ {e} :
           row'[f] = row[f] /\ failures'[f] = failures[f] /\ replays'[f] = replays[f],
         row'[e].attempt_count = failures'[e],
         row'[e].status \in {"absent", "pending", "failed", "publishing"}
           => failures'[e] < MaxAttempts + replays'[e],
         failures'[e] <= MaxAttempts + replays'[e]
  PROVE  AttemptCountExact' /\ BudgetInv' /\ RetryBudget'
  BY DEF IInv, AttemptCountExact, BudgetInv, RetryBudget

(* The invariant is inductive: one step per action, and under it the parts  *)
(* the action disturbs.                                                     *)
LEMMA IInvStep == IInv /\ [Next]_vars => IInv'
<1> SUFFICES ASSUME IInv, [Next]_vars PROVE IInv'
  OBVIOUS
<1>0. TypeOK /\ TypeOK'
  BY TypeStep DEF IInv
<1>1. ASSUME NEW e \in Events, Add(e) PROVE IInv'
  <2>1. row' = [row EXCEPT ![e] = [row[e] EXCEPT !.status = "pending", !.created_at = now]]
    BY <1>0, <1>1 DEF Add, TypeOK
  <2>2. /\ row'[e].status = "pending"
        /\ row'[e].claim_version = row[e].claim_version
        /\ row'[e].attempt_count = row[e].attempt_count
        /\ row[e].status = "absent"
    BY <1>0, <1>1, <2>1, AddedFields DEF Add, TypeOK
  <2>3. \A f \in Events \ {e} : row'[f] = row[f]
    BY <1>0, <2>1 DEF TypeOK
  <2>4. ~Locked(e)
    BY <2>2 DEF Locked, IInv, ClaimingInv, Eligible
  <2>5. ClaimingInv'
    BY <1>1, <2>3, <2>4, ClaimingKept DEF Add, procVars
  <2>6. HeldInv'
    BY <1>0, <1>1, <2>2, <2>3 DEF Add, procVars, HeldInv, IInv, TypeOK, Claim
  <2>7. OneCurrentHolder' /\ CallInv'
    BY <1>1 DEF Add, procVars, OneCurrentHolder, CallInv, IInv
  <2>8. AttemptCountExact' /\ BudgetInv' /\ RetryBudget'
    BY <1>1, <2>2, <2>3, CountersKept
       DEF Add, IInv, AttemptCountExact, BudgetInv, RetryBudget
  <2> QED
    BY <1>0, <2>5, <2>6, <2>7, <2>8 DEF IInv
<1>2. ASSUME NEW d \in Dispatchers, ClaimBegin(d) PROVE IInv'
  <2>1. claiming[d] = {}
    BY <1>0, <1>2 DEF ClaimBegin, IInv, ClaimingInv, TypeOK
  <2>2. ClaimingInv'
    BY <1>0, <1>2, <2>1 DEF ClaimBegin, IInv, ClaimingInv, ClaimOf, TypeOK
  <2>3. HeldInv' /\ OneCurrentHolder'
    BY <1>2 DEF ClaimBegin, IInv, HeldInv, OneCurrentHolder
  <2>4. CallInv'
    BY <1>0, <1>2 DEF ClaimBegin, IInv, CallInv, TypeOK
  <2>5. AttemptCountExact' /\ BudgetInv' /\ RetryBudget'
    BY <1>2 DEF ClaimBegin, IInv, AttemptCountExact, BudgetInv, RetryBudget
  <2> QED
    BY <1>0, <2>2, <2>3, <2>4, <2>5 DEF IInv
<1>3. ASSUME NEW d \in Dispatchers, NEW e \in Events, TryClaim(d, e) PROVE IInv'
  <2>1. ClaimOf(e).event = e
    BY DEF ClaimOf
  <2>2. \A q \in Dispatchers : \A c \in claiming'[q] :
           \/ c \in claiming[q]
           \/ q = d /\ c = ClaimOf(e) /\ Eligible(row[e], at[d])
    BY <1>0, <1>3 DEF TryClaim, TypeOK
  <2>3. \A q \in Dispatchers : \A c \in claiming[q] : c.event # e
    BY <1>3 DEF TryClaim, Locked
  <2>4. \A q \in Dispatchers : \A c \in claiming'[q] :
           pc'[q] = "claim" /\ c = ClaimOf(c.event)' /\ Eligible(row'[c.event], at'[q])
    BY <1>3, <2>1, <2>2 DEF TryClaim, IInv, ClaimingInv, ClaimOf
  <2>5. \A q1, q2 \in Dispatchers : \A c1 \in claiming'[q1], c2 \in claiming'[q2] :
           c1.event = c2.event => q1 = q2
    BY <2>1, <2>2, <2>3 DEF IInv, ClaimingInv
  <2>6. HeldInv' /\ OneCurrentHolder' /\ CallInv'
    BY <1>3 DEF TryClaim, IInv, HeldInv, OneCurrentHolder, CallInv
  <2>7. AttemptCountExact' /\ BudgetInv' /\ RetryBudget'
    BY <1>3 DEF TryClaim, IInv, AttemptCountExact, BudgetInv, RetryBudget
  <2> QED
    BY <1>0, <2>4, <2>5, <2>6, <2>7 DEF IInv, ClaimingInv
<1>4. ASSUME NEW d \in Dispatchers, ClaimCommit(d) PROVE IInv'
  <2> DEFINE mine == {e \in Events : ClaimOf(e) \in claiming[d]}
  <2>1. \A e \in Events \ mine : row'[e] = row[e]
    BY <1>4 DEF ClaimCommit
  <2>2. \A e \in mine : /\ row'[e].status = "publishing"
                        /\ row'[e].claim_version = row[e].claim_version + 1
                        /\ row'[e].attempt_count = row[e].attempt_count
                        /\ Eligible(row[e], at[d])
    <3> SUFFICES ASSUME NEW e \in mine
                 PROVE  /\ row'[e].status = "publishing"
                        /\ row'[e].claim_version = row[e].claim_version + 1
                        /\ row'[e].attempt_count = row[e].attempt_count
                        /\ Eligible(row[e], at[d])
      OBVIOUS
    <3>1. row'[e] = ClaimedRow(row[e], ClaimOf(e), d, at[d]) /\ row[e] \in Row
      BY <1>0, <1>4 DEF ClaimCommit, TypeOK
    <3>2. ClaimOf(e).event = e /\ ClaimOf(e).claim_version = row[e].claim_version + 1
      BY DEF ClaimOf
    <3>3. Eligible(row[e], at[d])
      BY <3>2 DEF IInv, ClaimingInv
    <3> QED
      BY <3>1, <3>2, <3>3, ClaimedFields
  <2>3. \A q \in Dispatchers \ {d} : claiming'[q] = claiming[q] /\ held'[q] = held[q]
                                    /\ pc'[q] = pc[q] /\ at'[q] = at[q]
    BY <1>0, <1>4 DEF ClaimCommit, TypeOK
  <2>4. claiming'[d] = {} /\ held'[d] = claiming[d]
    BY <1>0, <1>4 DEF ClaimCommit, TypeOK
  <2>5. \A c \in claiming[d] : c.event \in mine /\ c = ClaimOf(c.event)
    BY <1>0 DEF IInv, ClaimingInv, TypeOK, Claim
  <2>6. ClaimingInv'
    <3>1. ASSUME NEW q \in Dispatchers, NEW c \in claiming'[q]
          PROVE  /\ q # d /\ c \in claiming[q]
                 /\ c.event \in Events \ mine
      <4>1. q # d /\ c \in claiming[q]
        BY <2>3, <2>4
      <4>2. c.event \in Events
        BY <1>0, <4>1 DEF TypeOK, Claim
      <4>3. ASSUME ClaimOf(c.event) \in claiming[d] PROVE FALSE
        BY <4>1, <4>3 DEF IInv, ClaimingInv, ClaimOf
      <4> QED
        BY <4>1, <4>2, <4>3
    <3> QED
      BY <2>1, <2>3, <3>1 DEF IInv, ClaimingInv, ClaimOf
  <2>7. HeldInv'
    <3> SUFFICES ASSUME NEW q \in Dispatchers, NEW x \in held'[q]
                 PROVE  /\ x.claim_version <= row'[x.event].claim_version
                        /\ /\ x.claim_version = row'[x.event].claim_version
                           /\ row'[x.event].status = "publishing"
                           => x.attempt_count = row'[x.event].attempt_count
      BY DEF HeldInv
    <3>1. x \in Claim /\ x.event \in Events /\ row[x.event].claim_version \in Nat
          /\ x.claim_version \in Nat
      BY <1>0 DEF TypeOK, Claim, Row
    <3>2. CASE q = d
      <4>1. x.event \in mine /\ x = ClaimOf(x.event)
        BY <2>4, <2>5, <3>2
      <4> HIDE DEF mine
      <4>2. /\ x.claim_version = row[x.event].claim_version + 1
            /\ x.attempt_count = row[x.event].attempt_count
        BY <4>1 DEF ClaimOf
      <4> QED
        BY <2>2, <4>1, <4>2, <3>1
    <3>3. CASE q # d
      <4>1. x \in held[q]
        BY <2>3, <3>3
      <4>2. CASE x.event \in mine
        <5> HIDE DEF mine
        <5> QED
          BY <2>2, <3>1, <4>1, <4>2 DEF IInv, HeldInv
      <4>3. CASE x.event \notin mine
        BY <2>1, <3>1, <4>1, <4>3 DEF IInv, HeldInv
      <4> QED
        BY <4>2, <4>3
    <3> QED
      BY <3>2, <3>3
  <2>8. OneCurrentHolder'
    <3>1. ASSUME NEW q \in Dispatchers \ {d}, NEW x \in held'[q], NEW y \in held'[d],
                 x.event = y.event
          PROVE  x.claim_version # y.claim_version
      <4>1. x \in held[q] /\ y \in claiming[d]
        BY <2>3, <2>4
      <4>2. x.event \in Events /\ x.claim_version \in Nat /\ row[x.event].claim_version \in Nat
        BY <1>0, <4>1 DEF TypeOK, Claim, Row
      <4>3. y.claim_version = row[y.event].claim_version + 1
        <5>1. y = ClaimOf(y.event)
          BY <2>5, <4>1
        <5>2. ClaimOf(y.event).claim_version = row[y.event].claim_version + 1
          BY DEF ClaimOf
        <5> QED
          BY <5>1, <5>2
      <4>4. x.claim_version <= row[x.event].claim_version
        BY <4>1 DEF IInv, HeldInv
      <4> QED
        BY <3>1, <4>2, <4>3, <4>4
    <3> QED
      BY <2>3, <3>1 DEF IInv, OneCurrentHolder
  <2>9. CallInv'
    <3>1. cur[d] = {}
      BY <1>4, <1>0 DEF ClaimCommit, IInv, CallInv
    <3> QED
      BY <1>0, <1>4, <3>1 DEF ClaimCommit, IInv, CallInv, TypeOK
  <2>10. AttemptCountExact' /\ BudgetInv' /\ RetryBudget'
    BY <1>4, <2>1, <2>2
       DEF ClaimCommit, Eligible, IInv, AttemptCountExact, BudgetInv, RetryBudget
  <2> QED
    BY <1>0, <2>6, <2>7, <2>8, <2>9, <2>10 DEF IInv
<1>5. ASSUME NEW d \in Dispatchers, MarkBegin(d) PROVE IInv'
  <2>1. claiming[d] = {}
    BY <1>0, <1>5 DEF MarkBegin, IInv, ClaimingInv, TypeOK
  <2>2. ClaimingInv'
    BY <1>0, <1>5, <2>1 DEF MarkBegin, IInv, ClaimingInv, ClaimOf, TypeOK
  <2>3. HeldInv' /\ OneCurrentHolder'
    BY <1>5 DEF MarkBegin, IInv, HeldInv, OneCurrentHolder
  <2>4. CallInv'
    BY <1>0, <1>5 DEF MarkBegin, IInv, CallInv, TypeOK
  <2>5. AttemptCountExact' /\ BudgetInv' /\ RetryBudget'
    BY <1>5 DEF MarkBegin, IInv, AttemptCountExact, BudgetInv, RetryBudget
  <2> QED
    BY <1>0, <2>2, <2>3, <2>4, <2>5 DEF IInv
<1>6. ASSUME NEW d \in Dispatchers, MarkPublished(d) PROVE IInv'
  <2>1. PICK c \in cur[d] :
          /\ pc[d] = "mark" /\ ~Locked(c.event) /\ HoldsActiveLease(d, c, at[d])
          /\ row' = [row EXCEPT ![c.event] = PublishedRow(row[c.event])]
          /\ MarkReturn(d, held[d] \ {c})
    BY <1>6 DEF MarkPublished
  <2>2. c.event \in Events /\ row[c.event] \in Row
    BY <1>0 DEF TypeOK, Claim
  <2>3. ClaimingInv' /\ HeldInv' /\ OneCurrentHolder' /\ CallInv'
    BY <2>1, <2>2, PublishedFields, PublishedRowType, MarkKept
  <2>4. \A f \in Events \ {c.event} : row'[f] = row[f]
    BY <1>0, <2>1, <2>2 DEF TypeOK
  <2>5. row'[c.event] = PublishedRow(row[c.event])
    BY <1>0, <2>1, <2>2 DEF TypeOK
  <2>6. AttemptCountExact' /\ BudgetInv' /\ RetryBudget'
    BY <1>6, <2>1, <2>2, <2>4, <2>5, PublishedFields, CountersKept
       DEF MarkPublished, MarkReturn, IInv, AttemptCountExact, RetryBudget
  <2> QED
    BY <1>0, <2>3, <2>6 DEF IInv
<1>7. ASSUME NEW d \in Dispatchers, NEW kind \in Kinds, MarkFailed(d, kind) PROVE IInv'
  <2>1. PICK c \in cur[d] :
          /\ pc[d] = "mark" /\ ~Locked(c.event) /\ HoldsActiveLease(d, c, at[d])
          /\ row' = [row EXCEPT ![c.event] = FailedRow(row[c.event], c, kind, at[d])]
          /\ failures' = [failures EXCEPT ![c.event] = @ + 1]
          /\ MarkReturn(d, held[d] \ {c})
    BY <1>7 DEF MarkFailed
  <2> DEFINE e == c.event
             r == FailedRow(row[e], c, kind, at[d])
  <2>2. c \in Claim /\ e \in Events /\ row[e] \in Row /\ at[d] \in Nat
    BY <1>0 DEF TypeOK, Claim
  <2>3. r \in Row /\ r.claim_version = row[e].claim_version /\ r.status # "publishing"
    BY <2>2, FailedFields, FailedRowType
  <2>4. ClaimingInv' /\ HeldInv' /\ OneCurrentHolder' /\ CallInv'
    BY <2>1, <2>3, MarkKept
  <2>5. \A f \in Events \ {e} : row'[f] = row[f] /\ failures'[f] = failures[f]
    BY <1>0, <2>1, <2>2 DEF TypeOK
  <2>6. row'[e] = r /\ failures'[e] = failures[e] + 1 /\ replays' = replays
    BY <1>0, <2>1, <2>2 DEF TypeOK, MarkReturn
  <2>7. row[e].status = "publishing" /\ c.attempt_count = failures[e]
    BY <2>1, <2>2 DEF HoldsActiveLease, IInv, CallInv, HeldInv, AttemptCountExact
  <2>8. failures[e] \in Nat /\ replays[e] \in Nat
    BY <1>0, <2>2 DEF TypeOK
  <2>9. failures[e] < MaxAttempts + replays[e]
    BY <2>2, <2>7 DEF IInv, BudgetInv
  <2>10. r.attempt_count = failures[e] + 1
         /\ r.status = IF IsDead(c, kind) THEN "dead_letter" ELSE "failed"
    BY <2>2, <2>7, FailedFields
  <2>11. r.status = "failed" => failures[e] + 1 < MaxAttempts + replays[e]
    BY <2>7, <2>8, <2>10, OutboxAssumption DEF IsDead
  <2>12. AttemptCountExact' /\ BudgetInv' /\ RetryBudget'
    <3> HIDE DEF r, e
    <3> QED
      BY <2>2, <2>5, <2>6, <2>8, <2>9, <2>10, <2>11, CountersKept, OutboxAssumption
  <2> QED
    BY <1>0, <2>4, <2>12 DEF IInv
<1>8. ASSUME NEW d \in Dispatchers, MarkConflict(d) PROVE IInv'
  <2>1. ClaimingInv'
    BY <1>0, <1>8 DEF MarkConflict, MarkReturn, IInv, ClaimingInv, ClaimOf, TypeOK
  <2>2. HeldInv' /\ OneCurrentHolder' /\ CallInv'
    BY <1>0, <1>8 DEF MarkConflict, MarkReturn, IInv, HeldInv, OneCurrentHolder, CallInv, TypeOK
  <2>3. AttemptCountExact' /\ BudgetInv' /\ RetryBudget'
    BY <1>8 DEF MarkConflict, MarkReturn, IInv, AttemptCountExact, BudgetInv, RetryBudget
  <2> QED
    BY <1>0, <2>1, <2>2, <2>3 DEF IInv
<1>9. ASSUME NEW d \in Dispatchers, Crash(d) PROVE IInv'
  <2>1. ClaimingInv'
    BY <1>0, <1>9 DEF Crash, IInv, ClaimingInv, ClaimOf, TypeOK
  <2>2. HeldInv' /\ OneCurrentHolder' /\ CallInv'
    BY <1>0, <1>9 DEF Crash, IInv, HeldInv, OneCurrentHolder, CallInv, TypeOK
  <2>3. AttemptCountExact' /\ BudgetInv' /\ RetryBudget'
    BY <1>9 DEF Crash, IInv, AttemptCountExact, BudgetInv, RetryBudget
  <2> QED
    BY <1>0, <2>1, <2>2, <2>3 DEF IInv
<1>10. ASSUME NEW o \in Operators, NEW e \in Events, ReplayLoad(o, e) PROVE IInv'
  BY <1>0, <1>10
     DEF ReplayLoad, procVars, IInv, ClaimingInv, ClaimOf, HeldInv, OneCurrentHolder, CallInv,
         AttemptCountExact, BudgetInv, RetryBudget
<1>11. ASSUME NEW o \in Operators, NEW e \in Events, ReplayFlush(o, e) PROVE IInv'
  <2>1. row' = [row EXCEPT ![e] = [row[e] EXCEPT !.status = "pending"]]
    BY <1>11 DEF ReplayFlush
  <2>2. /\ row'[e].status = "pending"
        /\ row'[e].claim_version = row[e].claim_version
        /\ row'[e].attempt_count = row[e].attempt_count
    BY <1>0, <2>1, StatusFields DEF TypeOK
  <2>3. \A f \in Events \ {e} : row'[f] = row[f] /\ replays'[f] = replays[f]
    BY <1>0, <1>11, <2>1 DEF ReplayFlush, TypeOK
  <2>4. ClaimingInv'
    BY <1>11, <2>3, ClaimingKept DEF ReplayFlush, procVars
  <2>5. HeldInv'
    BY <1>0, <1>11, <2>2, <2>3 DEF ReplayFlush, procVars, HeldInv, IInv, TypeOK, Claim
  <2>6. OneCurrentHolder' /\ CallInv'
    BY <1>11 DEF ReplayFlush, procVars, OneCurrentHolder, CallInv, IInv
  <2>7. failures' = failures /\ replays'[e] = replays[e] + 1
        /\ failures[e] \in Nat /\ replays[e] \in Nat
    BY <1>0, <1>11 DEF ReplayFlush, TypeOK
  <2>8. failures[e] <= MaxAttempts + replays[e] /\ row[e].attempt_count = failures[e]
    BY DEF IInv, RetryBudget, AttemptCountExact
  <2>9. AttemptCountExact' /\ BudgetInv' /\ RetryBudget'
    BY <2>2, <2>3, <2>7, <2>8, CountersKept, OutboxAssumption
  <2> QED
    BY <1>0, <2>4, <2>5, <2>6, <2>9 DEF IInv
<1>12. CASE Tick
  <2>1. CallInv'
    BY <1>0, <1>12 DEF Tick, procVars, IInv, CallInv, TypeOK
  <2> QED
    BY <1>0, <1>12, <2>1
       DEF Tick, procVars, IInv, ClaimingInv, ClaimOf, HeldInv, OneCurrentHolder,
           AttemptCountExact, BudgetInv, RetryBudget
<1>13. CASE UNCHANGED vars
  BY <1>0, <1>13
     DEF vars, IInv, ClaimingInv, ClaimOf, HeldInv, OneCurrentHolder, CallInv,
         AttemptCountExact, BudgetInv, RetryBudget
<1> QED
  BY <1>1, <1>2, <1>3, <1>4, <1>5, <1>6, <1>7, <1>8, <1>9, <1>10, <1>11, <1>12, <1>13
  DEF Next

LEMMA InductiveInvariant == Spec => []IInv
  BY InitIInv, IInvStep, PTL DEF Spec

-----------------------------------------------------------------------------
(* No two processes ever hold completable claims of one event, whatever     *)
(* dispatcher ids they were started with (claim_version in repository.py).  *)
THEOREM OneCurrentHolderAlways == Spec => []OneCurrentHolder
  BY InductiveInvariant, PTL DEF IInv

(* The attempt_count column never misses or repeats a failure (mark_failed).*)
THEOREM AttemptCountAlwaysExact == Spec => []AttemptCountExact
  BY InductiveInvariant, PTL DEF IInv

(* Every event stops being retried: the number of its failures is bounded   *)
(* by max_attempts plus the number of its replays.                          *)
THEOREM RetryBudgetHolds == Spec => []RetryBudget
  BY InductiveInvariant, PTL DEF IInv

\* Which step may change a claim_version.
LEMMA VersionStep ==
  ASSUME IInv, [Next]_vars, NEW e \in Events, row'[e].claim_version # row[e].claim_version
  PROVE  row[e].locked_until <= now
<1>0. TypeOK /\ row[e] \in Row /\ row[e].locked_until \in Int
  BY DEF IInv, TypeOK, Row, Times, NoTime
<1>1. \A f \in Events : ~ Add(f)
  <2> SUFFICES ASSUME NEW f \in Events, Add(f) PROVE FALSE
    OBVIOUS
  <2>1. row' = [row EXCEPT ![f] = [row[f] EXCEPT !.status = "pending", !.created_at = now]]
    BY <1>0 DEF Add, TypeOK
  <2> QED
    BY <1>0, <2>1, AddedFields DEF TypeOK
<1>2. \A o \in Operators, f \in Events : ~ ReplayFlush(o, f)
  <2> SUFFICES ASSUME NEW o \in Operators, NEW f \in Events, ReplayFlush(o, f) PROVE FALSE
    OBVIOUS
  <2>1. row' = [row EXCEPT ![f] = [row[f] EXCEPT !.status = "pending"]]
    BY <1>0 DEF ReplayFlush, TypeOK
  <2> QED
    BY <1>0, <2>1, StatusFields DEF TypeOK
<1>3. \A d \in Dispatchers : ~ MarkPublished(d)
  <2> SUFFICES ASSUME NEW d \in Dispatchers, MarkPublished(d) PROVE FALSE
    OBVIOUS
  <2>1. PICK c \in cur[d] : row' = [row EXCEPT ![c.event] = PublishedRow(row[c.event])]
    BY DEF MarkPublished
  <2>2. PublishedRow(row[e]).claim_version = row[e].claim_version
    BY <1>0, PublishedFields
  <2>3. row'[e] = row[e] \/ row'[e] = PublishedRow(row[e])
    BY <1>0, <2>1 DEF TypeOK
  <2> QED
    BY <2>2, <2>3
<1>4. \A d \in Dispatchers, kind \in Kinds : ~ MarkFailed(d, kind)
  <2> SUFFICES ASSUME NEW d \in Dispatchers, NEW kind \in Kinds, MarkFailed(d, kind)
               PROVE  FALSE
    OBVIOUS
  <2>1. PICK c \in cur[d] :
          row' = [row EXCEPT ![c.event] = FailedRow(row[c.event], c, kind, at[d])]
    BY DEF MarkFailed
  <2>2. FailedRow(row[e], c, kind, at[d]).claim_version = row[e].claim_version
    BY <1>0, FailedFields
  <2>3. row'[e] = row[e] \/ row'[e] = FailedRow(row[e], c, kind, at[d])
    BY <1>0, <2>1 DEF TypeOK
  <2> QED
    BY <2>2, <2>3
<1>5. row' # row
  OBVIOUS
<1>6. PICK d \in Dispatchers : ClaimCommit(d)
  BY <1>1, <1>2, <1>3, <1>4, <1>5
     DEF Next, vars, ClaimBegin, TryClaim, MarkBegin, MarkConflict, Crash, ReplayLoad, Tick
<1>7. ClaimOf(e) \in claiming[d]
  BY <1>6 DEF ClaimCommit
<1>8. Eligible(row[e], at[d])
  BY <1>7 DEF IInv, ClaimingInv, ClaimOf
<1>9. row[e].locked_until <= at[d] /\ at[d] <= now /\ at[d] \in Int /\ now \in Int
  BY <1>0, <1>8 DEF Eligible, IInv, CallInv, TypeOK
<1> QED
  BY <1>0, <1>9

(* A live lease is never taken over, although claim_batch compares with a   *)
(* clock it read before its SELECT and commits later.                       *)
THEOREM LiveLeaseSafe == Spec => LiveLeaseNotStolen
<1>1. IInv /\ [Next]_vars =>
        [\A e \in Events :
           row'[e].claim_version # row[e].claim_version => row[e].locked_until <= now]_vars
  BY VersionStep DEF vars
<1> QED
  BY <1>1, InductiveInvariant, PTL DEF Spec, LiveLeaseNotStolen

-----------------------------------------------------------------------------
\* One operator at a time replays dead letters.
SingleOperator == \A o, p \in Operators : o = p

\* Then an event being replayed is still the dead letter that was loaded.
LoadedInv == \A o \in Operators : \A e \in loaded[o] : row[e].status = "dead_letter"

\* How a step may change the status of one event.
LEMMA StatusStep ==
  ASSUME IInv, [Next]_vars, NEW e \in Events, row[e].status \in {"published", "dead_letter"},
         row'[e].status # row[e].status
  PROVE  \E o \in Operators : ReplayFlush(o, e)
<1>0. TypeOK /\ row[e] \in Row
  BY DEF IInv, TypeOK
<1>1. ASSUME NEW f \in Events, Add(f) PROVE FALSE
  BY <1>0, <1>1 DEF Add, TypeOK
<1>2. ASSUME NEW d \in Dispatchers, ClaimCommit(d) PROVE FALSE
  <2>1. ClaimOf(e) \in claiming[d]
    BY <1>2 DEF ClaimCommit
  <2>2. Eligible(row[e], at[d])
    BY <2>1 DEF IInv, ClaimingInv, ClaimOf
  <2> QED
    BY <2>2 DEF Eligible
<1>3. ASSUME NEW d \in Dispatchers, MarkPublished(d) PROVE FALSE
  BY <1>0, <1>3 DEF MarkPublished, HoldsActiveLease, TypeOK, Claim
<1>4. ASSUME NEW d \in Dispatchers, NEW kind \in Kinds, MarkFailed(d, kind) PROVE FALSE
  BY <1>0, <1>4 DEF MarkFailed, HoldsActiveLease, TypeOK, Claim
<1>5. ASSUME NEW o \in Operators, NEW f \in Events, ReplayFlush(o, f)
      PROVE  \E p \in Operators : ReplayFlush(p, e)
  <2>1. row' = [row EXCEPT ![f] = [row[f] EXCEPT !.status = "pending"]]
    BY <1>5 DEF ReplayFlush
  <2>2. f = e
    BY <1>0, <2>1 DEF TypeOK
  <2> QED
    BY <1>5, <2>2
<1> QED
  BY <1>1, <1>2, <1>3, <1>4, <1>5
     DEF Next, vars, ClaimBegin, TryClaim, MarkBegin, MarkConflict, Crash, ReplayLoad, Tick

LEMMA LoadedStep ==
  ASSUME SingleOperator, IInv, LoadedInv, [Next]_vars PROVE LoadedInv'
<1> SUFFICES ASSUME NEW o \in Operators, NEW e \in loaded'[o]
             PROVE  row'[e].status = "dead_letter"
  BY DEF LoadedInv
<1>0. TypeOK
  BY DEF IInv
<1>1. CASE e \in loaded[o]
  <2>1. e \in Events /\ row[e].status = "dead_letter"
    BY <1>0, <1>1 DEF LoadedInv, TypeOK
  <2>2. ASSUME NEW p \in Operators, ReplayFlush(p, e) PROVE FALSE
    BY <1>0, <2>2 DEF SingleOperator, ReplayFlush, TypeOK
  <2> QED
    BY <2>1, <2>2, StatusStep
<1>2. CASE e \notin loaded[o]
  <2>1. PICK p \in Operators, f \in Events : ReplayLoad(p, f) \/ ReplayFlush(p, f)
    BY <1>2 DEF Next, vars, procVars, Add, ClaimBegin, TryClaim, ClaimCommit, MarkBegin,
                MarkPublished, MarkFailed, MarkReturn, MarkConflict, Crash, Tick
  <2>2. CASE ReplayFlush(p, f)
    BY <1>0, <1>2, <2>2 DEF ReplayFlush, TypeOK
  <2>3. CASE ReplayLoad(p, f)
    BY <1>0, <1>2, <2>3 DEF ReplayLoad, TypeOK
  <2> QED
    BY <2>1, <2>2, <2>3
<1> QED
  BY <1>1, <1>2

(* With one replaying operator at a time a published event is never touched *)
(* again: neither a late claim or completion nor a replay revives it.       *)
THEOREM PublishedStays ==
  ASSUME SingleOperator PROVE Spec => PublishedIsFinal
<1>1. Init => LoadedInv
  BY DEF Init, LoadedInv
<1>2. IInv /\ LoadedInv /\ [Next]_vars => LoadedInv'
  BY LoadedStep
<1>3. IInv /\ LoadedInv /\ [Next]_vars =>
        [\A e \in Events : row[e].status = "published" => row'[e].status = "published"]_vars
  <2> SUFFICES ASSUME IInv, LoadedInv, [Next]_vars, NEW e \in Events,
                      row[e].status = "published", row'[e].status # "published"
               PROVE  FALSE
    OBVIOUS
  <2>1. PICK o \in Operators : ReplayFlush(o, e)
    BY StatusStep
  <2> QED
    BY <2>1 DEF ReplayFlush, LoadedInv
<1> QED
  BY <1>1, <1>2, <1>3, InductiveInvariant, PTL DEF Spec, PublishedIsFinal

-----------------------------------------------------------------------------
\* One step of the lease protocol as one event sees it.
EventStep(e) ==
  LET old == DeliveryState(row[e].status)
      new == DeliveryState(row'[e].status)
      n   == row[e].attempt_count
      m   == row'[e].attempt_count
  IN  \/ old = "absent" /\ new = "open" /\ m = n
      \/ old = "open" /\ new = "published" /\ m = n
      \/ old = "open" /\ m = n + 1 /\ (new = "dead" \/ (new = "open" /\ m < MaxAttempts))
      \/ old = "dead" /\ new = "open" /\ m = n
      \/ new = old /\ m = n

LEMMA EventStepLemma ==
  ASSUME IInv, LoadedInv, [Next]_vars, NEW e \in Events PROVE EventStep(e)
<1> USE DEF EventStep, DeliveryState
<1>0. TypeOK /\ row[e] \in Row
  BY DEF IInv, TypeOK
<1>1. ASSUME NEW f \in Events, Add(f) PROVE EventStep(e)
  <2>1. row' = [row EXCEPT ![f] = [row[f] EXCEPT !.status = "pending", !.created_at = now]]
    BY <1>1, <1>0 DEF Add, TypeOK
  <2>2. row[f].status = "absent"
    BY <1>1 DEF Add
  <2>3. CASE f = e
    <3>1. row'[e].status = "pending" /\ row'[e].attempt_count = row[e].attempt_count
      BY <1>0, <2>1, <2>3, AddedFields DEF TypeOK
    <3> QED
      BY <2>2, <2>3, <3>1
  <2>4. CASE f # e
    BY <1>0, <2>1, <2>4 DEF TypeOK
  <2> QED
    BY <2>3, <2>4
<1>2. ASSUME NEW d \in Dispatchers, ClaimCommit(d) PROVE EventStep(e)
  <2>1. CASE ClaimOf(e) \in claiming[d]
    <3>1. Eligible(row[e], at[d])
      BY <2>1 DEF IInv, ClaimingInv, ClaimOf
    <3>2. row'[e] = ClaimedRow(row[e], ClaimOf(e), d, at[d])
      BY <1>2, <2>1 DEF ClaimCommit
    <3>3. row'[e].status = "publishing" /\ row'[e].attempt_count = row[e].attempt_count
      BY <1>0, <3>2, ClaimedFields
    <3> QED
      BY <3>1, <3>3 DEF Eligible
  <2>2. CASE ClaimOf(e) \notin claiming[d]
    BY <1>2, <2>2 DEF ClaimCommit
  <2> QED
    BY <2>1, <2>2
<1>3. ASSUME NEW d \in Dispatchers, MarkPublished(d) PROVE EventStep(e)
  <2>1. PICK c \in cur[d] :
          /\ HoldsActiveLease(d, c, at[d])
          /\ row' = [row EXCEPT ![c.event] = PublishedRow(row[c.event])]
    BY <1>3 DEF MarkPublished
  <2>2. CASE c.event = e
    <3>1. row'[e] = PublishedRow(row[e]) /\ row[e].status = "publishing"
      BY <1>0, <2>1, <2>2 DEF TypeOK, HoldsActiveLease
    <3>2. row'[e].status = "published" /\ row'[e].attempt_count = row[e].attempt_count
      BY <1>0, <3>1, PublishedFields
    <3> QED
      BY <3>1, <3>2
  <2>3. CASE c.event # e
    BY <1>0, <2>1, <2>3 DEF TypeOK
  <2> QED
    BY <2>2, <2>3
<1>4. ASSUME NEW d \in Dispatchers, NEW kind \in Kinds, MarkFailed(d, kind)
      PROVE  EventStep(e)
  <2>1. PICK c \in cur[d] :
          /\ HoldsActiveLease(d, c, at[d])
          /\ row' = [row EXCEPT ![c.event] = FailedRow(row[c.event], c, kind, at[d])]
    BY <1>4 DEF MarkFailed
  <2>2. CASE c.event = e
    <3>1. row'[e] = FailedRow(row[e], c, kind, at[d]) /\ row[e].status = "publishing"
      BY <1>0, <2>1, <2>2 DEF TypeOK, HoldsActiveLease
    <3>2. c.attempt_count = row[e].attempt_count
      BY <2>1, <2>2 DEF HoldsActiveLease, IInv, CallInv, HeldInv
    <3>3. row'[e].status = (IF IsDead(c, kind) THEN "dead_letter" ELSE "failed")
          /\ row'[e].attempt_count = row[e].attempt_count + 1
      BY <1>0, <3>1, <3>2, FailedFields
    <3>4. row[e].attempt_count \in Nat
      BY <1>0 DEF Row
    <3>5. row'[e].status = "failed" => row[e].attempt_count + 1 < MaxAttempts
      BY <3>2, <3>3, <3>4, OutboxAssumption DEF IsDead
    <3> QED
      BY <3>1, <3>3, <3>5
  <2>3. CASE c.event # e
    BY <1>0, <2>1, <2>3 DEF TypeOK
  <2> QED
    BY <2>2, <2>3
<1>5. ASSUME NEW o \in Operators, NEW f \in Events, ReplayFlush(o, f) PROVE EventStep(e)
  <2>1. row' = [row EXCEPT ![f] = [row[f] EXCEPT !.status = "pending"]]
    BY <1>5 DEF ReplayFlush
  <2>2. row[f].status = "dead_letter"
    BY <1>5 DEF ReplayFlush, LoadedInv
  <2>3. CASE f = e
    <3>1. row'[e].status = "pending" /\ row'[e].attempt_count = row[e].attempt_count
      BY <1>0, <2>1, <2>3, StatusFields DEF TypeOK
    <3> QED
      BY <2>2, <2>3, <3>1
  <2>4. CASE f # e
    BY <1>0, <2>1, <2>4 DEF TypeOK
  <2> QED
    BY <2>3, <2>4
<1>6. CASE row' = row
  BY <1>6
<1> QED
  BY <1>1, <1>2, <1>3, <1>4, <1>5, <1>6
     DEF Next, vars, ClaimBegin, TryClaim, MarkBegin, MarkConflict, Crash, ReplayLoad, Tick

(* The lease protocol implements the delivery promise of EventDelivery, for *)
(* any number of events and dispatcher processes and one operator.          *)
THEOREM OutboxImplementsDelivery ==
  ASSUME SingleOperator PROVE Spec => ImplementsDelivery
<1>1. Init => Delivery!Init
  BY DEF Init, NoRow, Delivery!Init, DeliveryState
<1>2. IInv /\ LoadedInv /\ [Next]_vars => [Delivery!Next]_(Delivery!vars)
  <2> SUFFICES ASSUME IInv, LoadedInv, [Next]_vars PROVE Delivery!Next
    OBVIOUS
  <2>1. \A e \in Events : EventStep(e)
    BY EventStepLemma
  <2> QED
    BY <2>1 DEF EventStep, Delivery!Next, Delivery!Added, Delivery!Published, Delivery!Failed,
                Delivery!Replayed, Delivery!Untouched
<1>3. Init => LoadedInv
  BY DEF Init, LoadedInv
<1>4. IInv /\ LoadedInv /\ [Next]_vars => LoadedInv'
  BY LoadedStep
<1> QED
  BY <1>1, <1>2, <1>3, <1>4, InductiveInvariant, PTL
     DEF Spec, ImplementsDelivery, Delivery!Spec

=============================================================================
