------------------------ MODULE OutboxDispatchProofs ------------------------
(* What OutboxDispatch promises, for every number of events, handlers and   *)
(* dispatchers: an event is published only when its handlers have           *)
(* succeeded, each of them once while the records live, and the loop keeps  *)
(* the promise of EventDelivery.                                            *)
EXTENDS OutboxDispatch, WellFoundedInduction, TLAPS

-----------------------------------------------------------------------------
(* The inductive invariant.                                                 *)

States ==
  /\ db \in [Events -> Work]
  /\ draft \in [Dispatchers -> [Events -> Work]]
  /\ phase \in [Dispatchers -> {"idle", "claim", "work", "exited"}]
  /\ todo \in [Dispatchers -> SUBSET Events]
  /\ batch \in [Dispatchers -> SUBSET Events]
  /\ done \in [Dispatchers -> SUBSET Events]
  /\ next \in [Dispatchers -> 1..NHandlers + 1]

\* A succeeded record tells of a run; a published event has them all.
Ran(w) ==
  /\ \A h \in Handlers : w.handler[h] = "succeeded" => w.runs[h] > 0
  /\ w.status = "published" => \A h \in Handlers : w.runs[h] > 0

\* While they live, the records tell of every run and of every call they
\* stand for, and there is one of each.
Recorded(w) ==
  \A h \in Handlers :
    /\ w.runs[h] <= 1 /\ (w.runs[h] > 0 => w.handler[h] = "succeeded")
    /\ w.calls[h] <= 1 /\ (w.calls[h] > 0 => w.effect[h] = "succeeded")

Kept(w, live) == Ran(w) /\ (live => Recorded(w))

\* What an iteration may have made of a row w it has claimed.
Attempted(w, v) ==
  /\ w.status \in {"pending", "failed"}
  /\ v.status \in {"publishing", "published", "failed", "dead_letter"}
  /\ v.status \in {"publishing", "published"} => v.attempts = w.attempts
  /\ v.status \in {"failed", "dead_letter"} => v.attempts = w.attempts + 1
  /\ v.status = "failed" => v.attempts < MaxAttempts

\* The handlers before the next one have run for the event at work.
Passed(d) ==
  done[d] # batch[d] /\ draft[d][Current(d)].status = "publishing"
    => \A h \in Handlers : h < next[d] => draft[d][Current(d)].runs[h] > 0

Iteration(d) ==
  /\ done[d] \subseteq batch[d]
  /\ phase[d] # "work" => next[d] = 1 /\ done[d] = {}
  /\ Passed(d)
  /\ \A e \in batch[d] : Attempted(db[e], draft[d][e])
  /\ \A e \in done[d] : draft[d][e].status # "publishing"

IInv ==
  /\ States
  /\ \A e \in Events : db[e].status # "publishing" /\ Kept(db[e], e \notin expired)
  /\ \A d \in Dispatchers, e \in Events : Kept(draft[d][e], e \notin expired)
  /\ \A d \in Dispatchers : Iteration(d)
  /\ \A d, q \in Dispatchers : d # q => batch[d] \intersect batch[q] = {}

-----------------------------------------------------------------------------
(* Operators.                                                               *)

LEMMA LeastIsThere ==
  ASSUME NEW S \in SUBSET Events, S # {}
  PROVE  Min(S) \in S
<1> DEFINE Before == {ss \in Nat \X Nat : ss[1] < ss[2]}
<1>1. IsWellFoundedOn(Before, Nat)
  BY NatLessThanWellFounded DEF OpToRel
<1>2. S \subseteq Nat
  BY DEF Events
<1>3. PICK x \in S : \A y \in S : <<y, x>> \notin Before
  BY <1>1, <1>2, WFMin
<1>4. ASSUME NEW y \in S PROVE x <= y
  <2>1. <<y, x>> \in Nat \X Nat /\ ~(y < x)
    BY <1>2, <1>3
  <2> QED BY <2>1
<1> QED BY <1>4 DEF Min

LEMMA CurrentIsClaimed ==
  ASSUME States, NEW d \in Dispatchers, done[d] \subseteq batch[d], done[d] # batch[d]
  PROVE  Current(d) \in batch[d] \ done[d] /\ Current(d) \in Events
<1>1. batch[d] \ done[d] \in SUBSET Events /\ batch[d] \ done[d] # {}
  BY DEF States
<1> QED BY <1>1, LeastIsThere DEF Current

LEMMA NoWorkIsKept == NoWork \in Work /\ NoWork.status = "absent" /\ Ran(NoWork) /\ Recorded(NoWork)
BY DispatchAssumption DEF NoWork, Work, Ran, Recorded, Handlers, RecordStatus

\* A row of the table, its fields one by one.
IsWork(w) ==
  /\ w = [f \in {"status", "attempts", "handler", "effect", "runs", "calls"} |-> w[f]]
  /\ w.status \in {"absent", "pending", "publishing", "published", "failed", "dead_letter"}
  /\ w.attempts \in Nat
  /\ w.handler \in [Handlers -> RecordStatus] /\ w.effect \in [Handlers -> RecordStatus]
  /\ w.runs \in [Handlers -> Nat] /\ w.calls \in [Handlers -> Nat]

LEMMA WorkIs == \A w : w \in Work <=> IsWork(w)
BY DEF Work, IsWork

(* The record of the side effect admits one call.                           *)
LEMMA EffectIsKept ==
  ASSUME NEW w \in Work, NEW h \in Handlers, NEW v, v = EffectDone(w, h) \/ v = EffectRaised(w, h)
  PROVE  /\ v \in Work
         /\ v.status = w.status /\ v.attempts = w.attempts /\ v.handler = w.handler /\ v.runs = w.runs
         /\ Recorded(w) => Recorded(v)
<1>1. CASE w.effect[h] = "succeeded"
  BY <1>1 DEF EffectDone, EffectRaised
<1>2. CASE w.effect[h] # "succeeded" /\ v = EffectDone(w, h)
  <2>1. v = [w EXCEPT !.effect[h] = "succeeded", !.calls[h] = @ + 1]
    BY <1>2 DEF EffectDone
  <2>2. /\ v \in Work
        /\ v.status = w.status /\ v.attempts = w.attempts /\ v.handler = w.handler /\ v.runs = w.runs
        /\ v.effect = [w.effect EXCEPT ![h] = "succeeded"]
        /\ v.calls = [w.calls EXCEPT ![h] = @ + 1]
    <3>1. IsWork(w)
      BY WorkIs
    <3>2. /\ v = [f \in {"status", "attempts", "handler", "effect", "runs", "calls"} |-> v[f]]
          /\ v.status = w.status /\ v.attempts = w.attempts
      BY <2>1, <3>1 DEF IsWork
    <3>3. v.handler = w.handler /\ v.runs = w.runs
      BY <2>1, <3>1 DEF IsWork
    <3>4. v.effect = [w.effect EXCEPT ![h] = "succeeded"] /\ v.calls = [w.calls EXCEPT ![h] = @ + 1]
      BY <2>1, <3>1 DEF IsWork
    <3>5. v.effect \in [Handlers -> RecordStatus] /\ v.calls \in [Handlers -> Nat]
      BY <3>1, <3>4 DEF IsWork, RecordStatus
    <3>6. IsWork(v)
      BY <3>1, <3>2, <3>3, <3>5 DEF IsWork
    <3> QED BY <3>2, <3>3, <3>4, <3>6, WorkIs
  <2>3. w.calls \in [Handlers -> Nat] /\ w.effect \in [Handlers -> RecordStatus]
    BY DEF Work
  <2>4. Recorded(w) => Recorded(v)
    BY <1>2, <2>2, <2>3 DEF Recorded
  <2> QED BY <2>2, <2>4
<1>3. CASE w.effect[h] # "succeeded" /\ v = EffectRaised(w, h)
  <2>1. v = [w EXCEPT !.effect[h] = "failed"]
    BY <1>3 DEF EffectRaised
  <2>2. /\ v \in Work
        /\ v.status = w.status /\ v.attempts = w.attempts /\ v.handler = w.handler /\ v.runs = w.runs
        /\ v.effect = [w.effect EXCEPT ![h] = "failed"]
        /\ v.calls = w.calls
    BY <2>1 DEF Work, RecordStatus
  <2>3. w.calls \in [Handlers -> Nat] /\ w.effect \in [Handlers -> RecordStatus]
    BY DEF Work
  <2>4. Recorded(w) => Recorded(v)
    BY <1>3, <2>2, <2>3 DEF Recorded
  <2> QED BY <2>2, <2>4
<1> QED BY <1>1, <1>2, <1>3

(* A handler that has not succeeded runs and succeeds.                      *)
LEMMA SuccessIsKept ==
  ASSUME NEW w \in Work, NEW h \in Handlers, w.status = "publishing", ~Replays(w, h),
         NEW live, Kept(w, live)
  PROVE  LET v == HandlerSucceeded(EffectDone(w, h), h) IN
         /\ v \in Work /\ v.status = "publishing" /\ v.attempts = w.attempts
         /\ Kept(v, live)
         /\ v.runs[h] > 0 /\ \A k \in Handlers : w.runs[k] > 0 => v.runs[k] > 0
<1>1. PICK u : u = EffectDone(w, h)
  OBVIOUS
<1>2. /\ u \in Work
      /\ u.status = w.status /\ u.attempts = w.attempts /\ u.handler = w.handler /\ u.runs = w.runs
      /\ Recorded(w) => Recorded(u)
  BY <1>1, EffectIsKept
<1>3. PICK v : v = HandlerSucceeded(u, h)
  OBVIOUS
<1>4. /\ v \in Work /\ v.status = u.status /\ v.attempts = u.attempts
      /\ v.handler = [u.handler EXCEPT ![h] = "succeeded"] /\ v.runs = [u.runs EXCEPT ![h] = @ + 1]
      /\ v.effect = u.effect /\ v.calls = u.calls
  <2>1. v = [u EXCEPT !.handler[h] = "succeeded", !.runs[h] = @ + 1]
    BY <1>3 DEF HandlerSucceeded
  <2>2. IsWork(u)
    BY <1>2, WorkIs
  <2>3. /\ v = [f \in {"status", "attempts", "handler", "effect", "runs", "calls"} |-> v[f]]
        /\ v.status = u.status /\ v.attempts = u.attempts
    BY <2>1, <2>2 DEF IsWork
  <2>4. v.handler = [u.handler EXCEPT ![h] = "succeeded"] /\ v.runs = [u.runs EXCEPT ![h] = @ + 1]
    BY <2>1, <2>2 DEF IsWork
  <2>5. v.effect = u.effect /\ v.calls = u.calls
    BY <2>1, <2>2 DEF IsWork
  <2>6. v.handler \in [Handlers -> RecordStatus] /\ v.runs \in [Handlers -> Nat]
    BY <2>2, <2>4 DEF IsWork, RecordStatus
  <2>7. IsWork(v)
    BY <2>2, <2>3, <2>5, <2>6 DEF IsWork
  <2> QED BY <2>3, <2>4, <2>5, <2>7, WorkIs
<1>5. u.runs \in [Handlers -> Nat] /\ u.handler \in [Handlers -> RecordStatus]
  BY <1>2 DEF Work
<1>6. Ran(v)
  BY <1>2, <1>4, <1>5 DEF Ran, Kept
<1>7. Recorded(u) => Recorded(v)
  BY <1>2, <1>4, <1>5 DEF Recorded, Replays
<1>8. v.runs[h] > 0 /\ \A k \in Handlers : w.runs[k] > 0 => v.runs[k] > 0
  BY <1>2, <1>4, <1>5
<1> QED BY <1>1, <1>2, <1>3, <1>4, <1>6, <1>7, <1>8 DEF Kept

(* An attempt fails, with the record of a handler that has not succeeded,   *)
(* or before any handler has run.                                           *)
LEMMA FailureIsKept ==
  ASSUME NEW w \in Work, NEW u \in Work, w.status = "publishing", NEW kind \in Kinds,
         u.status = w.status, u.attempts = w.attempts, NEW live, Kept(u, live),
         NEW v,
         \/ v = EventFailed(u, kind)
         \/ \E h \in Handlers : ~Replays(u, h) /\ v = HandlerFailed(u, h, kind)
  PROVE  /\ v \in Work /\ v.status \in {"failed", "dead_letter"}
         /\ v.attempts = w.attempts + 1 /\ (v.status = "failed" => v.attempts < MaxAttempts)
         /\ Kept(v, live)
<1> DEFINE Fails(x, y) ==
      /\ y.status \in {"failed", "dead_letter"} /\ y.attempts = x.attempts + 1
      /\ y.status = "failed" => y.attempts < MaxAttempts
      /\ y.handler = x.handler /\ y.runs = x.runs /\ y.effect = x.effect /\ y.calls = x.calls
      /\ y \in Work
<1>1. ASSUME NEW x \in Work, NEW y, y = EventFailed(x, kind)
      PROVE  Fails(x, y)
  <2>1. x.attempts \in Nat /\ MaxAttempts \in Nat
    BY DispatchAssumption DEF Work
  <2>2. /\ y.attempts = x.attempts + 1
        /\ y.status = IF IsDead(x, kind) THEN "dead_letter" ELSE "failed"
        /\ y.handler = x.handler /\ y.runs = x.runs /\ y.effect = x.effect /\ y.calls = x.calls
        /\ y \in Work
    <3> DEFINE s == IF IsDead(x, kind) THEN "dead_letter" ELSE "failed"
    <3>1. y = [x EXCEPT !.attempts = @ + 1, !.status = s]
      BY <1>1 DEF EventFailed
    <3>2. s \in {"dead_letter", "failed"}
      OBVIOUS
    <3> HIDE DEF s
    <3>3. IsWork(x)
      BY WorkIs
    <3>4. /\ y = [f \in {"status", "attempts", "handler", "effect", "runs", "calls"} |-> y[f]]
          /\ y.attempts = x.attempts + 1 /\ y.status = s
      BY <3>1, <3>3 DEF IsWork
    <3>5. y.handler = x.handler /\ y.runs = x.runs /\ y.effect = x.effect /\ y.calls = x.calls
      BY <3>1, <3>3 DEF IsWork
    <3>6. IsWork(y)
      BY <2>1, <3>2, <3>3, <3>4, <3>5 DEF IsWork
    <3> QED BY <3>4, <3>5, <3>6, WorkIs DEF s
  <2> QED BY <2>1, <2>2 DEF IsDead
<1>2. CASE v = EventFailed(u, kind)
  BY <1>1, <1>2 DEF Kept, Ran, Recorded
<1>3. ASSUME NEW h \in Handlers, ~Replays(u, h), v = HandlerFailed(u, h, kind)
      PROVE  /\ v \in Work /\ v.status \in {"failed", "dead_letter"}
             /\ v.attempts = w.attempts + 1 /\ (v.status = "failed" => v.attempts < MaxAttempts)
             /\ Kept(v, live)
  <2>1. PICK x : x = [u EXCEPT !.handler[h] = "failed"]
    OBVIOUS
  <2>2. /\ x \in Work /\ x.status = u.status /\ x.attempts = u.attempts
        /\ x.handler = [u.handler EXCEPT ![h] = "failed"]
        /\ x.runs = u.runs /\ x.effect = u.effect /\ x.calls = u.calls
    BY <2>1 DEF Work, RecordStatus
  <2>3. u.runs \in [Handlers -> Nat] /\ u.handler \in [Handlers -> RecordStatus]
    BY DEF Work
  <2>4. v = EventFailed(x, kind)
    BY <1>3, <2>1 DEF HandlerFailed
  <2>5. Fails(x, v)
    BY <1>1, <2>2, <2>4
  <2>6. Ran(v)
    BY <2>2, <2>3, <2>5 DEF Ran, Kept
  <2>7. Recorded(u) => Recorded(v)
    BY <1>3, <2>2, <2>3, <2>5 DEF Recorded, Replays
  <2> QED BY <2>2, <2>5, <2>6, <2>7 DEF Kept
<1> QED BY <1>2, <1>3

-----------------------------------------------------------------------------
(* Steps.                                                                   *)

Others(d) ==
  \A q \in Dispatchers \ {d} :
    /\ draft'[q] = draft[q] /\ phase'[q] = phase[q] /\ batch'[q] = batch[q]
    /\ done'[q] = done[q] /\ next'[q] = next[q]

(* One dispatcher moves and nothing is committed.                           *)
LEMMA IterationStep ==
  ASSUME IInv, NEW d \in Dispatchers, States', db' = db, expired' = expired, Others(d),
         \A e \in Events : Kept(draft'[d][e], e \notin expired), Iteration(d)',
         \A q \in Dispatchers \ {d} : batch'[d] \intersect batch[q] = {}
  PROVE  IInv'
<1>1. \A e \in Events : db'[e].status # "publishing" /\ Kept(db'[e], e \notin expired')
  BY DEF IInv
<1>2. \A q \in Dispatchers, e \in Events : Kept(draft'[q][e], e \notin expired')
  BY DEF IInv, Others
<1>3. ASSUME NEW q \in Dispatchers PROVE Iteration(q)'
  <2>1. CASE q = d
    BY <2>1
  <2>2. CASE q # d
    <3>1. draft'[q] = draft[q] /\ phase'[q] = phase[q] /\ batch'[q] = batch[q]
          /\ done'[q] = done[q] /\ next'[q] = next[q]
      BY <2>2 DEF Others
    <3>2. Iteration(q)
      BY DEF IInv
    <3>3. Passed(q)'
      BY <3>1, <3>2 DEF Iteration, Passed, Current
    <3> QED BY <3>1, <3>2, <3>3 DEF Iteration
  <2> QED BY <2>1, <2>2
<1>4. \A p, q \in Dispatchers : p # q => batch'[p] \intersect batch'[q] = {}
  BY DEF IInv, Others
<1> QED BY <1>1, <1>2, <1>3, <1>4 DEF IInv

(* The loop goes on with the event at work.                                 *)
LEMMA ProgressStep ==
  ASSUME IInv, NEW d \in Dispatchers, AtHandler(d),
         NEW w \in Work, NEW n \in 1..NHandlers + 1,
         Progress(d, w, n), Kept(w, Current(d) \notin expired),
         Attempted(db[Current(d)], w),
         w.status = "publishing" => \A h \in Handlers : h < n => w.runs[h] > 0
  PROVE  IInv'
<1>1. /\ Iteration(d) /\ States
      /\ done[d] # batch[d] /\ phase[d] = "work"
  BY DEF IInv, AtHandler
<1>2. PICK c \in Events : c = Current(d) /\ c \in batch[d] \ done[d]
  BY <1>1, CurrentIsClaimed DEF Iteration
<1>3. /\ draft' = [draft EXCEPT ![d][c] = w] /\ next' = [next EXCEPT ![d] = n]
      /\ db' = db /\ phase' = phase /\ todo' = todo /\ batch' = batch /\ done' = done
      /\ expired' = expired
  BY <1>2 DEF Progress
<1>4. /\ draft'[d] = [draft[d] EXCEPT ![c] = w] /\ draft[d] \in [Events -> Work]
      /\ next'[d] = n
  BY <1>1, <1>3 DEF States
<1>5. States'
  BY <1>1, <1>3 DEF States
<1>6. Others(d)
  BY <1>1, <1>3 DEF Others, States
<1>7. \A e \in Events : Kept(draft'[d][e], e \notin expired)
  BY <1>2, <1>4 DEF IInv
<1>8. Passed(d)'
  <2>1. Current(d)' = c /\ draft'[d][c] = w
    BY <1>2, <1>3, <1>4 DEF Current
  <2> QED BY <2>1, <1>4 DEF Passed
<1>9. \A e \in batch[d] : Attempted(db[e], draft'[d][e])
  BY <1>1, <1>2, <1>4 DEF Iteration, States
<1>10. \A e \in done[d] : draft'[d][e].status # "publishing"
  BY <1>1, <1>2, <1>4 DEF Iteration, States
<1>11. Iteration(d)'
  BY <1>1, <1>3, <1>8, <1>9, <1>10 DEF Iteration
<1>12. \A q \in Dispatchers \ {d} : batch'[d] \intersect batch[q] = {}
  BY <1>3 DEF IInv
<1> QED BY <1>3, <1>5, <1>6, <1>7, <1>11, <1>12, IterationStep

(* What holds of the row at work.                                           *)
LEMMA AtWork ==
  ASSUME IInv, NEW d \in Dispatchers, AtHandler(d)
  PROVE  /\ Current(d) \in Events /\ Current(d) \in batch[d]
         /\ draft[d][Current(d)] \in Work /\ draft[d][Current(d)].status = "publishing"
         /\ Kept(draft[d][Current(d)], Current(d) \notin expired)
         /\ Attempted(db[Current(d)], draft[d][Current(d)])
         /\ next[d] \in Handlers /\ next[d] + 1 \in 1..NHandlers + 1
         /\ 1 \in 1..NHandlers + 1
         /\ \A h \in Handlers : h < next[d] => draft[d][Current(d)].runs[h] > 0
<1>1. Iteration(d) /\ States /\ done[d] # batch[d] /\ next[d] <= NHandlers
      /\ draft[d][Current(d)].status = "publishing"
  BY DEF IInv, AtHandler
<1>2. Current(d) \in Events /\ Current(d) \in batch[d]
  BY <1>1, CurrentIsClaimed DEF Iteration
<1>3. next[d] \in 1..NHandlers + 1 /\ NHandlers \in Nat \ {0}
  BY <1>1, DispatchAssumption DEF States
<1>4. next[d] \in Handlers /\ next[d] + 1 \in 1..NHandlers + 1 /\ 1 \in 1..NHandlers + 1
  BY <1>1, <1>3 DEF Handlers
<1>5. draft[d][Current(d)] \in Work /\ Kept(draft[d][Current(d)], Current(d) \notin expired)
  BY <1>1, <1>2 DEF States, IInv
<1> QED BY <1>1, <1>2, <1>4, <1>5 DEF Iteration, Passed

LEMMA SkipStep ==
  ASSUME IInv, NEW d \in Dispatchers, SkipHandler(d)
  PROVE  IInv'
<1>1. AtHandler(d) /\ Replays(draft[d][Current(d)], next[d])
      /\ Progress(d, draft[d][Current(d)], next[d] + 1)
  BY DEF SkipHandler
<1>2. draft[d][Current(d)].runs[next[d]] > 0
  BY <1>1, AtWork DEF Replays, Kept, Ran
<1>3. \A h \in Handlers : h < next[d] + 1 => draft[d][Current(d)].runs[h] > 0
  BY <1>1, <1>2, AtWork DEF Handlers
<1> QED BY <1>1, <1>3, AtWork, ProgressStep

LEMMA RunStep ==
  ASSUME IInv, NEW d \in Dispatchers, RunHandler(d)
  PROVE  IInv'
<1>1. PICK w, v : w = draft[d][Current(d)] /\ v = HandlerSucceeded(EffectDone(w, next[d]), next[d])
  OBVIOUS
<1>2. AtHandler(d) /\ ~Replays(w, next[d]) /\ Progress(d, v, next[d] + 1)
  BY <1>1 DEF RunHandler
<1>3. /\ v \in Work /\ v.status = "publishing" /\ v.attempts = w.attempts
      /\ Kept(v, Current(d) \notin expired)
      /\ v.runs[next[d]] > 0 /\ \A h \in Handlers : w.runs[h] > 0 => v.runs[h] > 0
  BY <1>1, <1>2, AtWork, SuccessIsKept
<1>4. \A h \in Handlers : h < next[d] + 1 => v.runs[h] > 0
  BY <1>1, <1>2, <1>3, AtWork DEF Handlers
<1>5. Attempted(db[Current(d)], v)
  BY <1>1, <1>2, <1>3, AtWork DEF Attempted
<1> QED BY <1>2, <1>3, <1>4, <1>5, AtWork, ProgressStep

LEMMA FailStep ==
  ASSUME IInv, NEW d \in Dispatchers, NEW kind \in Kinds, FailHandler(d, kind) \/ RefuseEvent(d, kind)
  PROVE  IInv'
<1>1. PICK w : w = draft[d][Current(d)]
  OBVIOUS
<1>2. AtHandler(d)
  BY DEF FailHandler, RefuseEvent
<1>3. /\ w \in Work /\ w.status = "publishing" /\ Kept(w, Current(d) \notin expired)
      /\ Attempted(db[Current(d)], w) /\ next[d] \in Handlers /\ 1 \in 1..NHandlers + 1
  BY <1>1, <1>2, AtWork
<1>4. PICK u, v :
        /\ u \in Work /\ u.status = w.status /\ u.attempts = w.attempts /\ Kept(u, Current(d) \notin expired)
        /\ \/ v = EventFailed(u, kind)
           \/ \E h \in Handlers : ~Replays(u, h) /\ v = HandlerFailed(u, h, kind)
        /\ Progress(d, v, 1)
  <2>1. CASE RefuseEvent(d, kind)
    BY <1>1, <1>3, <2>1 DEF RefuseEvent
  <2>2. CASE FailHandler(d, kind)
    <3>1. PICK u : /\ u = EffectDone(w, next[d]) \/ u = EffectRaised(w, next[d])
                   /\ ~Replays(w, next[d]) /\ Progress(d, HandlerFailed(u, next[d], kind), 1)
      BY <1>1, <2>2 DEF FailHandler
    <3>2. /\ u \in Work /\ u.status = w.status /\ u.attempts = w.attempts
          /\ u.handler = w.handler /\ u.runs = w.runs /\ (Recorded(w) => Recorded(u))
      BY <1>3, <3>1, EffectIsKept
    <3>3. Kept(u, Current(d) \notin expired)
      BY <1>3, <3>2 DEF Kept, Ran
    <3>4. ~Replays(u, next[d])
      BY <3>1, <3>2 DEF Replays
    <3> QED BY <1>3, <3>1, <3>2, <3>3, <3>4
  <2> QED BY <2>1, <2>2
<1>5. /\ v \in Work /\ v.status \in {"failed", "dead_letter"}
      /\ v.attempts = w.attempts + 1 /\ (v.status = "failed" => v.attempts < MaxAttempts)
      /\ Kept(v, Current(d) \notin expired)
  BY <1>3, <1>4, FailureIsKept
<1>6. Attempted(db[Current(d)], v)
  BY <1>3, <1>5 DEF Attempted
<1> QED BY <1>2, <1>3, <1>4, <1>5, <1>6, ProgressStep

LEMMA BeginStep ==
  ASSUME IInv, NEW d \in Dispatchers, Begin(d)
  PROVE  IInv'
<1>1. States /\ Iteration(d) /\ phase[d] = "idle"
  BY DEF IInv, Begin
<1>2. /\ phase' = [phase EXCEPT ![d] = "claim"] /\ todo' = [todo EXCEPT ![d] = FirstBatch]
      /\ db' = db /\ draft' = draft /\ batch' = batch /\ done' = done /\ next' = next
      /\ expired' = expired
  BY DEF Begin
<1>3. FirstBatch \subseteq Events
  BY DEF FirstBatch, Candidates
<1>4. States'
  BY <1>1, <1>2, <1>3 DEF States
<1>5. Others(d)
  BY <1>1, <1>2 DEF Others, States
<1>6. Iteration(d)'
  BY <1>1, <1>2 DEF Iteration, Passed, Current
<1>7. /\ \A e \in Events : Kept(draft'[d][e], e \notin expired)
      /\ \A q \in Dispatchers \ {d} : batch'[d] \intersect batch[q] = {}
  BY <1>2 DEF IInv
<1> QED BY <1>2, <1>4, <1>5, <1>6, <1>7, IterationStep

LEMMA ClaimStep ==
  ASSUME IInv, NEW d \in Dispatchers, TryClaim(d)
  PROVE  IInv'
<1>1. States /\ Iteration(d) /\ phase[d] = "claim" /\ next[d] = 1 /\ done[d] = {} /\ todo[d] # {}
  BY DEF IInv, TryClaim, Iteration
<1>2. PICK c \in Events : c = Min(todo[d])
  BY <1>1, LeastIsThere DEF States
<1>3. /\ ~Locked(c) /\ todo' = [todo EXCEPT ![d] = @ \ {c}]
      /\ db' = db /\ phase' = phase /\ done' = done /\ next' = next /\ expired' = expired
  BY <1>2 DEF TryClaim
<1>4. CASE batch' = batch /\ draft' = draft
  <2>1. States'
    BY <1>1, <1>3, <1>4 DEF States
  <2>2. Iteration(d)'
    BY <1>1, <1>3, <1>4 DEF Iteration, Passed, Current
  <2>3. /\ \A e \in Events : Kept(draft'[d][e], e \notin expired)
        /\ \A q \in Dispatchers \ {d} : batch'[d] \intersect batch[q] = {}
    BY <1>4 DEF IInv
  <2>4. Others(d)
    BY <1>3, <1>4 DEF Others
  <2> QED BY <1>3, <2>1, <2>2, <2>3, <2>4, IterationStep
<1>5. CASE /\ Eligible(db[c], seen[d][c]) /\ batch' = [batch EXCEPT ![d] = @ \union {c}]
           /\ draft' = [draft EXCEPT ![d][c] = [db[c] EXCEPT !.status = "publishing"]]
  <2>1. PICK w : w = [db[c] EXCEPT !.status = "publishing"]
    OBVIOUS
  <2>2. db[c] \in Work
    BY <1>1 DEF States
  <2>3. /\ w \in Work /\ w.status = "publishing" /\ w.attempts = db[c].attempts
        /\ w.handler = db[c].handler /\ w.effect = db[c].effect
        /\ w.runs = db[c].runs /\ w.calls = db[c].calls
    BY <2>1, <2>2 DEF Work
  <2>4. Kept(w, c \notin expired)
    <3>1. Kept(db[c], c \notin expired)
      BY DEF IInv
    <3> QED BY <2>3, <3>1 DEF Kept, Ran, Recorded
  <2>5. Attempted(db[c], w)
    BY <1>5, <2>3 DEF Attempted, Eligible
  <2>6. /\ draft'[d] = [draft[d] EXCEPT ![c] = w] /\ draft[d] \in [Events -> Work]
        /\ batch'[d] = batch[d] \union {c} /\ next'[d] = 1 /\ done'[d] = {}
    BY <1>1, <1>3, <1>5, <2>1 DEF States
  <2>7. States'
    BY <1>1, <1>3, <1>5, <2>1, <2>3 DEF States
  <2>8. Others(d)
    BY <1>1, <1>3, <1>5 DEF Others, States
  <2>9. \A e \in Events : Kept(draft'[d][e], e \notin expired)
    BY <2>4, <2>6 DEF IInv
  <2>10. \A e \in batch'[d] : Attempted(db[e], draft'[d][e])
    BY <1>1, <2>5, <2>6 DEF Iteration, States
  <2>11. Passed(d)'
    <3>1. \A h \in Handlers : ~(h < next'[d])
      BY <2>6 DEF Handlers
    <3> QED BY <3>1 DEF Passed
  <2>12. Iteration(d)'
    BY <1>3, <2>6, <2>10, <2>11 DEF Iteration
  <2>13. \A q \in Dispatchers \ {d} : batch'[d] \intersect batch[q] = {}
    BY <1>3, <2>6 DEF IInv, Locked
  <2> QED BY <1>3, <2>7, <2>8, <2>9, <2>12, <2>13, IterationStep
<1> QED BY <1>2, <1>4, <1>5 DEF TryClaim

(* The claim returns, or the supervisor restarts the process.               *)
LEMMA PhaseStep ==
  ASSUME IInv, NEW d \in Dispatchers, ClaimReturn(d) \/ Restart(d)
  PROVE  IInv'
<1>1. PICK p \in {"work", "idle"} :
        /\ phase' = [phase EXCEPT ![d] = p] /\ phase[d] # "work"
        /\ db' = db /\ draft' = draft /\ batch' = batch /\ done' = done /\ next' = next
        /\ todo' = todo /\ expired' = expired
  BY DEF ClaimReturn, Restart
<1>2. States /\ Iteration(d)
  BY DEF IInv
<1>3. States'
  BY <1>1, <1>2 DEF States
<1>4. Others(d)
  BY <1>1, <1>2 DEF Others, States
<1>5. Iteration(d)'
  BY <1>1, <1>2 DEF Iteration, Passed, Current
<1>6. /\ \A e \in Events : Kept(draft'[d][e], e \notin expired)
      /\ \A q \in Dispatchers \ {d} : batch'[d] \intersect batch[q] = {}
  BY <1>1 DEF IInv
<1> QED BY <1>1, <1>3, <1>4, <1>5, <1>6, IterationStep

LEMMA MarkStep ==
  ASSUME IInv, NEW d \in Dispatchers, MarkEvent(d)
  PROVE  IInv'
<1>1. States /\ Iteration(d) /\ done[d] # batch[d] /\ phase[d] = "work"
      /\ (next[d] > NHandlers \/ draft[d][Current(d)].status # "publishing")
  BY DEF IInv, MarkEvent, Handled
<1>2. PICK c \in Events : c = Current(d) /\ c \in batch[d] \ done[d]
  BY <1>1, CurrentIsClaimed DEF Iteration
<1>3. PICK u, w :
        /\ u = draft[d][c] /\ u \in Work
        /\ w = [u EXCEPT !.status = IF @ = "publishing" THEN "published" ELSE @]
  BY <1>1 DEF States
<1>4. /\ draft' = [draft EXCEPT ![d][c] = w] /\ done' = [done EXCEPT ![d] = @ \union {c}]
      /\ next' = [next EXCEPT ![d] = 1]
      /\ db' = db /\ phase' = phase /\ todo' = todo /\ batch' = batch /\ expired' = expired
  BY <1>1, <1>2, <1>3 DEF MarkEvent, States
<1>5. /\ w \in Work /\ w.attempts = u.attempts /\ w.handler = u.handler /\ w.effect = u.effect
      /\ w.runs = u.runs /\ w.calls = u.calls
      /\ w.status = IF u.status = "publishing" THEN "published" ELSE u.status
  BY <1>3 DEF Work
<1>6. Kept(u, c \notin expired) /\ Attempted(db[c], u)
  BY <1>1, <1>2, <1>3 DEF IInv, Iteration
<1>7. u.status = "publishing" => \A h \in Handlers : u.runs[h] > 0
  <2>1. next[d] \in 1..NHandlers + 1 /\ NHandlers \in Nat
    BY <1>1, DispatchAssumption DEF States
  <2>2. u.status = "publishing" => \A h \in Handlers : h < next[d]
    BY <1>1, <1>2, <1>3, <2>1 DEF Handlers
  <2> QED BY <1>1, <1>2, <1>3, <2>2 DEF Iteration, Passed
<1>8. Kept(w, c \notin expired)
  BY <1>5, <1>6, <1>7 DEF Kept, Ran, Recorded
<1>9. Attempted(db[c], w) /\ w.status # "publishing"
  BY <1>5, <1>6 DEF Attempted
<1>10. /\ draft'[d] = [draft[d] EXCEPT ![c] = w] /\ draft[d] \in [Events -> Work]
       /\ done'[d] = done[d] \union {c} /\ next'[d] = 1
  BY <1>1, <1>4 DEF States
<1>11. States'
  <2>1. draft' \in [Dispatchers -> [Events -> Work]]
    BY <1>1, <1>4, <1>5 DEF States
  <2>2. done' \in [Dispatchers -> SUBSET Events]
    BY <1>1, <1>4 DEF States
  <2>3. next' \in [Dispatchers -> 1..NHandlers + 1]
    BY <1>1, <1>4, DispatchAssumption DEF States
  <2> QED BY <1>1, <1>4, <2>1, <2>2, <2>3 DEF States
<1>12. Others(d)
  BY <1>1, <1>4 DEF Others, States
<1>13. \A e \in Events : Kept(draft'[d][e], e \notin expired)
  BY <1>8, <1>10 DEF IInv
<1>14. Passed(d)'
  <2>1. \A h \in Handlers : ~(h < next'[d])
    BY <1>10 DEF Handlers
  <2> QED BY <2>1 DEF Passed
<1>15. \A e \in batch[d] : Attempted(db[e], draft'[d][e])
  BY <1>1, <1>9, <1>10 DEF Iteration, States
<1>16. \A e \in done'[d] : draft'[d][e].status # "publishing"
  BY <1>1, <1>9, <1>10 DEF Iteration, States
<1>17. Iteration(d)'
  BY <1>1, <1>2, <1>4, <1>10, <1>14, <1>15, <1>16 DEF Iteration
<1>18. \A q \in Dispatchers \ {d} : batch'[d] \intersect batch[q] = {}
  BY <1>4 DEF IInv
<1> QED BY <1>4, <1>11, <1>12, <1>13, <1>17, <1>18, IterationStep

(* The transaction rolls back, or commits the drafts of its events.         *)
LEMMA EndStep ==
  ASSUME IInv, NEW d \in Dispatchers, NEW p \in {"idle", "exited"}, EndIteration(d, p),
         expired' = expired,
         \/ db' = db
         \/ /\ done[d] = batch[d]
            /\ db' = [e \in Events |-> IF e \in batch[d] THEN draft[d][e] ELSE db[e]]
  PROVE  IInv'
<1>1. States
  BY DEF IInv
<1>2. /\ phase' = [phase EXCEPT ![d] = p] /\ todo' = [todo EXCEPT ![d] = {}]
      /\ batch' = [batch EXCEPT ![d] = {}] /\ done' = [done EXCEPT ![d] = {}]
      /\ next' = [next EXCEPT ![d] = 1]
      /\ draft' = [draft EXCEPT ![d] = [e \in Events |-> NoWork]]
  BY DEF EndIteration
<1>3. /\ phase'[d] = p /\ batch'[d] = {} /\ done'[d] = {} /\ next'[d] = 1
      /\ \A e \in Events : draft'[d][e] = NoWork
  BY <1>1, <1>2 DEF States
<1>4. Others(d)
  BY <1>1, <1>2 DEF Others, States
<1>5. \A e \in Events :
        \/ db'[e] = db[e]
        \/ e \in batch[d] /\ e \in done[d] /\ db'[e] = draft[d][e]
  OBVIOUS
<1>6. db' \in [Events -> Work]
  <2>1. CASE db' = db
    BY <1>1, <2>1 DEF States
  <2>2. CASE db' = [e \in Events |-> IF e \in batch[d] THEN draft[d][e] ELSE db[e]]
    BY <1>1, <2>2 DEF States
  <2> QED BY <2>1, <2>2
<1>7. States'
  <2>1. draft' \in [Dispatchers -> [Events -> Work]]
    BY <1>1, <1>2, NoWorkIsKept DEF States
  <2>2. next' \in [Dispatchers -> 1..NHandlers + 1]
    BY <1>1, <1>2, DispatchAssumption DEF States
  <2> QED BY <1>1, <1>2, <1>6, <2>1, <2>2 DEF States
<1>8. \A e \in Events : db'[e].status # "publishing" /\ Kept(db'[e], e \notin expired')
  BY <1>5 DEF IInv, Iteration
<1>9. \A q \in Dispatchers, e \in Events : Kept(draft'[q][e], e \notin expired')
  BY <1>3, <1>4, NoWorkIsKept DEF IInv, Others, Kept
<1>10. \A q \in Dispatchers \ {d} : \A e \in batch[q] : db'[e] = db[e]
  BY <1>1, <1>5 DEF IInv, States
<1>11. ASSUME NEW q \in Dispatchers PROVE Iteration(q)'
  <2>1. CASE q = d
    BY <1>3, <2>1 DEF Iteration, Passed
  <2>2. CASE q # d
    <3>1. draft'[q] = draft[q] /\ phase'[q] = phase[q] /\ batch'[q] = batch[q]
          /\ done'[q] = done[q] /\ next'[q] = next[q]
      BY <1>4, <2>2 DEF Others
    <3>2. Iteration(q)
      BY DEF IInv
    <3>3. Passed(q)'
      BY <3>1, <3>2 DEF Iteration, Passed, Current
    <3>4. \A e \in batch[q] : db'[e] = db[e]
      BY <1>10, <2>2
    <3> QED BY <3>1, <3>2, <3>3, <3>4 DEF Iteration
  <2> QED BY <2>1, <2>2
<1>12. \A x, q \in Dispatchers : x # q => batch'[x] \intersect batch'[q] = {}
  BY <1>3, <1>4 DEF IInv, Others
<1> QED BY <1>7, <1>8, <1>9, <1>11, <1>12 DEF IInv

(* A service or the operator commits a row that no iteration has claimed.   *)
LEMMA ServiceStep ==
  ASSUME IInv, NEW e \in Events, NEW w \in Work, db' = [db EXCEPT ![e] = w],
         w.status # "publishing", Kept(w, e \notin expired'), expired \subseteq expired',
         \A d \in Dispatchers : e \notin batch[d],
         UNCHANGED <<draft, phase, todo, batch, done, next>>
  PROVE  IInv'
<1>1. States'
  BY DEF IInv, States
<1>2. \A x \in Events \ {e} : db'[x] = db[x]
  BY DEF IInv, States
<1>3. db'[e] = w
  BY DEF IInv, States
<1>4. \A x \in Events : db'[x].status # "publishing" /\ Kept(db'[x], x \notin expired')
  BY <1>2, <1>3 DEF IInv, Kept
<1>5. \A q \in Dispatchers, x \in Events : Kept(draft'[q][x], x \notin expired')
  BY DEF IInv, Kept
<1>6. ASSUME NEW q \in Dispatchers PROVE Iteration(q)'
  <2>1. \A x \in batch[q] : db'[x] = db[x]
    BY <1>2 DEF IInv, States
  <2>2. Passed(q)'
    BY DEF IInv, Iteration, Passed, Current
  <2> QED BY <2>1, <2>2 DEF IInv, Iteration
<1>7. \A x, q \in Dispatchers : x # q => batch'[x] \intersect batch'[q] = {}
  BY DEF IInv
<1> QED BY <1>1, <1>4, <1>5, <1>6, <1>7 DEF IInv

LEMMA AddStep ==
  ASSUME IInv, NEW e \in Events, Add(e) \/ Replay(e)
  PROVE  IInv'
<1>1. PICK w : w = [db[e] EXCEPT !.status = "pending"]
  OBVIOUS
<1>2. /\ db[e].status \in {"absent", "dead_letter"} /\ db' = [db EXCEPT ![e] = w]
      /\ UNCHANGED <<draft, phase, todo, batch, done, next, expired>>
  <2>1. CASE Add(e)
    BY <1>1, <2>1 DEF Add
  <2>2. CASE Replay(e)
    BY <1>1, <2>2 DEF Replay
  <2> QED BY <2>1, <2>2
<1>3. db[e] \in Work /\ Kept(db[e], e \notin expired)
  BY DEF IInv, States
<1>4. /\ w \in Work /\ w.status = "pending" /\ w.handler = db[e].handler
      /\ w.effect = db[e].effect /\ w.runs = db[e].runs /\ w.calls = db[e].calls
  BY <1>1, <1>3 DEF Work
<1>5. Kept(w, e \notin expired)
  BY <1>3, <1>4 DEF Kept, Ran, Recorded
<1>6. \A d \in Dispatchers : e \notin batch[d]
  BY <1>2 DEF IInv, Iteration, Attempted
<1> QED BY <1>2, <1>4, <1>5, <1>6, ServiceStep

LEMMA ExpireStep ==
  ASSUME IInv, NEW e \in Events, Expire(e)
  PROVE  IInv'
<1>1. PICK u, w : u = db[e] /\ w = [u EXCEPT !.handler = NoWork.handler, !.effect = NoWork.effect]
  OBVIOUS
<1>2. /\ ~Locked(e) /\ db' = [db EXCEPT ![e] = w] /\ expired' = expired \union {e}
      /\ UNCHANGED <<draft, phase, todo, batch, done, next>>
  BY <1>1 DEF Expire
<1>3. u \in Work /\ Kept(u, e \notin expired) /\ u.status # "publishing"
  BY <1>1 DEF IInv, States
<1>4. IsWork(u) /\ IsWork(NoWork)
  BY <1>3, NoWorkIsKept, WorkIs
<1>5. /\ w = [f \in {"status", "attempts", "handler", "effect", "runs", "calls"} |-> w[f]]
      /\ w.status = u.status /\ w.attempts = u.attempts
  BY <1>1, <1>4 DEF IsWork
<1>6. /\ w.handler = NoWork.handler /\ w.effect = NoWork.effect
      /\ w.runs = u.runs /\ w.calls = u.calls
  BY <1>1, <1>4 DEF IsWork
<1>7. w \in Work
  BY <1>4, <1>5, <1>6, WorkIs DEF IsWork
<1>8. \A h \in Handlers : NoWork.handler[h] = "none"
  BY DEF NoWork
<1>9. Kept(w, e \notin expired')
  BY <1>2, <1>3, <1>5, <1>6, <1>8 DEF Kept, Ran
<1>10. \A d \in Dispatchers : e \notin batch[d]
  BY <1>2 DEF Locked
<1> QED BY <1>2, <1>3, <1>5, <1>7, <1>9, <1>10, ServiceStep

LEMMA InitIInv == Init => IInv
<1> SUFFICES ASSUME Init PROVE IInv
  OBVIOUS
<1>1. States
  BY NoWorkIsKept, DispatchAssumption DEF Init, States
<1>2. \A e \in Events : db[e] = NoWork
  BY DEF Init
<1>3. \A d \in Dispatchers, e \in Events : draft[d][e] = NoWork
  BY DEF Init
<1>4. \A d \in Dispatchers : done[d] = {} /\ batch[d] = {} /\ next[d] = 1
  BY DEF Init
<1>5. \A d \in Dispatchers : Iteration(d)
  BY <1>4 DEF Iteration, Passed
<1> QED BY <1>1, <1>2, <1>3, <1>4, <1>5, NoWorkIsKept DEF IInv, Kept

LEMMA NextIInv == IInv /\ [Next]_vars => IInv'
<1> SUFFICES ASSUME IInv, [Next]_vars PROVE IInv'
  OBVIOUS
<1>1. ASSUME NEW d \in Dispatchers, Step(d) \/ Crash(d) PROVE IInv'
  <2>1. CASE Begin(d)
    BY <2>1, BeginStep
  <2>2. CASE TryClaim(d)
    BY <2>2, ClaimStep
  <2>3. CASE ClaimReturn(d) \/ Restart(d)
    BY <2>3, PhaseStep
  <2>4. CASE SkipHandler(d)
    BY <2>4, SkipStep
  <2>5. CASE RunHandler(d)
    BY <2>5, RunStep
  <2>6. CASE \E kind \in Kinds : FailHandler(d, kind) \/ RefuseEvent(d, kind)
    BY <2>6, FailStep
  <2>7. CASE MarkEvent(d)
    BY <2>7, MarkStep
  <2>8. CASE BreakSession(d) \/ MarkConflict(d) \/ Crash(d)
    <3>1. EndIteration(d, "exited") /\ db' = db /\ expired' = expired
      BY <2>8 DEF BreakSession, MarkConflict, Crash, RollBack
    <3> QED BY <3>1, EndStep
  <2>9. CASE Commit(d)
    BY <2>9, EndStep DEF Commit
  <2> QED BY <1>1, <2>1, <2>2, <2>3, <2>4, <2>5, <2>6, <2>7, <2>8, <2>9 DEF Step
<1>2. ASSUME NEW e \in Events, Add(e) \/ Replay(e) \/ Expire(e) PROVE IInv'
  BY <1>2, AddStep, ExpireStep
<1>3. CASE UNCHANGED vars
  BY <1>3 DEF vars, IInv, States, Iteration, Passed, Current
<1> QED BY <1>1, <1>2, <1>3 DEF Next

LEMMA AlwaysIInv == Spec => []IInv
BY InitIInv, NextIInv, PTL DEF Spec

(* An event is published only when every handler of its type has succeeded; *)
(* while its records live each has committed its writes once and its        *)
(* external call is repeated only when a rollback forgot it, whatever       *)
(* raises, crashes, conflicts and is replayed (_dispatch_claimed_event,     *)
(* run_event_side_effect).                                                  *)
THEOREM EventsAreHandledOnce == Spec => []HandledOnce
<1>1. IInv => HandledOnce
  BY DEF IInv, Kept, Ran, Recorded, HandledOnce, PublishedMeansHandled, HandlerSucceedsOnce,
         EffectRepeatedOnlyAfterRollback
<1> QED BY <1>1, AlwaysIInv, PTL

(* The loop implements EventDelivery: a commit moves each event of its      *)
(* batch by one attempt, counted, and nothing else moves one but a service, *)
(* the operator and no process (claim_batch, mark_failed, replay).          *)
THEOREM DispatchImplementsDelivery == Spec => ImplementsDelivery
<1>1. Init => Delivery!Init
  BY DEF Init, Delivery!Init, NoWork, DeliveryState
<1>2. ASSUME IInv, [Next]_vars PROVE [Delivery!Next]_Delivery!vars
  <2> DEFINE State(e) == DeliveryState(db[e].status)
  <2>1. ASSUME db' = db PROVE UNCHANGED Delivery!vars
    BY <2>1 DEF Delivery!vars
  <2>2. ASSUME \A e \in Events :
                 \/ State(e)' = State(e) /\ db'[e].attempts = db[e].attempts
                 \/ State(e) = "absent" /\ State(e)' = "open" /\ db'[e].attempts = db[e].attempts
                 \/ State(e) = "open" /\ State(e)' = "published" /\ db'[e].attempts = db[e].attempts
                 \/ /\ State(e) = "open" /\ db'[e].attempts = db[e].attempts + 1
                    /\ State(e)' = "dead" \/ (State(e)' = "open" /\ db'[e].attempts < MaxAttempts)
                 \/ State(e) = "dead" /\ State(e)' = "open" /\ db'[e].attempts = db[e].attempts
        PROVE  Delivery!Next
    BY <2>2 DEF Delivery!Next, Delivery!Added, Delivery!Published, Delivery!Failed,
                Delivery!Replayed, Delivery!Untouched
  <2>3. States
    BY <1>2 DEF IInv
  <2>4. ASSUME NEW d \in Dispatchers, Commit(d) PROVE Delivery!Next
    <3>1. ASSUME NEW e \in Events
          PROVE  \/ db'[e] = db[e]
                 \/ Attempted(db[e], db'[e]) /\ db'[e].status # "publishing"
      BY <1>2, <2>3, <2>4 DEF IInv, Iteration, Commit
    <3> QED BY <2>2, <3>1 DEF Attempted, DeliveryState
  <2>5. ASSUME NEW e \in Events, Add(e) \/ Replay(e) PROVE Delivery!Next
    <3>1. /\ \A x \in Events \ {e} : db'[x] = db[x]
          /\ db'[e].status = "pending" /\ db'[e].attempts = db[e].attempts
          /\ db[e].status \in {"absent", "dead_letter"}
      <4>1. db[e] \in Work /\ db \in [Events -> Work]
        BY <2>3 DEF States
      <4>2. db' = [db EXCEPT ![e] = [db[e] EXCEPT !.status = "pending"]]
        BY <2>5 DEF Add, Replay
      <4>3. /\ [db[e] EXCEPT !.status = "pending"].status = "pending"
            /\ [db[e] EXCEPT !.status = "pending"].attempts = db[e].attempts
        BY <4>1 DEF Work
      <4> QED BY <2>5, <4>1, <4>2, <4>3 DEF Add, Replay
    <3> QED BY <2>2, <3>1 DEF DeliveryState
  <2>6. ASSUME NEW e \in Events, Expire(e) PROVE Delivery!Next
    <3>1. PICK w : w = [db[e] EXCEPT !.handler = NoWork.handler, !.effect = NoWork.effect]
      OBVIOUS
    <3>2. db[e] \in Work /\ IsWork(db[e]) /\ db \in [Events -> Work]
      BY <2>3, WorkIs DEF States
    <3>3. w.status = db[e].status /\ w.attempts = db[e].attempts
      BY <3>1, <3>2 DEF IsWork
    <3>4. db' = [db EXCEPT ![e] = w]
      BY <2>6, <3>1 DEF Expire
    <3>5. \A x \in Events : db'[x].status = db[x].status /\ db'[x].attempts = db[x].attempts
      BY <3>2, <3>3, <3>4
    <3> QED BY <2>2, <3>5
  <2>7. ASSUME NEW d \in Dispatchers, Step(d) \/ Crash(d), ~Commit(d) PROVE db' = db
    BY <2>7 DEF Step, Crash, Begin, TryClaim, ClaimReturn, SkipHandler, RunHandler, BreakSession,
                FailHandler, RefuseEvent, MarkEvent, MarkConflict, Restart, RollBack, Progress
  <2>8. CASE UNCHANGED vars
    BY <2>1, <2>8 DEF vars
  <2> QED BY <1>2, <2>1, <2>4, <2>5, <2>6, <2>7, <2>8 DEF Next
<1> QED BY <1>1, <1>2, AlwaysIInv, PTL DEF Spec, ImplementsDelivery, Delivery!Spec
=============================================================================
