----------------------------- MODULE LeaseProofs -----------------------------
(***************************************************************************)
(* Proofs about module Lease, for every set of clients and takeover calls, *)
(* every set of durations and every bound.                                 *)
(***************************************************************************)
EXTENDS Lease, LeaseManagerProofs

-----------------------------------------------------------------------------
(* The calls of takeHumanControl().                                        *)

(***************************************************************************)
(* What the first k unsettled jobs, counted as a waiting call counts them, *)
(* still owe; and what a call may rely on: either all that had been        *)
(* revoked when it was made is fenced, or the jobs it waits for owe the    *)
(* rest.                                                                   *)
(***************************************************************************)
Queued(s, k) == 1..(k - (IF s.running THEN 1 ELSE 0))

OwedBy(s, k) == s.todo \cup s.failed \cup UNION {s.queue[i] : i \in Queued(s, k)}

CallInv(s, call) ==
    /\ call.phase \in {"awaiting", "fencing"} =>
         /\ call.ahead \in 1..JobsAhead(s)
         /\ call.revoked \subseteq s.fenced \cup OwedBy(s, call.ahead)
    /\ call.phase \in {"resume", "answer", "fenced"} => call.revoked \subseteq s.fenced

(* All jobs together owe everything.                                       *)
LEMMA OwedByAll ==
    ASSUME NEW s \in Manager
    PROVE  OwedBy(s, JobsAhead(s)) = Owed(s)
<1>1. Queued(s, JobsAhead(s)) = 1..Len(s.queue)
  BY JobsAheadType DEF Queued
<1> QED
  BY <1>1 DEF OwedBy, Owed

(* Jobs added behind do not disturb a waiting call.                        *)
LEMMA ExtendsCall ==
    ASSUME NEW s \in Manager, NEW e \in Manager, Extends(s, e),
           NEW call, CallInv(s, call)
    PROVE  CallInv(e, call)
<1>1. /\ e.running = s.running /\ e.todo = s.todo /\ e.failed = s.failed
      /\ e.fenced = s.fenced /\ Len(s.queue) <= Len(e.queue)
      /\ \A i \in 1..Len(s.queue) : e.queue[i] = s.queue[i]
  BY DEF Extends
<1>2. CASE call.phase \in {"awaiting", "fencing"}
  <2>1. call.ahead \in 1..JobsAhead(s) /\ call.revoked \subseteq s.fenced \cup OwedBy(s, call.ahead)
    BY <1>2 DEF CallInv
  <2>2. call.ahead \in 1..JobsAhead(e)
    BY <1>1, <2>1, JobsAheadType
  <2>3. Queued(e, call.ahead) = Queued(s, call.ahead)
    BY <1>1 DEF Queued
  <2>4. \A i \in Queued(s, call.ahead) : i \in 1..Len(s.queue)
    BY <2>1, JobsAheadType DEF Queued
  <2>5. \A i \in Queued(s, call.ahead) : e.queue[i] = s.queue[i]
    BY <1>1, <2>4
  <2>6. OwedBy(e, call.ahead) = OwedBy(s, call.ahead)
    BY <1>1, <2>3, <2>5 DEF OwedBy
  <2> QED
    BY <1>1, <1>2, <2>1, <2>2, <2>6 DEF CallInv
<1>3. CASE call.phase \notin {"awaiting", "fencing"}
  BY <1>1, <1>3 DEF CallInv
<1> QED
  BY <1>2, <1>3

(* A call that begins to wait for the last job.                            *)
LEMMA WaitingForLast ==
    ASSUME NEW s, ManagerInv(s), Revoking(s), NEW phase \in {"awaiting", "fencing"},
           NEW R, R \subseteq s.fenced \cup Owed(s)
    PROVE  CallInv(s, [phase |-> phase, ahead |-> JobsAhead(s), revoked |-> R])
<1>1. s \in Manager /\ s.queue \in Seq(SUBSET Target)
  BY DEF ManagerInv, Manager
<1>2. JobsAhead(s) \in Nat \ {0}
  BY <1>1, JobsAheadType DEF Revoking
<1>3. OwedBy(s, JobsAhead(s)) = Owed(s)
  BY <1>1, OwedByAll
<1> QED
  BY <1>2, <1>3 DEF CallInv

(* The beginning of a job moves its targets from the queue to the job.     *)
LEMMA BeginCall ==
    ASSUME NEW s, ManagerInv(s), ~s.running, s.queue # <<>>,
           NEW call, CallInv(s, call)
    PROVE  CallInv(JobBegun(s), call)
<1> DEFINE b == JobBegun(s)
<1>1. s \in Manager /\ s.todo = {}
  BY DEF ManagerInv, QuietJob
<1>2. /\ b \in Manager /\ b.fenced = s.fenced
      /\ b.running = TRUE /\ b.failed = {} /\ b.todo = s.failed \cup s.queue[1]
      /\ Len(s.queue) \in Nat \ {0} /\ Len(b.queue) = Len(s.queue) - 1
      /\ \A i \in 1..(Len(s.queue) - 1) : b.queue[i] = s.queue[i + 1]
  BY <1>1, JobBegunFields
<1> HIDE DEF b
<1>3. CASE call.phase \in {"awaiting", "fencing"}
  <2> DEFINE k == call.ahead
  <2>1. k \in 1..JobsAhead(s) /\ call.revoked \subseteq s.fenced \cup OwedBy(s, k)
    BY <1>3 DEF CallInv
  <2>2. JobsAhead(s) = Len(s.queue) /\ JobsAhead(b) = Len(s.queue)
    BY <1>1, <1>2, JobsAheadType
  <2>3. k \in 1..JobsAhead(b)
    BY <2>1, <2>2
  <2>4. Queued(s, k) = 1..k /\ Queued(b, k) = 1..(k - 1)
    BY <1>2, <2>1, <2>2 DEF Queued
  <2>5. OwedBy(s, k) \subseteq OwedBy(b, k)
    <3>1. ASSUME NEW x \in OwedBy(s, k)
          PROVE  x \in OwedBy(b, k)
      <4>1. x \in s.failed \/ \E i \in 1..k : x \in s.queue[i]
        BY <1>1, <2>4 DEF OwedBy
      <4>2. CASE x \in s.failed \cup s.queue[1]
        BY <1>2, <4>2 DEF OwedBy
      <4>3. CASE \E i \in 2..k : x \in s.queue[i]
        <5>1. PICK i \in 2..k : x \in s.queue[i]
          BY <4>3
        <5>2. i - 1 \in 1..(k - 1) /\ i - 1 \in 1..(Len(s.queue) - 1) /\ (i - 1) + 1 = i
          BY <1>2, <2>1, <2>2, <5>1
        <5>3. b.queue[i - 1] = s.queue[i]
          BY <1>2, <5>2
        <5> QED
          BY <2>4, <5>1, <5>2, <5>3 DEF OwedBy
      <4>4. \A i \in 1..k : i = 1 \/ i \in 2..k
        BY <1>2, <2>1, <2>2
      <4> QED
        BY <4>1, <4>2, <4>3, <4>4
    <3> QED
      BY <3>1
  <2> QED
    BY <1>2, <1>3, <2>1, <2>3, <2>5 DEF CallInv, b
<1>4. CASE call.phase \notin {"awaiting", "fencing"}
  BY <1>2, <1>4 DEF CallInv, b
<1> QED
  BY <1>3, <1>4

(* A handler call fences its target or leaves it owed.                     *)
LEMMA HandlerCall ==
    ASSUME NEW s \in Manager, NEW e \in Manager, e.queue = s.queue, e.running = s.running,
           s.fenced \subseteq e.fenced,
           s.fenced \cup s.todo \cup s.failed \subseteq e.fenced \cup e.todo \cup e.failed,
           NEW call, CallInv(s, call)
    PROVE  CallInv(e, call)
<1>1. JobsAhead(e) = JobsAhead(s)
  BY DEF JobsAhead
<1>2. \A k : Queued(e, k) = Queued(s, k)
  BY DEF Queued
<1>3. \A k : s.fenced \cup OwedBy(s, k) \subseteq e.fenced \cup OwedBy(e, k)
  BY <1>2 DEF OwedBy
<1> QED
  BY <1>1, <1>3 DEF CallInv

(* The settlement of a job: a call that waited for it goes on with         *)
(* everything fenced, or fails; the others wait for one job less.          *)
LEMMA SettleCall ==
    ASSUME NEW s, ManagerInv(s), s.running, s.todo = {}, s = lm,
           NEW call \in TakeoverCall, CallInv(s, call)
    PROVE  AfterJob(call) \in TakeoverCall /\ CallInv(JobSettled(s), AfterJob(call))
<1> DEFINE h == [s EXCEPT !.running = FALSE]
           a == AfterJob(call)
<1>1. /\ h \in Manager /\ h.queue = s.queue /\ h.running = FALSE
      /\ h.todo = {} /\ h.failed = s.failed /\ h.fenced = s.fenced
      /\ Extends(h, JobSettled(s)) /\ JobSettled(s) \in Manager /\ s \in Manager
  BY JobSettledKeeps DEF ManagerInv, Moves, Advances
<1> HIDE DEF h
<1>2. a \in TakeoverCall /\ CallInv(h, a)
  <2>1. CASE call.phase \notin {"awaiting", "fencing"}
    <3>1. a = call
      BY <2>1 DEF AfterJob
    <3> QED
      BY <1>1, <2>1, <3>1 DEF CallInv
  <2>2. CASE call.phase \in {"awaiting", "fencing"} /\ call.ahead > 1
    <3>1. a = [call EXCEPT !.ahead = call.ahead - 1]
      BY <2>2 DEF AfterJob, TakeoverCall
    <3>2. call.ahead \in 1..JobsAhead(s) /\ call.revoked \subseteq s.fenced \cup OwedBy(s, call.ahead)
      BY <2>2 DEF CallInv
    <3>3. call.ahead \in Nat /\ call.ahead - 1 \in Nat
      BY <2>2 DEF TakeoverCall
    <3>4. a \in TakeoverCall /\ a.phase = call.phase /\ a.ahead = call.ahead - 1
          /\ a.revoked = call.revoked
      BY <3>1, <3>3 DEF TakeoverCall
    <3>5. JobsAhead(h) = JobsAhead(s) - 1
      BY <1>1, JobsAheadType
    <3>6. a.ahead \in 1..JobsAhead(h)
      BY <1>1, <2>2, <3>2, <3>3, <3>4, <3>5, JobsAheadType
    <3>7. Queued(h, a.ahead) = Queued(s, call.ahead)
      BY <1>1, <3>3, <3>4 DEF Queued
    <3>8. OwedBy(h, a.ahead) = OwedBy(s, call.ahead)
      BY <1>1, <3>7 DEF OwedBy
    <3> HIDE DEF a
    <3> QED
      BY <1>1, <2>2, <3>2, <3>4, <3>6, <3>8 DEF CallInv
  <2>3. CASE call.phase \in {"awaiting", "fencing"} /\ ~(call.ahead > 1)
    <3>1. call.ahead \in 1..JobsAhead(s) /\ call.revoked \subseteq s.fenced \cup OwedBy(s, call.ahead)
      BY <2>3 DEF CallInv
    <3>2. call.ahead = 1
      BY <1>1, <2>3, <3>1, JobsAheadType
    <3>3. Queued(s, call.ahead) = {}
      BY <3>2 DEF Queued
    <3>4. s.failed = {} => call.revoked \subseteq s.fenced
      BY <3>1, <3>3 DEF OwedBy
    <3> DEFINE next == IF lm.failed # {} THEN "failed"
                       ELSE IF call.phase = "awaiting" THEN "resume"
                       ELSE "answer"
    <3>5. a = [call EXCEPT !.ahead = 0, !.phase = next]
      BY <2>3 DEF AfterJob
    <3>6. next \in {"failed", "resume", "answer"} /\ (s.failed # {} => next = "failed")
      OBVIOUS
    <3> HIDE DEF next, a
    <3>8. next \in Phase
      BY <3>6 DEF Phase
    <3>7. a \in TakeoverCall /\ a.phase = next /\ a.revoked = call.revoked
      BY <3>5, <3>8 DEF TakeoverCall
    <3> QED
      BY <1>1, <3>4, <3>6, <3>7 DEF CallInv
  <2> QED
    BY <2>1, <2>2, <2>3
<1> QED
  BY <1>1, <1>2, ExtendsCall

-----------------------------------------------------------------------------
(* The inductive invariant of the specification.                           *)

IInv ==
    /\ TypeOK
    /\ ManagerInv(lm)
    /\ Awake(lm)
    /\ \A t \in Takeover : CallInv(lm, takeover[t])

(* It holds initially.                                                     *)
LEMMA InitInv == Init => IInv
<1> SUFFICES ASSUME Init PROVE IInv
  OBVIOUS
<1>1. lm = NewManager /\ lm \in Manager /\ ManagerInv(lm) /\ Awake(lm)
  BY NewManagerKeeps DEF Init
<1>5. \A t \in Takeover : takeover[t] = [phase |-> "idle", ahead |-> 0, revoked |-> {}]
  BY DEF Init
<1>6. takeover \in [Takeover -> TakeoverCall]
  BY DEF Init, TakeoverCall, Phase
<1>7. \A t \in Takeover : CallInv(lm, takeover[t])
  BY <1>5 DEF CallInv
<1> QED
  BY <1>1, <1>6, <1>7 DEF IInv, TypeOK

(* A method that does not touch the takeover calls.                        *)
LEMMA MethodStep ==
    ASSUME IInv, Advances(lm, lm'), Awake(lm'), takeover' = takeover
    PROVE  IInv' /\ NoRevival(lm, lm')
<1>1. lm \in Manager /\ lm' \in Manager /\ ManagerInv(lm') /\ Extends(lm, lm')
  BY DEF IInv, ManagerInv, Advances
<1>2. \A t \in Takeover : CallInv(lm', takeover'[t])
  BY <1>1, ExtendsCall DEF IInv
<1> QED
  BY <1>1, <1>2 DEF IInv, TypeOK, Advances

(* A method that begins or ends one takeover call.                         *)
LEMMA CallStep ==
    ASSUME IInv, Advances(lm, lm'), Awake(lm'), NEW t \in Takeover,
           NEW call \in TakeoverCall, CallInv(lm', call),
           takeover' = [takeover EXCEPT ![t] = call]
    PROVE  IInv' /\ NoRevival(lm, lm')
<1>1. lm \in Manager /\ lm' \in Manager /\ ManagerInv(lm') /\ Extends(lm, lm')
  BY DEF IInv, ManagerInv, Advances
<1>2. takeover' \in [Takeover -> TakeoverCall]
  BY DEF IInv, TypeOK
<1>3. ASSUME NEW u \in Takeover
      PROVE  CallInv(lm', takeover'[u])
  <2>1. CASE u = t
    BY <2>1 DEF IInv, TypeOK
  <2>2. CASE u # t
    <3>1. takeover'[u] = takeover[u] /\ CallInv(lm, takeover[u])
      BY <2>2 DEF IInv, TypeOK
    <3> QED
      BY <1>1, <3>1, ExtendsCall
  <2> QED
    BY <2>1, <2>2
<1> QED
  BY <1>1, <1>2, <1>3 DEF IInv, TypeOK, Advances

(* What a call notes as revoked are targets that are fenced or still owed. *)
LEMMA RevokedTargets ==
    ASSUME NEW s, ManagerInv(s)
    PROVE  Revoked(s) \in SUBSET Target /\ Revoked(s) \subseteq s.fenced \cup Owed(s)
BY DEF ManagerInv, Remembered, Revoked, Manager, Target

(* A method that chains a job and awaits it.                               *)
LEMMA AwaitStep ==
    ASSUME IInv, Advances(lm, lm'), Awake(lm'), Revoking(lm'), NEW t \in Takeover,
           NEW phase \in {"awaiting", "fencing"},
           NEW R \in SUBSET Target, R \subseteq lm'.fenced \cup Owed(lm'),
           Await(t, phase, JobsAhead(lm'), R)
    PROVE  IInv' /\ NoRevival(lm, lm')
<1> DEFINE call == [phase |-> phase, ahead |-> JobsAhead(lm'), revoked |-> R]
<1>1. lm' \in Manager /\ ManagerInv(lm')
  BY DEF Advances, ManagerInv
<1>2. JobsAhead(lm') \in Nat
  BY <1>1, JobsAheadType
<1>3. call \in TakeoverCall
  BY <1>2 DEF TakeoverCall, Phase
<1>4. CallInv(lm', call)
  BY <1>1, WaitingForLast
<1>5. takeover' = [takeover EXCEPT ![t] = call]
  BY DEF Await
<1> HIDE DEF call
<1> QED
  BY <1>3, <1>4, <1>5, CallStep

(* A call that answers when all it counts on is fenced.                    *)
LEMMA AnswerStep ==
    ASSUME IInv, NEW t \in Takeover, NEW R \in SUBSET Target, R \subseteq lm.fenced,
           Answer(t, R)
    PROVE  IInv' /\ NoRevival(lm, lm')
<1> DEFINE call == [phase |-> "fenced", ahead |-> 0, revoked |-> R]
<1>1. lm' = ExpireIfNeeded(lm) /\ takeover' = [takeover EXCEPT ![t] = call]
  BY DEF Answer, Await
<1>2. Moves(lm, lm') /\ Awake(lm')
  BY <1>1, ExpireMoves DEF IInv
<1>3. lm'.fenced = lm.fenced
  BY <1>2 DEF Moves, Advances, Extends
<1>4. call \in TakeoverCall /\ CallInv(lm', call)
  BY <1>3 DEF TakeoverCall, Phase, CallInv
<1> HIDE DEF call
<1> QED
  BY <1>1, <1>2, <1>4, CallStep DEF Moves

(* RetryOrAnswer, the end of takeHumanControl().                           *)
LEMMA RetryOrAnswerStep ==
    ASSUME IInv, NEW t \in Takeover, NEW R \in SUBSET Target,
           R \subseteq lm.fenced \cup Owed(lm),
           lm.failed = {} => R \subseteq lm.fenced,
           RetryOrAnswer(t, R)
    PROVE  IInv' /\ NoRevival(lm, lm')
<1>1. ManagerInv(lm) /\ Awake(lm) /\ lm \in Manager
  BY DEF IInv, ManagerInv
<1>2. CASE RetryFailed(t, R)
  <2>1. lm' = EnqueueRevocations(lm, {}) /\ Await(t, "fencing", JobsAhead(lm'), R)
    BY <1>2 DEF RetryFailed
  <2>2. {} \in SUBSET Target
    OBVIOUS
  <2>3. Moves(lm, lm') /\ Awake(lm')
    BY <1>1, <2>1, <2>2, EnqueueMoves
  <2>4. Owed(lm') = Owed(lm)
    BY <1>1, <2>1, <2>2, EnqueueOwes
  <2>5. Revoking(lm')
    BY <1>1, <2>1, <2>2, EnqueuedRevoking
  <2>6. lm'.fenced = lm.fenced
    BY <2>3 DEF Moves, Advances, Extends
  <2> QED
    BY <2>1, <2>3, <2>4, <2>5, <2>6, AwaitStep DEF Moves
<1>3. CASE lm.failed = {} /\ Answer(t, R)
  BY <1>3, AnswerStep
<1> QED
  BY <1>2, <1>3 DEF RetryOrAnswer

(* The requests that are one method call each.                             *)
LEMMA RequestStep ==
    ASSUME IInv
    PROVE  /\ \A c \in Client, d \in Duration :
                  Acquire(c, d) \/ AcquireWaiting(c, d) => IInv' /\ NoRevival(lm, lm')
           /\ \A p \in lm.issued :
                  \/ \E renewActivity \in BOOLEAN : Verify(p, renewActivity)
                  \/ \E d \in Duration : Renew(p, d)
                  \/ Release(p)
                  \/ RevokeAgentControlFor(p)
                  => IInv' /\ NoRevival(lm, lm')
           /\ RevokeAgentControl \/ ReleaseHumanControl \/ ResetEpoch
                  => IInv' /\ NoRevival(lm, lm')
<1> USE MethodStep DEF Moves
<1>1. ManagerInv(lm) /\ Awake(lm) /\ lm.issued \subseteq LeaseProof
  BY DEF IInv, ManagerInv, Manager
<1>2. ASSUME NEW c \in Client, NEW d \in Duration, Acquire(c, d)
      PROVE  IInv' /\ NoRevival(lm, lm')
  BY <1>1, <1>2, AcquiredMoves DEF Acquire
<1>3. ASSUME NEW c \in Client, NEW d \in Duration, AcquireWaiting(c, d)
      PROVE  IInv' /\ NoRevival(lm, lm')
  BY <1>1, <1>3, AcquiredWaitingMoves DEF AcquireWaiting
<1>4. ASSUME NEW p \in lm.issued, NEW renewActivity \in BOOLEAN, Verify(p, renewActivity)
      PROVE  IInv' /\ NoRevival(lm, lm')
  BY <1>1, <1>4, VerifiedMoves DEF Verify
<1>5. ASSUME NEW p \in lm.issued, NEW d \in Duration, Renew(p, d)
      PROVE  IInv' /\ NoRevival(lm, lm')
  BY <1>1, <1>5, RenewedForMoves DEF Renew
<1>6. ASSUME NEW p \in lm.issued, Release(p)
      PROVE  IInv' /\ NoRevival(lm, lm')
  BY <1>1, <1>6, ReleasedMoves DEF Release
<1>7. ASSUME NEW p \in lm.issued, RevokeAgentControlFor(p)
      PROVE  IInv' /\ NoRevival(lm, lm')
  BY <1>1, <1>7, AgentRevokedForMoves DEF RevokeAgentControlFor
<1>8. ASSUME RevokeAgentControl
      PROVE  IInv' /\ NoRevival(lm, lm')
  BY <1>1, <1>8, AgentRevokedMoves DEF RevokeAgentControl
<1>9. ASSUME ReleaseHumanControl
      PROVE  IInv' /\ NoRevival(lm, lm')
  BY <1>1, <1>9, HumanReleasedMoves DEF ReleaseHumanControl
<1>10. ASSUME ResetEpoch
       PROVE  IInv' /\ NoRevival(lm, lm')
  BY <1>1, <1>10, EpochResetMoves DEF ResetEpoch
<1> QED
  BY <1>2, <1>3, <1>4, <1>5, <1>6, <1>7, <1>8, <1>9, <1>10

(* takeHumanControl(), from the request to the answer.                     *)
LEMMA TakeoverStep ==
    ASSUME IInv, NEW t \in Takeover,
           TakeFromAgent(t) \/ AwaitJobs(t) \/ TakeAgain(t) \/ Continue(t)
    PROVE  IInv' /\ NoRevival(lm, lm')
<1>1. ManagerInv(lm) /\ Awake(lm) /\ lm \in Manager
  BY DEF IInv, ManagerInv
<1>2. takeover[t] \in TakeoverCall /\ CallInv(lm, takeover[t])
  BY DEF IInv, TypeOK
<1>3. CASE TakeFromAgent(t)
  <2>1. lm' = HumanTaken(lm) /\ Await(t, "fencing", JobsAhead(lm'), Revoked(lm'))
    BY <1>3 DEF TakeFromAgent
  <2>2. Moves(lm, lm') /\ Awake(lm') /\ ManagerInv(lm')
    BY <1>1, <2>1, HumanTakenMoves DEF Moves, Advances
  <2>3. Revoking(lm')
    <3> DEFINE c == ClearLease(lm)
               h == [c EXCEPT !.human = TRUE]
    <3>1. LeaseTargets(lm) \in SUBSET Target
      BY <1>1, LeaseTargetsType
    <3>2. c \in Manager
      BY <1>1, ClearedFields
    <3>3. h \in Manager
      BY <3>2 DEF Manager
    <3>4. lm' = EnqueueRevocations(h, LeaseTargets(lm))
      BY <2>1 DEF HumanTaken
    <3> QED
      BY <3>1, <3>3, <3>4, EnqueuedRevoking
  <2> QED
    BY <2>1, <2>2, <2>3, RevokedTargets, AwaitStep DEF Moves
<1>4. CASE AwaitJobs(t)
  <2>1. /\ lm' = lm /\ Revoking(lm)
        /\ Await(t, "awaiting", JobsAhead(lm), Revoked(lm))
    BY <1>4 DEF AwaitJobs
  <2>2. Moves(lm, lm)
    BY <1>1, FieldsMove
  <2> QED
    BY <1>1, <2>1, <2>2, RevokedTargets, AwaitStep DEF Moves
<1>5. CASE TakeAgain(t)
  <2>1. ~Revoking(lm) /\ RetryOrAnswer(t, Revoked(lm))
    BY <1>5 DEF TakeAgain
  <2>2. lm.failed = {} => Revoked(lm) \subseteq lm.fenced
    BY <1>1, <2>1, IdleOwesNothing, RevokedTargets
  <2> QED
    BY <1>1, <2>1, <2>2, RevokedTargets, RetryOrAnswerStep
<1>6. CASE Resume(t)
  <2>1. RetryOrAnswer(t, takeover[t].revoked) /\ takeover[t].revoked \in SUBSET Target
    BY <1>2, <1>6 DEF Resume, TakeoverCall
  <2>2. takeover[t].revoked \subseteq lm.fenced
    BY <1>2, <1>6 DEF Resume, CallInv
  <2> QED
    BY <2>1, <2>2, RetryOrAnswerStep
<1>7. CASE Return(t)
  <2>1. Answer(t, takeover[t].revoked) /\ takeover[t].revoked \in SUBSET Target
    BY <1>2, <1>7 DEF Return, TakeoverCall
  <2>2. takeover[t].revoked \subseteq lm.fenced
    BY <1>2, <1>7 DEF Return, CallInv
  <2> QED
    BY <2>1, <2>2, AnswerStep
<1> QED
  BY <1>3, <1>4, <1>5, <1>6, <1>7 DEF Continue

(* The clock and the timers.                                               *)
LEMMA TimeStep ==
    ASSUME IInv, Tick \/ Expire \/ \E i \in 1..Len(lm.waiters) : WaiterTimeout(i)
    PROVE  IInv' /\ NoRevival(lm, lm')
<1>1. ManagerInv(lm) /\ Awake(lm) /\ lm \in Manager
  BY DEF IInv, ManagerInv
<1>2. CASE Tick
  <2> DEFINE l == [lm.lease EXCEPT !.expiresIn = lm.lease.expiresIn - 1]
  <2>1. lm.lease # NoLease /\ lm.lease \in Lease /\ lm.lease.expiresIn > 0
    BY <1>1, <1>2 DEF Tick, Manager
  <2>2. lm.lease.expiresIn - 1 \in Nat
    BY <2>1 DEF Lease
  <2>3. l \in Lease /\ l.epoch = lm.lease.epoch /\ l.generation = lm.lease.generation
        /\ l.backgroundOnly = lm.lease.backgroundOnly
    BY <2>1, <2>2 DEF Lease
  <2>4. ProofOf(l) = ProofOf(lm.lease)
    BY <2>3 DEF ProofOf
  <2>5. lm' = [lm EXCEPT !.lease = l] /\ takeover' = takeover
    BY <1>2 DEF Tick
  <2> HIDE DEF l
  <2>6. Moves(lm, lm') /\ Awake(lm')
    BY <1>1, <2>1, <2>3, <2>4, <2>5, RetimedMoves
  <2> QED
    BY <2>5, <2>6, MethodStep DEF Moves
<1>3. CASE Expire
  BY <1>1, <1>3, ExpireMoves, MethodStep DEF Expire, Moves
<1>4. CASE \E i \in 1..Len(lm.waiters) : WaiterTimeout(i)
  BY <1>1, <1>4, WaiterTimedOutMoves, MethodStep DEF WaiterTimeout, Moves
<1> QED
  BY <1>2, <1>3, <1>4

(* The revocation jobs.                                                    *)
LEMMA JobStep ==
    ASSUME IInv, Job
    PROVE  IInv' /\ NoRevival(lm, lm')
<1>1. ManagerInv(lm) /\ lm \in Manager /\ QuietJob(lm)
  BY DEF IInv, ManagerInv
<1>2. \A t \in Takeover : takeover[t] \in TakeoverCall /\ CallInv(lm, takeover[t])
  BY DEF IInv, TypeOK
<1>3. CASE BeginJob
  <2>1. lm' = JobBegun(lm) /\ takeover' = takeover /\ ~lm.running /\ lm.queue # <<>>
    BY <1>3 DEF BeginJob
  <2>2. ManagerInv(lm') /\ NoRevival(lm, lm') /\ Awake(lm')
    BY <1>1, <2>1, JobBegunKeeps
  <2>3. \A t \in Takeover : CallInv(lm', takeover'[t])
    BY <1>1, <1>2, <2>1, BeginCall
  <2> QED
    BY <2>1, <2>2, <2>3 DEF IInv, TypeOK, ManagerInv
<1>4. ASSUME NEW r \in lm.todo, HandlerSucceeds(r) \/ HandlerFails(r)
      PROVE  IInv' /\ NoRevival(lm, lm')
  <2>1. lm.running
    BY <1>1, <1>4 DEF QuietJob
  <2>2. /\ ManagerInv(lm') /\ NoRevival(lm, lm') /\ Awake(lm') /\ takeover' = takeover
        /\ lm'.queue = lm.queue /\ lm'.running = lm.running
        /\ lm.fenced \subseteq lm'.fenced
        /\ lm.fenced \cup lm.todo \cup lm.failed
             \subseteq lm'.fenced \cup lm'.todo \cup lm'.failed
    <3>1. CASE HandlerSucceeds(r)
      <4>1. lm' = HandlerSucceeded(lm, r) /\ takeover' = takeover
        BY <3>1 DEF HandlerSucceeds
      <4>2. /\ ManagerInv(lm') /\ NoRevival(lm, lm') /\ Awake(lm')
            /\ lm'.queue = lm.queue /\ lm'.running = lm.running
            /\ lm'.todo = lm.todo \ {r}
            /\ lm'.failed = lm.failed /\ lm'.fenced = lm.fenced \cup {r}
        BY <1>1, <2>1, <4>1, HandlerSucceededKeeps
      <4> QED
        BY <4>1, <4>2
    <3>2. CASE HandlerFails(r)
      <4>1. lm' = HandlerFailed(lm, r) /\ takeover' = takeover
        BY <3>2 DEF HandlerFails
      <4>2. /\ ManagerInv(lm') /\ NoRevival(lm, lm') /\ Awake(lm')
            /\ lm'.queue = lm.queue /\ lm'.running = lm.running
            /\ lm'.todo = lm.todo \ {r}
            /\ lm'.fenced = lm.fenced /\ lm'.failed = lm.failed \cup {r}
        BY <1>1, <2>1, <4>1, HandlerFailedKeeps
      <4> QED
        BY <4>1, <4>2
    <3> QED
      BY <1>4, <3>1, <3>2
  <2>3. lm' \in Manager
    BY <2>2 DEF ManagerInv
  <2>4. \A t \in Takeover : CallInv(lm', takeover'[t])
    BY <1>1, <1>2, <2>2, <2>3, HandlerCall
  <2> QED
    BY <2>2, <2>3, <2>4 DEF IInv, TypeOK
<1>5. CASE SettleJob
  <2>1. /\ lm' = JobSettled(lm) /\ lm.running /\ lm.todo = {}
        /\ takeover' = [t \in Takeover |-> AfterJob(takeover[t])]
    BY <1>5 DEF SettleJob
  <2>2. ManagerInv(lm') /\ NoRevival(lm, lm') /\ Awake(lm')
    BY <1>1, <2>1, JobSettledKeeps
  <2>3. \A t \in Takeover : AfterJob(takeover[t]) \in TakeoverCall
                            /\ CallInv(lm', AfterJob(takeover[t]))
    BY <1>1, <1>2, <2>1, SettleCall
  <2>4. takeover' \in [Takeover -> TakeoverCall] /\ \A t \in Takeover : CallInv(lm', takeover'[t])
    BY <2>1, <2>3
  <2> QED
    BY <2>2, <2>4 DEF IInv, TypeOK, ManagerInv
<1> QED
  BY <1>3, <1>4, <1>5 DEF Job

(* Every step keeps the invariant and revives no proof.                    *)
LEMMA NextStep == IInv /\ [Next]_vars => IInv' /\ NoRevival(lm, lm')
<1> SUFFICES ASSUME IInv, [Next]_vars PROVE IInv' /\ NoRevival(lm, lm')
  OBVIOUS
<1>1. CASE Request
  BY <1>1, RequestStep, TakeoverStep DEF Request
<1>2. CASE \E t \in Takeover : Continue(t)
  BY <1>2, TakeoverStep
<1>3. CASE Tick \/ Expire \/ \E i \in 1..Len(lm.waiters) : WaiterTimeout(i)
  BY <1>3, TimeStep
<1>4. CASE Job
  BY <1>4, JobStep
<1>5. CASE UNCHANGED vars
  <2>1. Moves(lm, lm)
    BY FieldsMove DEF IInv
  <2>2. Awake(lm) /\ lm' = lm /\ takeover' = takeover
    BY <1>5 DEF IInv, vars
  <2> QED
    BY <2>1, <2>2, MethodStep DEF Moves
<1> QED
  BY <1>1, <1>2, <1>3, <1>4, <1>5 DEF Next

(* The invariant holds in every behaviour of the specification.            *)
LEMMA Inductive == Spec => []IInv
<1>1. Init => IInv
  BY InitInv
<1>2. IInv /\ [Next]_vars => IInv'
  BY NextStep
<1> QED
  BY <1>1, <1>2, PTL DEF Spec

-----------------------------------------------------------------------------
(* The properties of module Lease.                                         *)

(* The manager's fields and every takeover call keep their types, e.g. a   *)
(* queued waiter is a client with a duration and a job has proofs.         *)
THEOREM TypeCorrect == Spec => []TypeOK
<1>1. IInv => TypeOK
  BY DEF IInv
<1> QED
  BY <1>1, Inductive, PTL

(* grant() happens only when the handler has succeeded for every earlier   *)
(* owner: unavailable() asks for revocation and failedRevocations.         *)
THEOREM GrantAfterFencing == Spec => []PredecessorsFenced
<1>1. IInv => PredecessorsFenced
  BY DEF IInv, ManagerInv, Fenced, PredecessorsFenced
<1> QED
  BY <1>1, Inductive, PTL

(* enqueueRevocations() loses no target, whatever fails in whichever job.  *)
THEOREM RevocationsKept == Spec => []NothingForgotten
<1>1. IInv => NothingForgotten
  BY DEF IInv, ManagerInv, Remembered, NothingForgotten
<1> QED
  BY <1>1, Inductive, PTL

(* A lease granted during human control is for background work only.       *)
THEOREM HumanExcludes == Spec => []HumanExcludesAgent
<1>1. IInv => HumanExcludesAgent
  BY DEF IInv, ManagerInv, Background, HumanExcludesAgent
<1> QED
  BY <1>1, Inductive, PTL

(* An answer of takeHumanControl() means that all that was revoked before  *)
(* has been fenced, through the jobs it awaited and the one it retried.    *)
THEOREM TakeoverFenced == Spec => []TakeoverFences
<1>1. IInv => TakeoverFences
  BY DEF IInv, CallInv, TakeoverFences
<1> QED
  BY <1>1, Inductive, PTL

(* Each method that can free the computer looks at the queue of waiters.   *)
THEOREM WaitersWoken == Spec => []NoLostWakeup
<1>1. IInv => NoLostWakeup
  BY DEF IInv, Awake, NoLostWakeup
<1> QED
  BY <1>1, Inductive, PTL

(* No method makes a proof valid that was issued before and is not valid:  *)
(* generations grow within an epoch, and an epoch never returns.           *)
THEOREM ProofsStayStale == Spec => StaleStaysStale
<1>1. IInv /\ [Next]_vars
        => [\A p \in lm.issued : Holds(lm', p) => Holds(lm, p)]_vars
  BY NextStep DEF NoRevival
<1> QED
  BY <1>1, Inductive, PTL DEF Spec, StaleStaysStale

-----------------------------------------------------------------------------
(* The refinement of InputOwnership.                                       *)

(***************************************************************************)
(* What a step does to the owner of the computer: nothing, or it leaves,   *)
(* or a new one enters.                                                    *)
(***************************************************************************)
NewOwner ==
    /\ lm.lease = NoLease /\ lm'.lease # NoLease
    /\ ProofOf(lm'.lease) \notin lm.issued
    /\ lm'.issued = lm.issued \cup {ProofOf(lm'.lease)}
    /\ lm'.lease.backgroundOnly = lm'.human
    /\ lm.waiters # <<>> => lm'.lease.actor = Head(lm.waiters).client

OwnerChange ==
    /\ lm'.fenced = lm.fenced
    /\ Stayed(lm, lm') \/ Left(lm, lm') \/ NewOwner
    /\ lm'.human = lm.human \/ lm'.human = FALSE \/ (lm'.human = TRUE /\ Left(lm, lm'))

FenceOf(r) == SameHolder(lm, lm') /\ lm'.fenced = lm.fenced \cup {r}

(* A method of the manager, or of one that differs in its jobs only.       *)
LEMMA MethodOwner ==
    ASSUME NEW h, h.lease = lm.lease, h.issued = lm.issued, h.waiters = lm.waiters,
           OwnerStep(h, lm'), lm'.fenced = lm.fenced,
           lm'.human = lm.human \/ lm'.human = FALSE \/ (lm'.human = TRUE /\ Left(lm, lm'))
    PROVE  OwnerChange
BY DEF OwnerStep, OwnerChange, NewOwner, Stayed, Left, Entered, Granted, Free

(* Every step of the manager changes the owner in one of these ways, or    *)
(* fences one former owner.                                                *)
LEMMA NextOwner ==
    ASSUME IInv, [Next]_vars
    PROVE  OwnerChange \/ \E r \in lm.todo : FenceOf(r)
<1>1. /\ ManagerInv(lm) /\ Awake(lm) /\ lm \in Manager /\ lm.issued \subseteq LeaseProof
      /\ QuietJob(lm)
  BY DEF IInv, ManagerInv, Manager
<1>2. ASSUME OwnerStep(lm, lm'), Moves(lm, lm'), lm'.human = lm.human \/ lm'.human = FALSE
      PROVE  OwnerChange
  BY <1>2, MethodOwner DEF Moves, Advances, Extends
<1>3. ASSUME SameHolder(lm, lm'), lm'.fenced = lm.fenced
      PROVE  OwnerChange
  BY <1>3 DEF OwnerChange, Stayed, SameHolder
<1>4. ASSUME NEW t \in Takeover, NEW R, RetryOrAnswer(t, R)
      PROVE  OwnerChange
  <2>1. CASE RetryFailed(t, R)
    <3>1. lm' = EnqueueRevocations(lm, {}) /\ {} \in SUBSET Target
      BY <2>1 DEF RetryFailed
    <3>2. Moves(lm, lm')
      BY <1>1, <3>1, EnqueueMoves
    <3>3. OwnerStep(lm, lm') /\ lm'.human = lm.human
      BY <1>1, <3>1, EnqueueKeepsOwner DEF OwnerStep, Stayed
    <3> QED
      BY <1>2, <3>2, <3>3
  <2>2. CASE Answer(t, R)
    BY <1>1, <1>2, <2>2, ExpireMoves, ExpireLeaves DEF Answer
  <2> QED
    BY <1>4, <2>1, <2>2 DEF RetryOrAnswer
<1>5. CASE Request
  <2>1. ASSUME NEW c \in Client, NEW d \in Duration, Acquire(c, d) \/ AcquireWaiting(c, d)
        PROVE  OwnerChange
    <3>1. CASE lm' = Acquired(lm, c, d)
      <4>1. Moves(lm, lm')
        BY <1>1, <3>1, AcquiredMoves
      <4>2. OwnerStep(lm, lm') /\ lm'.human = lm.human
        BY <1>1, <3>1, AcquiredOwner
      <4> QED
        BY <1>2, <4>1, <4>2
    <3>2. CASE lm' = AcquiredWaiting(lm, c, d)
      <4>1. Moves(lm, lm')
        BY <1>1, <3>2, AcquiredWaitingMoves
      <4>2. OwnerStep(lm, lm') /\ lm'.human = lm.human
        BY <1>1, <3>2, AcquiredOwner
      <4> QED
        BY <1>2, <4>1, <4>2
    <3> QED
      BY <2>1, <3>1, <3>2 DEF Acquire, AcquireWaiting
  <2>2. ASSUME NEW p \in lm.issued, NEW renewActivity \in BOOLEAN, Verify(p, renewActivity)
        PROVE  OwnerChange
    <3>1. lm' = Verified(lm, p, renewActivity)
      BY <2>2 DEF Verify
    <3>2. Moves(lm, lm')
      BY <1>1, <3>1, VerifiedMoves
    <3>3. OwnerStep(lm, lm') /\ lm'.human = lm.human
      BY <1>1, <3>1, CheckOwner
    <3> QED
      BY <1>2, <3>2, <3>3
  <2>3. ASSUME NEW p \in lm.issued, NEW d \in Duration, Renew(p, d)
        PROVE  OwnerChange
    <3>1. lm' = RenewedFor(lm, p, d)
      BY <2>3 DEF Renew
    <3>2. Moves(lm, lm')
      BY <1>1, <3>1, RenewedForMoves
    <3>3. OwnerStep(lm, lm') /\ lm'.human = lm.human
      BY <1>1, <3>1, CheckOwner
    <3> QED
      BY <1>2, <3>2, <3>3
  <2>4. ASSUME NEW p \in lm.issued, Release(p) \/ RevokeAgentControlFor(p)
        PROVE  OwnerChange
    <3>1. CASE lm' = Released(lm, p)
      <4>1. Moves(lm, lm')
        BY <1>1, <3>1, ReleasedMoves
      <4>2. OwnerStep(lm, lm') /\ lm'.human = lm.human
        BY <1>1, <3>1, RevokedOwner
      <4> QED
        BY <1>2, <4>1, <4>2
    <3>2. CASE lm' = AgentRevokedFor(lm, p)
      <4>1. Moves(lm, lm')
        BY <1>1, <3>2, AgentRevokedForMoves
      <4>2. OwnerStep(lm, lm') /\ lm'.human = lm.human
        BY <1>1, <3>2, RevokedOwner
      <4> QED
        BY <1>2, <4>1, <4>2
    <3> QED
      BY <2>4, <3>1, <3>2 DEF Release, RevokeAgentControlFor
  <2>5. CASE RevokeAgentControl
    BY <1>1, <1>2, <2>5, AgentRevokedMoves, RevokedOwner DEF RevokeAgentControl
  <2>6. CASE ReleaseHumanControl
    BY <1>1, <1>2, <2>6, HumanReleasedMoves, HumanReleasedOwner DEF ReleaseHumanControl
  <2>7. CASE ResetEpoch
    BY <1>1, <2>7, EpochResetMoves, RevokedOwner, MethodOwner
       DEF ResetEpoch, Advances, Extends, OwnerStep
  <2>8. ASSUME NEW t \in Takeover, TakeFromAgent(t)
        PROVE  OwnerChange
    BY <1>1, <2>8, HumanTakenMoves, RevokedOwner, MethodOwner
       DEF TakeFromAgent, Moves, Advances, Extends, OwnerStep
  <2>9. ASSUME NEW t \in Takeover, AwaitJobs(t)
        PROVE  OwnerChange
    BY <1>3, <2>9 DEF AwaitJobs, SameHolder
  <2>10. ASSUME NEW t \in Takeover, TakeAgain(t)
         PROVE  OwnerChange
    BY <1>4, <2>10 DEF TakeAgain
  <2> QED
    BY <1>5, <2>1, <2>2, <2>3, <2>4, <2>5, <2>6, <2>7, <2>8, <2>9, <2>10 DEF Request
<1>6. ASSUME NEW t \in Takeover, Continue(t)
      PROVE  OwnerChange
  <2>1. CASE Resume(t)
    BY <1>4, <2>1 DEF Resume
  <2>2. CASE Return(t)
    BY <1>1, <1>2, <2>2, ExpireMoves, ExpireLeaves DEF Return, Answer
  <2> QED
    BY <1>6, <2>1, <2>2 DEF Continue
<1>7. CASE Tick
  <2> DEFINE l == [lm.lease EXCEPT !.expiresIn = lm.lease.expiresIn - 1]
  <2>1. lm.lease # NoLease /\ lm.lease \in Lease /\ lm.lease.expiresIn > 0
    BY <1>1, <1>7 DEF Tick, Manager
  <2>2. lm.lease.expiresIn - 1 \in Nat
    BY <2>1 DEF Lease
  <2>3. l \in Lease /\ ProofOf(l) = ProofOf(lm.lease)
        /\ l.backgroundOnly = lm.lease.backgroundOnly
    BY <2>1, <2>2 DEF Lease, ProofOf
  <2>4. lm' = [lm EXCEPT !.lease = l]
    BY <1>7 DEF Tick
  <2> HIDE DEF l
  <2>5. /\ lm'.lease = l /\ lm'.issued = lm.issued /\ lm'.fenced = lm.fenced
        /\ lm'.human = lm.human /\ l # NoLease
    BY <1>1, <2>3, <2>4, NoLeaseAssumption DEF Manager
  <2> QED
    BY <2>1, <2>3, <2>5 DEF OwnerChange, Stayed
<1>8. CASE Expire
  BY <1>1, <1>2, <1>8, ExpireMoves, ExpireLeaves DEF Expire
<1>9. ASSUME NEW i \in 1..Len(lm.waiters), WaiterTimeout(i)
      PROVE  OwnerChange
  BY <1>1, <1>2, <1>9, WaiterTimedOutMoves, CheckOwner DEF WaiterTimeout
<1>10. CASE BeginJob
  BY <1>1, <1>3, <1>10, JobBegunKeeps, JobBegunFields DEF BeginJob
<1>11. ASSUME NEW r \in lm.todo, HandlerSucceeds(r) \/ HandlerFails(r)
       PROVE  OwnerChange \/ FenceOf(r)
  <2>1. lm.running
    BY <1>1, <1>11 DEF QuietJob
  <2>2. CASE HandlerSucceeds(r)
    BY <1>1, <2>1, <2>2, HandlerSucceededKeeps DEF HandlerSucceeds, FenceOf
  <2>3. CASE HandlerFails(r)
    BY <1>1, <1>3, <2>1, <2>3, HandlerFailedKeeps DEF HandlerFails
  <2> QED
    BY <1>11, <2>2, <2>3
<1>12. CASE SettleJob
  <2> DEFINE h == [lm EXCEPT !.running = FALSE]
  <2>1. lm' = JobSettled(lm) /\ lm.running /\ lm.todo = {}
    BY <1>12 DEF SettleJob
  <2>2. /\ OwnerStep(h, lm') /\ lm'.human = lm.human
        /\ h.lease = lm.lease /\ h.issued = lm.issued /\ h.waiters = lm.waiters
    BY <1>1, <2>1, JobSettledOwner
  <2>3. h.fenced = lm.fenced /\ Moves(h, lm')
    BY <1>1, <2>1, JobSettledKeeps
  <2> HIDE DEF h
  <2> QED
    BY <2>2, <2>3, MethodOwner DEF Moves, Advances, Extends
<1>13. CASE UNCHANGED vars
  BY <1>3, <1>13 DEF vars, SameHolder
<1> QED
  BY <1>5, <1>6, <1>7, <1>8, <1>9, <1>10, <1>11, <1>12, <1>13 DEF Next, Job

(* The promise allows each of these steps, for an object that keeps its    *)
(* invariant: an owner that leaves is not yet fenced, and one that enters  *)
(* finds every former owner fenced.                                        *)
LEMMA OwnerMaps ==
    ASSUME ManagerInv(lm), ManagerInv(lm)', OwnerChange
    PROVE  [Ownership!Next]_(Ownership!vars)
<1> DEFINE o(s) == IF s.lease = NoLease THEN NoLease ELSE ProofOf(s.lease)
           b(s) == s.lease # NoLease /\ s.lease.backgroundOnly
           u(s) == Revoked(s) \ s.fenced
<1>1. /\ lm \in Manager /\ lm.issued \subseteq LeaseProof /\ lm'.issued \subseteq LeaseProof
      /\ lm'.fenced = lm.fenced /\ NoLease \notin LeaseProof
      /\ lm.human \in BOOLEAN /\ lm'.human \in BOOLEAN
  BY NoLeaseAssumption DEF ManagerInv, Manager, OwnerChange
<1>2. CASE Stayed(lm, lm')
  <2>1. o(lm') = o(lm) /\ b(lm') = b(lm) /\ lm'.issued = lm.issued
    BY <1>2 DEF Stayed
  <2>2. u(lm') = u(lm)
    BY <1>1, <1>2 DEF Stayed, Revoked, Holds
  <2>3. Ownership!Stay
    BY <2>1, <2>2 DEF Ownership!Stay
  <2>4. lm'.human = lm.human \/ lm'.human = FALSE \/ (lm'.human = TRUE /\ Left(lm, lm'))
    BY DEF OwnerChange
  <2>5. CASE lm'.human = lm.human
    BY <2>1, <2>2, <2>5 DEF Ownership!vars
  <2>6. CASE lm'.human = FALSE
    BY <2>3, <2>6 DEF Ownership!Next, Ownership!EndHuman
  <2>7. CASE lm'.human = TRUE /\ Left(lm, lm')
    <3>1. o(lm) = NoLease /\ b(lm) = FALSE /\ o(lm') = NoLease /\ b(lm') = FALSE
      BY <1>2, <2>7 DEF Stayed, Left
    <3>2. Ownership!Leave
      BY <2>1, <2>2, <3>1 DEF Ownership!Leave
    <3> QED
      BY <2>7, <3>2 DEF Ownership!Next, Ownership!TakeHuman
  <2> QED
    BY <2>4, <2>5, <2>6, <2>7
<1>3. CASE Left(lm, lm')
  <2>1. o(lm') = NoLease /\ b(lm') = FALSE /\ lm'.issued = lm.issued
    BY <1>3 DEF Left
  <2>2. Revoked(lm') = Revoked(lm) \cup ({o(lm)} \ {NoLease})
    <3>1. Revoked(lm') = lm.issued
      BY <1>3 DEF Left, Revoked, Holds
    <3>2. CASE lm.lease = NoLease
      BY <3>1, <3>2 DEF Revoked, Holds
    <3>3. CASE lm.lease # NoLease
      <4>1. ProofOf(lm.lease) \in lm.issued /\ ProofOf(lm.lease) # NoLease
        BY <1>1, <3>3 DEF ManagerInv, CurrentIssued
      <4> QED
        BY <3>1, <3>3, <4>1 DEF Revoked, Holds
    <3> QED
      BY <3>2, <3>3
  <2>3. ({o(lm)} \ {NoLease}) \cap lm.fenced = {}
    <3>1. CASE lm.lease = NoLease
      BY <3>1
    <3>2. CASE lm.lease # NoLease
      <4>1. ProofOf(lm.lease) \notin Revoked(lm)
        BY <3>2 DEF Revoked, Holds
      <4>2. ProofOf(lm.lease) # WithoutProof
        BY <1>1, <3>2, LeaseAssumption DEF ManagerInv, CurrentIssued
      <4> QED
        BY <3>2, <4>1, <4>2 DEF ManagerInv, OnlyRevoked
    <3> QED
      BY <3>1, <3>2
  <2>4. u(lm') = u(lm) \cup ({o(lm)} \ {NoLease})
    BY <1>1, <2>2, <2>3
  <2>5. Ownership!Leave
    BY <2>1, <2>4 DEF Ownership!Leave
  <2> QED
    BY <1>1, <2>5 DEF Ownership!Next, Ownership!Own, Ownership!Change, Ownership!TakeHuman,
                      Ownership!EndHuman, OwnerChange
<1>4. CASE NewOwner
  <2>1. /\ lm.lease = NoLease /\ lm'.lease # NoLease /\ ProofOf(lm'.lease) \notin lm.issued
        /\ lm'.issued = lm.issued \cup {ProofOf(lm'.lease)}
        /\ lm'.lease.backgroundOnly = lm'.human
    BY <1>4 DEF NewOwner
  <2>2. Revoked(lm) = lm.issued /\ Revoked(lm') = lm.issued
    BY <2>1 DEF Revoked, Holds
  <2>3. u(lm) = {} /\ u(lm') = {}
    BY <1>1, <2>1, <2>2 DEF ManagerInv, Fenced
  <2>4. /\ o(lm) = NoLease /\ o(lm') = ProofOf(lm'.lease) /\ o(lm') \in LeaseProof
        /\ b(lm') = lm'.human
    BY <1>1, <2>1
  <2>5. Ownership!Enter
    BY <2>1, <2>3, <2>4 DEF Ownership!Enter
  <2>6. lm'.human = lm.human \/ lm'.human = FALSE
    BY <2>1 DEF OwnerChange, Left
  <2> QED
    BY <2>5, <2>6 DEF Ownership!Next, Ownership!Own, Ownership!Change, Ownership!EndHuman
<1> QED
  BY <1>2, <1>3, <1>4 DEF OwnerChange

(* A handler call that succeeds fences a former owner, unless it had been  *)
(* called without a proof or for one that is fenced.                       *)
LEMMA FenceMaps ==
    ASSUME ManagerInv(lm), NEW r, FenceOf(r)
    PROVE  [Ownership!Next]_(Ownership!vars)
<1>1. /\ lm'.lease = lm.lease /\ lm'.issued = lm.issued /\ lm'.human = lm.human
      /\ lm'.fenced = lm.fenced \cup {r}
  BY DEF FenceOf, SameHolder
<1>2. Revoked(lm') = Revoked(lm)
  BY <1>1 DEF Revoked, Holds
<1>3. CASE r \in Revoked(lm) \ lm.fenced
  <2>1. Ownership!Fence(r)
    BY <1>1, <1>2, <1>3 DEF Ownership!Fence
  <2> QED
    BY <1>3, <2>1 DEF Ownership!Next
<1>4. CASE r \notin Revoked(lm) \ lm.fenced
  BY <1>1, <1>2, <1>4 DEF Ownership!vars
<1> QED
  BY <1>3, <1>4

(* The LeaseManager implements InputOwnership: its methods, timers and     *)
(* jobs do to the owner only what the promise allows.                      *)
THEOREM Refinement == Spec => ImplementsOwnership
<1>1. Init => Ownership!Init
  <2> SUFFICES ASSUME Init PROVE Ownership!Init
    OBVIOUS
  <2>1. /\ lm.lease = NoLease /\ lm.issued = {} /\ lm.human = FALSE
    BY DEF Init, NewManager
  <2> QED
    BY <2>1 DEF Ownership!Init, Revoked
<1>2. IInv /\ IInv' /\ [Next]_vars => [Ownership!Next]_(Ownership!vars)
  <2> SUFFICES ASSUME IInv, IInv', [Next]_vars PROVE [Ownership!Next]_(Ownership!vars)
    OBVIOUS
  <2>1. ManagerInv(lm) /\ ManagerInv(lm)'
    BY DEF IInv
  <2>2. CASE OwnerChange
    BY <2>1, <2>2, OwnerMaps
  <2>3. CASE \E r \in lm.todo : FenceOf(r)
    BY <2>1, <2>3, FenceMaps
  <2> QED
    BY <2>2, <2>3, NextOwner
<1> QED
  BY <1>1, <1>2, Inductive, PTL DEF Spec, ImplementsOwnership, Ownership!Spec

(* A free computer goes to the client that has waited longest, whichever   *)
(* method or job finds it free.                                            *)
THEOREM FirstCome == Spec => FirstComeFirstServed
<1>1. IInv /\ [Next]_vars
        => [ lm.waiters # <<>> /\ lm.lease = NoLease /\ lm'.lease # NoLease
             => lm'.lease.actor = Head(lm.waiters).client ]_vars
  <2> SUFFICES ASSUME IInv, [Next]_vars,
                      lm.waiters # <<>>, lm.lease = NoLease, lm'.lease # NoLease
               PROVE  lm'.lease.actor = Head(lm.waiters).client
    OBVIOUS
  <2>1. CASE OwnerChange
    BY <2>1 DEF OwnerChange, Stayed, Left, NewOwner
  <2>2. CASE \E r \in lm.todo : FenceOf(r)
    BY <2>2 DEF FenceOf, SameHolder
  <2> QED
    BY <2>1, <2>2, NextOwner
<1> QED
  BY <1>1, Inductive, PTL DEF Spec, FirstComeFirstServed
=============================================================================
