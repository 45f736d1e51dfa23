-------------------------------- MODULE Lease --------------------------------
(***************************************************************************)
(* Input ownership of one computer: the LeaseManager driven by the calls   *)
(* the control service makes on it, its timers and its revocation jobs.    *)
(* The revocation handler (executor.ts) may succeed or throw.              *)
(*                                                                         *)
(* takeHumanControl() is the one method that awaits and then looks at the  *)
(* object again, so each of its calls has a state of its own.              *)
(***************************************************************************)
EXTENDS LeaseManager

CONSTANTS
    Takeover,        \* concurrent calls of takeHumanControl()
    MaxGeneration,   \* bound: no request once the generation has reached it
    MaxEpoch,        \* bound: the number of epoch resets
    MaxJobs          \* bound: no request while this many jobs are unsettled

ASSUME BoundsAssumption == MaxGeneration \in Nat /\ MaxEpoch \in Nat /\ MaxJobs \in Nat

VARIABLES
    lm,          \* the LeaseManager
    takeover     \* the calls of takeHumanControl()

vars == <<lm, takeover>>

(***************************************************************************)
(* A takeover call awaits the settlement of the job with `ahead' unsettled *)
(* jobs up to and including it: "awaiting" that of the jobs it found,      *)
(* "fencing" that of its own.  It goes on in a later microtask ("resume",  *)
(* "answer"), and ends "fenced" or, when the job rejected, "failed".       *)
(* revoked is history: what had been revoked when the call was made.       *)
(***************************************************************************)
Phase == {"idle", "awaiting", "resume", "fencing", "answer", "fenced", "failed"}

TakeoverCall == [phase : Phase, ahead : Nat, revoked : SUBSET Target]

Waiting(t) == takeover[t].phase \in {"awaiting", "fencing"}

TypeOK ==
    /\ lm \in Manager
    /\ takeover \in [Takeover -> TakeoverCall]

Init ==
    /\ lm = NewManager
    /\ takeover = [t \in Takeover |-> [phase |-> "idle", ahead |-> 0, revoked |-> {}]]

RequestAllowed == lm.generation < MaxGeneration /\ JobsAhead(lm) < MaxJobs

-----------------------------------------------------------------------------
(* Requests to the control service.                                        *)

Acquire(c, d) ==
    /\ RequestAllowed
    /\ lm' = Acquired(lm, c, d)
    /\ UNCHANGED takeover

\* A client has one waiting call at a time.
AcquireWaiting(c, d) ==
    /\ RequestAllowed
    /\ \A i \in 1..Len(lm.waiters) : lm.waiters[i].client # c
    /\ lm' = AcquiredWaiting(lm, c, d)
    /\ UNCHANGED takeover

Verify(p, renewActivity) ==
    /\ RequestAllowed
    /\ lm' = Verified(lm, p, renewActivity)
    /\ UNCHANGED takeover

Renew(p, d) ==
    /\ RequestAllowed
    /\ lm' = RenewedFor(lm, p, d)
    /\ UNCHANGED takeover

Release(p) ==
    /\ RequestAllowed
    /\ lm' = Released(lm, p)
    /\ UNCHANGED takeover

RevokeAgentControl ==
    /\ RequestAllowed
    /\ lm' = AgentRevoked(lm)
    /\ UNCHANGED takeover

RevokeAgentControlFor(p) ==
    /\ RequestAllowed
    /\ lm' = AgentRevokedFor(lm, p)
    /\ UNCHANGED takeover

ReleaseHumanControl ==
    /\ RequestAllowed
    /\ lm' = HumanReleased(lm)
    /\ UNCHANGED takeover

ResetEpoch ==
    /\ RequestAllowed
    /\ lm.epoch < MaxEpoch
    /\ lm' = EpochReset(lm)
    /\ UNCHANGED takeover

-----------------------------------------------------------------------------
(* takeHumanControl()                                                      *)

Await(t, phase, ahead, revoked) ==
    takeover' = [takeover EXCEPT ![t] = [phase |-> phase, ahead |-> ahead, revoked |-> revoked]]

Ended(t) == takeover[t].phase \in {"idle", "fenced", "failed"}

TakeFromAgent(t) ==
    /\ RequestAllowed
    /\ Ended(t)
    /\ ~lm.human
    /\ lm' = HumanTaken(lm)
    /\ Await(t, "fencing", JobsAhead(lm'), Revoked(lm'))

\* Already under human control: await the jobs there are, and then, or at
\* once when there is none, retry what could not be fenced.
AwaitJobs(t) ==
    /\ RequestAllowed
    /\ Ended(t)
    /\ lm.human /\ Revoking(lm)
    /\ Await(t, "awaiting", JobsAhead(lm), Revoked(lm))
    /\ UNCHANGED lm

RetryFailed(t, revoked) ==
    /\ lm.failed # {}
    /\ lm' = EnqueueRevocations(lm, {})
    /\ Await(t, "fencing", JobsAhead(lm'), revoked)

Answer(t, revoked) ==
    /\ lm' = ExpireIfNeeded(lm)
    /\ Await(t, "fenced", 0, revoked)

RetryOrAnswer_Bug(t, revoked) == Answer(t, revoked)

RetryOrAnswer(t, revoked) ==
    \/ RetryFailed(t, revoked)
    \/ lm.failed = {} /\ Answer(t, revoked)

TakeAgain(t) ==
    /\ RequestAllowed
    /\ Ended(t)
    /\ lm.human /\ ~Revoking(lm)
    /\ RetryOrAnswer(t, Revoked(lm))

Resume(t) ==
    /\ takeover[t].phase = "resume"
    /\ RetryOrAnswer(t, takeover[t].revoked)

Return(t) ==
    /\ takeover[t].phase = "answer"
    /\ Answer(t, takeover[t].revoked)

-----------------------------------------------------------------------------
(* The clock, the timers and the revocation jobs.                          *)

Tick ==
    /\ lm.lease # NoLease
    /\ lm.lease.expiresIn > 0
    /\ lm' = [lm EXCEPT !.lease.expiresIn = @ - 1]
    /\ UNCHANGED takeover

\* The lease timer, and every snapshot() a status request takes.
Expire ==
    /\ lm' = ExpireIfNeeded(lm)
    /\ UNCHANGED takeover

WaiterTimeout(i) ==
    /\ lm' = WaiterTimedOut(lm, i)
    /\ UNCHANGED takeover

BeginJob ==
    /\ ~lm.running
    /\ lm.queue # <<>>
    /\ lm' = JobBegun(lm)
    /\ UNCHANGED takeover

HandlerSucceeds(r) ==
    /\ lm' = HandlerSucceeded(lm, r)
    /\ UNCHANGED takeover

HandlerFails(r) ==
    /\ lm' = HandlerFailed(lm, r)
    /\ UNCHANGED takeover

AfterJob_Bug(call) ==
    IF call.phase \notin {"awaiting", "fencing"} THEN call
    ELSE IF call.ahead > 0 THEN [call EXCEPT !.ahead = call.ahead - 1]
    ELSE [call EXCEPT !.phase = IF lm.failed # {} THEN "failed" ELSE "answer"]

\* Every call that awaited this very job goes on; it throws if the job did.
AfterJob(call) ==
    IF call.phase \notin {"awaiting", "fencing"} THEN call
    ELSE IF call.ahead > 1 THEN [call EXCEPT !.ahead = call.ahead - 1]
    ELSE [call EXCEPT !.ahead = 0,
                      !.phase = IF lm.failed # {} THEN "failed"
                                ELSE IF call.phase = "awaiting" THEN "resume"
                                ELSE "answer"]

SettleJob ==
    /\ lm.running
    /\ lm.todo = {}
    /\ lm' = JobSettled(lm)
    /\ takeover' = [t \in Takeover |-> AfterJob(takeover[t])]

-----------------------------------------------------------------------------
Request ==
    \/ \E c \in Client, d \in Duration : Acquire(c, d) \/ AcquireWaiting(c, d)
    \/ \E p \in lm.issued : \/ \E renewActivity \in BOOLEAN : Verify(p, renewActivity)
                            \/ \E d \in Duration : Renew(p, d)
                            \/ Release(p)
                            \/ RevokeAgentControlFor(p)
    \/ RevokeAgentControl
    \/ ReleaseHumanControl
    \/ ResetEpoch
    \/ \E t \in Takeover : TakeFromAgent(t) \/ AwaitJobs(t) \/ TakeAgain(t)

Continue(t) == Resume(t) \/ Return(t)

Job == BeginJob \/ SettleJob \/ \E r \in lm.todo : HandlerSucceeds(r) \/ HandlerFails(r)

Next ==
    \/ Request
    \/ \E t \in Takeover : Continue(t)
    \/ Tick
    \/ Expire
    \/ \E i \in 1..Len(lm.waiters) : WaiterTimeout(i)
    \/ Job

Spec == Init /\ [][Next]_vars

(***************************************************************************)
(* Promise reactions and handler calls run: a handler call ends, in a      *)
(* result or an error, because every kill in it has a deadline.            *)
(***************************************************************************)
FairSpec == Spec /\ WF_vars(Job) /\ \A t \in Takeover : WF_vars(Continue(t))

-----------------------------------------------------------------------------
(* Nobody is granted the computer before every earlier owner was fenced:   *)
(* the revocation handler has ended what each of them had running.         *)
PredecessorsFenced == lm.lease # NoLease => Revoked(lm) \subseteq lm.fenced

(* No revoked proof is forgotten: its handler has succeeded, or the call   *)
(* is still owed by a job or by the list of failed revocations.            *)
NothingForgotten == Revoked(lm) \subseteq lm.fenced \cup Owed(lm)

(* While a human has control, a lease can only be a background lease, so   *)
(* that the human's release makes no agent interactive.                    *)
HumanExcludesAgent == lm.human /\ lm.lease # NoLease => lm.lease.backgroundOnly

(* A takeover call that answers without an error has fenced everything     *)
(* revoked when it was made, by it or before, retries included.            *)
TakeoverFences ==
    \A t \in Takeover : takeover[t].phase = "fenced" => takeover[t].revoked \subseteq lm.fenced

(* No lost wakeup: a client waits only while there is a lease, a           *)
(* revocation or a failed revocation, whose end will look at the queue.    *)
NoLostWakeup == lm.waiters # <<>> => ~Free(lm)

(* A proof that stopped being valid never becomes valid again, although    *)
(* the generation starts from zero at an epoch reset.                      *)
StaleStaysStale ==
    [][\A p \in lm.issued : Holds(lm', p) => Holds(lm, p)]_vars

(* A lease that begins while clients wait goes to the one at the head.     *)
FirstComeFirstServed ==
    [][ lm.waiters # <<>> /\ lm.lease = NoLease /\ lm'.lease # NoLease
        => lm'.lease.actor = Head(lm.waiters).client ]_vars

(* Every takeover request is answered or fails, and not later than the     *)
(* jobs it waits for.                                                      *)
TakeoverEnds == \A t \in Takeover : ~Ended(t) ~> Ended(t)

-----------------------------------------------------------------------------
(* The LeaseManager implements what InputOwnership promises.  Handler      *)
(* calls are its fences; queues, jobs, timers and takeover calls are not   *)
(* seen there.                                                             *)
Ownership == INSTANCE InputOwnership WITH
    Proof <- LeaseProof,
    NoOwner <- NoLease,
    owner <- IF lm.lease = NoLease THEN NoLease ELSE ProofOf(lm.lease),
    background <- lm.lease # NoLease /\ lm.lease.backgroundOnly,
    human <- lm.human,
    unfenced <- Revoked(lm) \ lm.fenced,
    used <- lm.issued

(* A grant, an expiry, a release, a revocation, a takeover and an epoch    *)
(* reset are each a step the promise allows.                               *)
ImplementsOwnership == Ownership!Spec
=============================================================================
