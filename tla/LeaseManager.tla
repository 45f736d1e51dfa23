---------------------------- MODULE LeaseManager ----------------------------
(***************************************************************************)
(* The LeaseManager object of packages/control/src/lease.ts as a record,   *)
(* and its private methods as functions from such a record to the next.    *)
(* Node runs every synchronous stretch of a method without interruption,   *)
(* so a public method is one action (module Lease) that composes them.     *)
(*                                                                         *)
(* The random id of a lease proof is left out: a proof is named by its     *)
(* epoch and generation, and that these never repeat is a property of      *)
(* module Lease, not an assumption.  The random epoch string is a counter. *)
(* Time is what is left of the lease: expiresIn stands for                 *)
(* expiresAt - Date.now(), never below zero.                               *)
(***************************************************************************)
EXTENDS Integers, SequencesExt

CONSTANTS
    Client,         \* callers of acquire and acquireWaiting (actors)
    Duration,       \* the lease durations a caller may ask for
    NoLease,        \* this.lease = undefined
    WithoutProof    \* the revocation target { proof: undefined, invokeWithoutProof: true }

LeaseProof == [epoch : Nat, generation : Nat]

ASSUME LeaseAssumption ==
    /\ Duration \subseteq Nat \ {0}
    /\ WithoutProof \notin LeaseProof

Lease == [epoch : Nat, generation : Nat, expiresIn : Nat, duration : Duration,
          backgroundOnly : BOOLEAN, actor : Client]

ASSUME NoLeaseAssumption == NoLease \notin Lease \cup LeaseProof

Target == LeaseProof \cup {WithoutProof}

(***************************************************************************)
(* queue holds the revocation jobs chained with previous.catch().then()    *)
(* that have not begun; running, todo and failed are the job in execution  *)
(* and this.failedRevocations.  A target list is a set: the job removes    *)
(* duplicates, and skips a target with neither a proof nor                 *)
(* invokeWithoutProof.  issued and fenced are history: every proof granted *)
(* so far, and every target whose handler call succeeded.                  *)
(***************************************************************************)
Manager ==
    [epoch : Nat, generation : Nat, lease : Lease \cup {NoLease}, human : BOOLEAN,
     queue : Seq(SUBSET Target), running : BOOLEAN,
     todo : SUBSET Target, failed : SUBSET Target,
     waiters : Seq([client : Client, duration : Duration]),
     issued : SUBSET LeaseProof, fenced : SUBSET Target]

NewManager ==
    [epoch |-> 0, generation |-> 0, lease |-> NoLease, human |-> FALSE,
     queue |-> <<>>, running |-> FALSE, todo |-> {}, failed |-> {},
     waiters |-> <<>>, issued |-> {}, fenced |-> {}]

ProofOf(lease) == [epoch |-> lease.epoch, generation |-> lease.generation]

\* The comparison of verify() and of sameProof().
Holds(s, proof) == s.lease # NoLease /\ ProofOf(s.lease) = proof

\* Every proof granted so far except that of the current lease.
Revoked(s) == {p \in s.issued : ~Holds(s, p)}

\* this.revocation is defined: some chained job has not settled.
Revoking(s) == s.running \/ s.queue # <<>>

\* The number of jobs to settle before a job enqueued now begins.
JobsAhead(s) == Len(s.queue) + (IF s.running THEN 1 ELSE 0)

\* Definitions named ..._Bug are mutated forms of the definition they precede: the
\* properties are checked to notice the difference.
Free_Bug(s) == s.lease = NoLease /\ ~Revoking(s)

Free(s) == s.lease = NoLease /\ ~Revoking(s) /\ s.failed = {}

\* The targets whose handler call is still owed.
Owed(s) == s.todo \cup s.failed \cup UNION {s.queue[i] : i \in 1..Len(s.queue)}

EnqueueRevocations(s, targets) == [s EXCEPT !.queue = Append(@, targets)]

\* The lease as a list of revocation targets: [] when there is none.
LeaseTargets(s) == IF s.lease = NoLease THEN {} ELSE {ProofOf(s.lease)}

\* Every method that ends a lease clears it and takes the next generation.
ClearLease(s) == [s EXCEPT !.lease = NoLease, !.generation = @ + 1]

ExpireIfNeeded(s) ==
    IF s.lease # NoLease /\ s.lease.expiresIn = 0
    THEN EnqueueRevocations(ClearLease(s), LeaseTargets(s))
    ELSE s

Grant_Bug(s, client, duration) ==
    LET proof == [epoch |-> s.epoch, generation |-> s.generation + 1] IN
    [s EXCEPT !.generation = s.generation + 1,
              !.lease = [epoch |-> s.epoch, generation |-> s.generation + 1,
                         expiresIn |-> duration, duration |-> duration,
                         backgroundOnly |-> FALSE, actor |-> client],
              !.issued = @ \cup {proof}]

Grant(s, client, duration) ==
    LET proof == [epoch |-> s.epoch, generation |-> s.generation + 1] IN
    [s EXCEPT !.generation = s.generation + 1,
              !.lease = [epoch |-> s.epoch, generation |-> s.generation + 1,
                         expiresIn |-> duration, duration |-> duration,
                         backgroundOnly |-> s.human, actor |-> client],
              !.issued = @ \cup {proof}]

DrainWaiters_Bug(s0) ==
    LET s == ExpireIfNeeded(s0) IN
    IF Free(s) /\ s.waiters # <<>>
    THEN Grant([s EXCEPT !.waiters = Front(@)],
               Last(s.waiters).client, Last(s.waiters).duration)
    ELSE s

\* drainWaiters(): at most the head of the queue is granted.
DrainWaiters(s0) ==
    LET s == ExpireIfNeeded(s0) IN
    IF Free(s) /\ s.waiters # <<>>
    THEN Grant([s EXCEPT !.waiters = Tail(@)],
               Head(s.waiters).client, Head(s.waiters).duration)
    ELSE s

Acquired(s0, client, duration) ==
    LET s == ExpireIfNeeded(s0) IN
    IF Free(s) /\ s.waiters = <<>> THEN Grant(s, client, duration) ELSE s

AcquiredWaiting(s0, client, duration) ==
    LET s == ExpireIfNeeded(s0) IN
    IF Free(s) /\ s.waiters = <<>>
    THEN Grant(s, client, duration)
    ELSE DrainWaiters([s EXCEPT !.waiters =
             Append(@, [client |-> client, duration |-> duration])])

\* The timeout callback splices its waiter out; its error takes a snapshot().
WaiterTimedOut(s, index) == ExpireIfNeeded([s EXCEPT !.waiters = RemoveAt(@, index)])

\* verify(proof, true): the activity renewal of a tool call.
Renewed(s, duration) ==
    [s EXCEPT !.lease = [@ EXCEPT !.duration = duration, !.expiresIn = duration]]

Verified(s0, proof, renewActivity) ==
    LET s == ExpireIfNeeded(s0) IN
    IF renewActivity /\ Holds(s, proof) THEN Renewed(s, s.lease.duration) ELSE s

\* renew(proof, durationSeconds)
RenewedFor(s0, proof, duration) ==
    LET s == ExpireIfNeeded(s0) IN
    IF Holds(s, proof) THEN Renewed(s, duration) ELSE s

Released(s0, proof) ==
    LET s == ExpireIfNeeded(s0) IN
    IF Holds(s, proof) THEN EnqueueRevocations(ClearLease(s), {proof}) ELSE s

\* revokeAgentControl(), which does not look at the clock.
AgentRevoked(s) ==
    EnqueueRevocations(IF s.lease = NoLease THEN s ELSE ClearLease(s), LeaseTargets(s))

\* revokeAgentControlFor(proof): a late revocation leaves a newer lease alone.
AgentRevokedFor(s, proof) ==
    EnqueueRevocations(IF Holds(s, proof) THEN ClearLease(s) ELSE s, {proof})

HumanTaken(s) ==
    EnqueueRevocations([ClearLease(s) EXCEPT !.human = TRUE], LeaseTargets(s))

HumanReleased(s) ==
    DrainWaiters([s EXCEPT !.generation = IF s.human THEN @ + 1 ELSE @,
                           !.human = FALSE])

EpochReset_FirstGenerationBug(s) ==
    EnqueueRevocations([s EXCEPT !.epoch = @ + 1, !.generation = -1,
                                 !.lease = NoLease, !.human = FALSE],
                       IF s.lease = NoLease THEN {WithoutProof} ELSE LeaseTargets(s))

EpochReset_SameEpochBug(s) ==
    EnqueueRevocations([s EXCEPT !.generation = 0, !.lease = NoLease, !.human = FALSE],
                       IF s.lease = NoLease THEN {WithoutProof} ELSE LeaseTargets(s))

EpochReset_NoProofBug(s) ==
    EnqueueRevocations([s EXCEPT !.epoch = @ + 1, !.generation = 0,
                                 !.lease = NoLease, !.human = FALSE], {WithoutProof})

EpochReset(s) ==
    EnqueueRevocations([s EXCEPT !.epoch = @ + 1, !.generation = 0,
                                 !.lease = NoLease, !.human = FALSE],
                       IF s.lease = NoLease THEN {WithoutProof} ELSE LeaseTargets(s))

(***************************************************************************)
(* One revocation job: it takes over the failed targets when it begins,    *)
(* puts back those whose handler throws, and rejects if there was one.     *)
(* Only a job that succeeds drains the waiters.                            *)
(***************************************************************************)
JobBegun_Bug(s) ==
    [s EXCEPT !.running = TRUE, !.queue = Tail(@), !.todo = Head(s.queue), !.failed = {}]

JobBegun(s) ==
    [s EXCEPT !.running = TRUE, !.queue = Tail(@),
              !.todo = s.failed \cup Head(s.queue), !.failed = {}]

HandlerSucceeded(s, target) ==
    [s EXCEPT !.todo = @ \ {target}, !.fenced = @ \cup {target}]

HandlerFailed(s, target) ==
    [s EXCEPT !.todo = @ \ {target}, !.failed = @ \cup {target}]

JobSettled_Bug(s) == [s EXCEPT !.running = FALSE]

JobSettled(s) ==
    IF s.failed = {}
    THEN DrainWaiters([s EXCEPT !.running = FALSE])
    ELSE [s EXCEPT !.running = FALSE]
=============================================================================
