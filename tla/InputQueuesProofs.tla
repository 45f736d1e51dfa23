-------------------------- MODULE InputQueuesProofs --------------------------
(***************************************************************************)
(* Proofs about module InputQueues, for every number of callers, queue     *)
(* limit and bound on the changes of ownership.                            *)
(***************************************************************************)
EXTENDS InputQueues, LeaseManagerProofs

(***************************************************************************)
(* The LeaseManager as these calls drive it: without waiters and failed    *)
(* revocations, an owner has the latest generation, unless it entered      *)
(* behind a human, and enters after every revocation job is over.          *)
(***************************************************************************)
Calm(s) ==
    /\ s.failed = {} /\ s.waiters = <<>>
    /\ s.lease # NoLease => ~Revoking(s) /\ s.lease.expiresIn > 0
    /\ s.lease # NoLease /\ ~s.lease.backgroundOnly => s.lease.generation = s.generation

(* While jobs are under way, one of them has still to remove the pointers. *)
PointersInv ==
    /\ PointerOfOwner
    /\ pointers # {} /\ Revoking(lm) => Owed(lm) # {}

(***************************************************************************)
(* The ordered queues: each holds different calls of its tool, of which    *)
(* only the first has been sent, and no call is sent without being there.  *)
(***************************************************************************)
Ordered == {"desktop", "browser"}

Serving == {"sent", "returned", "observing"}

QueuesInv ==
    /\ \A t \in Ordered : \A i \in 1..Len(queue[t]) :
           /\ call[queue[t][i]].tool = t
           /\ call[queue[t][i]].phase \in {"queued"} \cup Serving
           /\ i > 1 => call[queue[t][i]].phase = "queued"
           /\ \A j \in 1..Len(queue[t]) : queue[t][i] = queue[t][j] => i = j
    /\ \A c \in Slot : call[c].phase \in Serving =>
           /\ call[c].tool \in Ordered
           /\ Len(queue[call[c].tool]) > 0 /\ queue[call[c].tool][1] = c

(***************************************************************************)
(* The runner's work.  What somebody waits for is that of the call that    *)
(* has been sent, or the one observation; input that waited for something  *)
(* was behind an abandoned request.                                        *)
(***************************************************************************)
Awaited(c, tool) == c \in Slot /\ call[c].tool = tool /\ call[c].phase = "sent"

LiveInput(w) == w.kind = "input" /\ w.call # NoCall

LiveProbe(w) == w.kind = "probe" /\ w.call # NoCall

WaitsForNothing(w) == w.kind = "input" /\ w.behind # "abandoned"

DesktopInv ==
    \A i \in 1..Len(desktop) :
        /\ LiveInput(desktop[i]) =>
               /\ Awaited(desktop[i].call, "desktop")
               /\ \A j \in 1..Len(desktop) : LiveInput(desktop[j]) => i = j
        /\ LiveProbe(desktop[i]) =>
               /\ probe
               /\ \A j \in 1..Len(desktop) : LiveProbe(desktop[j]) => i = j
        /\ WaitsForNothing(desktop[i]) => i = 1 /\ desktop[i].behind = "nothing"

BrowserInv ==
    \A i \in 1..Len(browser) :
        /\ browser[i].call # NoCall =>
               /\ Awaited(browser[i].call, "browser")
               /\ \A j \in 1..Len(browser) : browser[j].call # NoCall => i = j
        /\ browser[i].told = "notStarted" => browser[i].at = "waiting"
        /\ i > 1 => browser[i].at = "waiting"

(* No input has been sent while an observation goes on.                    *)
ProbeInv ==
    probe => \A c \in Slot : call[c].tool = "desktop" => call[c].phase \notin {"sent", "returned"}

(***************************************************************************)
(* The owners of the inputs that have been let through and have not taken  *)
(* effect.  Once one input was late, all others are their owner's.         *)
(***************************************************************************)
OnItsWay(w) == WaitsForNothing(w) /\ ~w.begun

LetThrough(tool) ==
    CASE tool = "desktop" -> {desktop[i].owner : i \in {j \in 1..Len(desktop) : OnItsWay(desktop[j])}}
      [] tool = "browser" -> {browser[i].owner : i \in {j \in 1..Len(browser) : browser[j].at = "granted"}}
      [] tool = "dialog" -> {call[c].owner : c \in {d \in Slot : Responding(d, "granted")}}

LateInv ==
    /\ FewLateInputs
    /\ \A t \in Tool : late[t] # <<>> => \A p \in LetThrough(t) : Interactive(lm, p)

IInv ==
    /\ TypeOK
    /\ ManagerInv(lm)
    /\ Awake(lm)
    /\ Calm(lm)
    /\ PointersInv
    /\ QueuesInv
    /\ DesktopInv
    /\ BrowserInv
    /\ ProbeInv
    /\ LateInv
-----------------------------------------------------------------------------
(* The ownership part.                                                     *)

(* The owner that stays keeps what it may do, and the invariants hold.     *)
Kept(s, e) == Holder(e) = Holder(s) => \A p : Interactive(e, p) <=> Interactive(s, p)

Good(s, e) == ManagerInv(e) /\ Awake(e) /\ Calm(e) /\ Kept(s, e)

(* An owner does not change from background to foreground or back.         *)
LEMMA OwnerStepKept ==
    ASSUME NEW s, ManagerInv(s), NEW e, ManagerInv(e), OwnerStep(s, e)
    PROVE  Kept(s, e)
<1> SUFFICES ASSUME Holder(e) = Holder(s), NEW p
             PROVE  Interactive(e, p) <=> Interactive(s, p)
  BY DEF Kept
<1>1. /\ s.lease # NoLease => ProofOf(s.lease) # NoLease
      /\ e.lease # NoLease => ProofOf(e.lease) # NoLease
  BY NoLeaseAssumption DEF ManagerInv, Manager, CurrentIssued
<1>2. /\ e.human = s.human
      /\ (e.lease = NoLease) <=> (s.lease = NoLease)
      /\ s.lease # NoLease => ProofOf(e.lease) = ProofOf(s.lease)
  BY <1>1 DEF Holder
<1>3. s.lease # NoLease => e.lease.backgroundOnly = s.lease.backgroundOnly
  BY <1>2 DEF OwnerStep, Stayed, Left, Entered, Granted, Free
<1> QED
  BY <1>2, <1>3 DEF Interactive, Holds

(* Without waiters and with time left, the two calls every method makes    *)
(* change nothing.                                                         *)
LEMMA CalmMethods ==
    ASSUME NEW s, ManagerInv(s), Calm(s)
    PROVE  ExpireIfNeeded(s) = s /\ DrainWaiters(s) = s
<1>1. s.waiters = <<>> /\ (s.lease # NoLease => s.lease.expiresIn > 0)
  BY DEF Calm
<1>2. s.lease # NoLease => s.lease.expiresIn # 0
  BY <1>1 DEF ManagerInv, Manager, Lease
<1>3. ExpireIfNeeded(s) = s
  BY <1>2 DEF ExpireIfNeeded
<1> QED
  BY <1>1, <1>3 DEF DrainWaiters

(* Acquire.                                                                *)
LEMMA AcquiredGood ==
    ASSUME NEW s, ManagerInv(s), Awake(s), Calm(s), NEW c \in Client, NEW d \in Duration
    PROVE  Good(s, Acquired(s, c, d)) /\ (Free(s) \/ Acquired(s, c, d) = s)
<1> DEFINE e == Acquired(s, c, d)
<1>1. ManagerInv(e) /\ Awake(e)
  BY AcquiredMoves DEF Moves, Advances
<1>2. Kept(s, e)
  BY <1>1, AcquiredOwner, OwnerStepKept
<1>3. e = IF Free(s) THEN Grant(s, c, d) ELSE s
  BY CalmMethods DEF Acquired, Calm
<1>4. Calm(e)
  <2>1. CASE Free(s)
    <3> DEFINE l == [epoch |-> s.epoch, generation |-> s.generation + 1,
                     expiresIn |-> d, duration |-> d,
                     backgroundOnly |-> s.human, actor |-> c]
    <3>1. s \in Manager /\ d > 0
      BY LeaseAssumption DEF ManagerInv
    <3>2. /\ e.lease = l /\ e.generation = s.generation + 1 /\ e.failed = s.failed
          /\ e.waiters = s.waiters /\ e.queue = s.queue /\ e.running = s.running
      BY <1>3, <2>1, <3>1 DEF Grant, Manager
    <3>3. l.expiresIn = d /\ l.generation = s.generation + 1
      OBVIOUS
    <3> HIDE DEF l, e
    <3> QED
      BY <2>1, <3>1, <3>2, <3>3 DEF Calm, Free, Revoking
  <2>2. CASE ~Free(s)
    BY <1>3, <2>2
  <2> QED
    BY <2>1, <2>2
<1> HIDE DEF e
<1> QED
  BY <1>1, <1>2, <1>3, <1>4 DEF Good, e

(* The activity of a tool call renews the lease.                           *)
LEMMA VerifiedGood ==
    ASSUME NEW s, ManagerInv(s), Awake(s), Calm(s), NEW p
    PROVE  LET e == Verified(s, p, TRUE) IN
           /\ Good(s, e) /\ Holder(e) = Holder(s) /\ Owed(e) = Owed(s)
           /\ Revoking(e) = Revoking(s) /\ e.generation = s.generation
           /\ (e.lease = NoLease) <=> (s.lease = NoLease)
<1> DEFINE e == Verified(s, p, TRUE)
<1>1. ManagerInv(e) /\ Awake(e)
  BY VerifiedMoves DEF Moves, Advances
<1>2. Kept(s, e)
  <2>1. OwnerStep(s, e)
    BY CheckOwner
  <2> QED
    BY <1>1, <2>1, OwnerStepKept
<1>3. e = IF Holds(s, p) THEN Renewed(s, s.lease.duration) ELSE s
  BY CalmMethods DEF Verified
<1>4. CASE Holds(s, p)
  <2> DEFINE l == [s.lease EXCEPT !.duration = s.lease.duration, !.expiresIn = s.lease.duration]
  <2>1. s \in Manager /\ s.lease # NoLease /\ s.lease \in Lease
    BY <1>4 DEF Holds, ManagerInv, Manager
  <2>2. s.lease.duration > 0 /\ s.lease.duration \in Duration /\ s.lease.duration \in Nat
    BY <2>1, LeaseAssumption DEF Lease
  <2>3. /\ l \in Lease /\ l.expiresIn = s.lease.duration /\ ProofOf(l) = ProofOf(s.lease)
        /\ l.generation = s.lease.generation /\ l.backgroundOnly = s.lease.backgroundOnly
    BY <2>1, <2>2 DEF Lease, ProofOf
  <2>4. /\ e.lease = l /\ e.failed = s.failed /\ e.waiters = s.waiters /\ e.human = s.human
        /\ e.queue = s.queue /\ e.running = s.running /\ e.todo = s.todo
        /\ e.generation = s.generation
    BY <1>3, <1>4, <2>1 DEF Renewed, Manager
  <2> HIDE DEF l, e
  <2>5. e.lease # NoLease
    BY <2>3, <2>4, NoLeaseAssumption
  <2>6. Calm(e)
    BY <2>1, <2>2, <2>3, <2>4 DEF Calm, Revoking
  <2>7. Holder(e) = Holder(s) /\ Owed(e) = Owed(s) /\ Revoking(e) = Revoking(s)
    BY <2>1, <2>3, <2>4, <2>5 DEF Holder, Owed, Revoking
  <2> QED
    BY <1>1, <1>2, <2>1, <2>4, <2>5, <2>6, <2>7 DEF Good, e
<1>5. CASE ~Holds(s, p)
  BY <1>1, <1>2, <1>3, <1>5 DEF Good
<1> QED
  BY <1>4, <1>5

(* What a revocation job leaves behind has no lease.                       *)
LEMMA EnqueuedGood ==
    ASSUME NEW s, ManagerInv(s), Calm(s), NEW h \in Manager, NEW T \in SUBSET Target,
           h.lease = NoLease, h.failed = {}, h.waiters = <<>>,
           ManagerInv(EnqueueRevocations(h, T)), Awake(EnqueueRevocations(h, T)),
           OwnerStep(s, EnqueueRevocations(h, T))
    PROVE  Good(s, EnqueueRevocations(h, T))
<1> DEFINE e == EnqueueRevocations(h, T)
<1>1. e.lease = NoLease /\ e.failed = {} /\ e.waiters = <<>>
  BY DEF EnqueueRevocations, Manager
<1>2. Calm(e)
  BY <1>1 DEF Calm
<1>3. Kept(s, e)
  BY OwnerStepKept
<1> QED
  BY <1>2, <1>3 DEF Good

(* A job that is chained keeps the pointers in order: it owes a target, or *)
(* there was no owner and those before it do.                              *)
LEMMA EnqueuedPointers ==
    ASSUME PointersInv, NEW h \in Manager, NEW T \in SUBSET Target, Owed(h) = Owed(lm),
           T # {} \/ lm.lease = NoLease,
           lm' = EnqueueRevocations(h, T), pointers' = pointers
    PROVE  PointersInv'
<1>1. Revoking(lm') /\ Owed(lm') = Owed(lm) \cup T
  BY EnqueuedRevoking, EnqueueOwes
<1>2. PointerOfOwner'
  BY <1>1 DEF PointerOfOwner
<1>3. pointers # {} => Owed(lm') # {}
  BY <1>1 DEF PointersInv, PointerOfOwner
<1> QED
  BY <1>2, <1>3 DEF PointersInv

(* The same when nothing that concerns the pointers changes.               *)
LEMMA SamePointers ==
    ASSUME PointersInv, Revoking(lm') = Revoking(lm), Owed(lm') = Owed(lm),
           lm'.lease = NoLease => lm.lease = NoLease, lm'.human => lm.human,
           lm'.generation = lm.generation, pointers' \subseteq pointers
    PROVE  PointersInv'
BY DEF PointersInv, PointerOfOwner

ManagerPart == ManagerInv(lm) /\ Awake(lm) /\ Calm(lm) /\ PointersInv

(* The methods that end an owner or find none.                             *)
LEMMA EndOwnerStep ==
    ASSUME ManagerPart,
           \/ \E p \in lm.issued : Release(p)
           \/ TakeHumanControl \/ Expire \/ ResetEpoch
    PROVE  Good(lm, lm') /\ PointersInv'
<1>1. ManagerInv(lm) /\ Awake(lm) /\ Calm(lm) /\ lm \in Manager /\ PointersInv
      /\ lm.issued \subseteq LeaseProof
  BY DEF ManagerPart, ManagerInv, Manager
<1>2. LeaseTargets(lm) \in SUBSET Target /\ (lm.lease # NoLease => LeaseTargets(lm) # {})
  BY <1>1, LeaseTargetsType DEF LeaseTargets
<1>3. /\ ClearLease(lm) \in Manager /\ ClearLease(lm).lease = NoLease
      /\ ClearLease(lm).failed = {} /\ ClearLease(lm).waiters = <<>>
      /\ Owed(ClearLease(lm)) = Owed(lm)
  BY <1>1, ClearedFields DEF Calm, Owed
<1>4. ASSUME NEW p \in lm.issued, Release(p)
      PROVE  Good(lm, lm') /\ PointersInv'
  <2>1. lm' = Released(lm, p) /\ pointers' = pointers
    BY <1>4 DEF Release, Ownership
  <2>2. ManagerInv(lm') /\ Awake(lm') /\ OwnerStep(lm, lm')
    BY <1>1, <2>1, ReleasedMoves, RevokedOwner DEF Moves, Advances
  <2>3. lm' = IF Holds(lm, p) THEN EnqueueRevocations(ClearLease(lm), {p}) ELSE lm
    BY <1>1, <2>1, CalmMethods DEF Released
  <2>4. CASE Holds(lm, p)
    <3>1. lm' = EnqueueRevocations(ClearLease(lm), {p}) /\ {p} \in SUBSET Target
      BY <1>1, <2>3, <2>4 DEF Target
    <3>2. Good(lm, lm')
      BY <1>1, <1>3, <2>2, <3>1, EnqueuedGood
    <3>3. PointersInv'
      BY <1>1, <1>3, <2>1, <3>1, EnqueuedPointers
    <3> QED
      BY <3>2, <3>3
  <2>5. CASE ~Holds(lm, p)
    BY <1>1, <2>1, <2>2, <2>3, <2>5, SamePointers, OwnerStepKept DEF Good
  <2> QED
    BY <2>4, <2>5
<1>5. CASE TakeHumanControl
  <2> DEFINE h == [ClearLease(lm) EXCEPT !.human = TRUE]
             T == LeaseTargets(lm)
  <2>1. lm' = HumanTaken(lm) /\ pointers' = pointers
    BY <1>5 DEF TakeHumanControl, Ownership
  <2>2. ManagerInv(lm') /\ Awake(lm') /\ OwnerStep(lm, lm')
    BY <1>1, <2>1, HumanTakenMoves, RevokedOwner DEF Moves, Advances, OwnerStep
  <2>3. /\ h \in Manager /\ h.lease = NoLease /\ h.failed = {} /\ h.waiters = <<>>
        /\ Owed(h) = Owed(lm)
    <3> DEFINE k == ClearLease(lm)
    <3>1. k \in Manager /\ k.lease = NoLease /\ k.failed = {} /\ k.waiters = <<>> /\ Owed(k) = Owed(lm)
      BY <1>3
    <3>2. h = [k EXCEPT !.human = TRUE]
      OBVIOUS
    <3> HIDE DEF k, h
    <3>3. /\ h \in Manager /\ h.lease = k.lease /\ h.failed = k.failed /\ h.waiters = k.waiters
          /\ h.todo = k.todo /\ h.queue = k.queue
      BY <3>1, <3>2 DEF Manager
    <3> QED
      BY <3>1, <3>3 DEF Owed
  <2>4. lm' = EnqueueRevocations(h, T) /\ T \in SUBSET Target /\ (T # {} \/ lm.lease = NoLease)
    BY <1>2, <2>1 DEF HumanTaken
  <2> HIDE DEF h, T
  <2>5. Good(lm, lm')
    BY <1>1, <2>2, <2>3, <2>4, EnqueuedGood
  <2>6. PointersInv'
    BY <1>1, <2>1, <2>3, <2>4, EnqueuedPointers
  <2> QED
    BY <2>5, <2>6
<1>6. CASE ResetEpoch
  <2> DEFINE h == [lm EXCEPT !.epoch = lm.epoch + 1, !.generation = 0,
                             !.lease = NoLease, !.human = FALSE]
             T == IF lm.lease = NoLease THEN {WithoutProof} ELSE LeaseTargets(lm)
  <2>1. lm' = EpochReset(lm) /\ pointers' = pointers
    BY <1>6 DEF ResetEpoch, Ownership
  <2>2. ManagerInv(lm') /\ Awake(lm') /\ OwnerStep(lm, lm')
    BY <1>1, <2>1, EpochResetMoves, RevokedOwner DEF Advances, OwnerStep
  <2>3. /\ h \in Manager /\ h.lease = NoLease /\ h.failed = {} /\ h.waiters = <<>>
        /\ Owed(h) = Owed(lm)
    <3>1. lm.epoch + 1 \in Nat
      BY <1>1 DEF Manager
    <3>2. h \in Manager
      BY <1>1, <3>1 DEF Manager
    <3>3. /\ h.lease = NoLease /\ h.failed = lm.failed /\ h.waiters = lm.waiters
          /\ h.queue = lm.queue /\ h.todo = lm.todo
      BY <1>1 DEF Manager
    <3> QED
      BY <1>1, <3>2, <3>3 DEF Owed, Calm
  <2>4. lm' = EnqueueRevocations(h, T) /\ T \in SUBSET Target /\ T # {}
    BY <1>1, <1>2, <2>1 DEF EpochReset, Manager, Target
  <2> HIDE DEF h, T
  <2>5. Good(lm, lm')
    BY <1>1, <2>2, <2>3, <2>4, EnqueuedGood
  <2>6. PointersInv'
    BY <1>1, <2>1, <2>3, <2>4, EnqueuedPointers
  <2> QED
    BY <2>5, <2>6
<1>7. CASE Expire
  <2> DEFINE l == [lm.lease EXCEPT !.expiresIn = 0]
             x == [lm EXCEPT !.lease = l]
             T == LeaseTargets(x)
  <2>1. lm.lease # NoLease /\ lm' = ExpireIfNeeded(x) /\ pointers' = pointers
    BY <1>7 DEF Expire, Ownership
  <2>2. /\ l \in Lease /\ ProofOf(l) = ProofOf(lm.lease) /\ l.epoch = lm.lease.epoch
        /\ l.backgroundOnly = lm.lease.backgroundOnly /\ l.expiresIn = 0
    BY <1>1, <2>1 DEF Manager, Lease, ProofOf
  <2>3. l # NoLease
    BY <2>2, NoLeaseAssumption
  <2>4. /\ x \in Manager /\ x.lease = l /\ x.issued = lm.issued /\ x.fenced = lm.fenced
        /\ x.running = lm.running /\ x.todo = lm.todo /\ x.failed = lm.failed
        /\ x.queue = lm.queue /\ x.waiters = lm.waiters /\ x.human = lm.human
        /\ x.epoch = lm.epoch /\ x.generation = lm.generation /\ lm.generation \in Nat
    BY <1>1, <2>2 DEF Manager
  <2> HIDE DEF l, x
  <2>5. Owed(x) = Owed(lm)
    BY <2>4 DEF Owed
  <2>6. ManagerInv(x)
    BY <1>1, <2>1, <2>2, <2>3, <2>4, <2>5, SameLease
  <2>7. /\ ClearLease(x) \in Manager /\ ClearLease(x).lease = NoLease
        /\ ClearLease(x).failed = {} /\ ClearLease(x).waiters = <<>>
        /\ Owed(ClearLease(x)) = Owed(lm) /\ ClearLease(x).issued = lm.issued
    BY <1>1, <2>4, <2>5, ClearedFields DEF Calm, Owed
  <2>8. lm' = EnqueueRevocations(ClearLease(x), T) /\ T \in SUBSET Target /\ T # {}
    BY <2>1, <2>2, <2>3, <2>4, LeaseTargetsType DEF ExpireIfNeeded, LeaseTargets
  <2>9. ManagerInv(lm') /\ Awake(lm')
    <3>1. Awake(x)
      BY <1>1, <2>4 DEF Awake, Calm
    <3> QED
      BY <2>1, <2>6, <3>1, ExpireMoves DEF Moves, Advances
  <2> HIDE DEF T
  <2>10. OwnerStep(lm, lm')
    BY <2>7, <2>8, EnqueueKeepsOwner DEF OwnerStep, Left
  <2>11. Good(lm, lm')
    BY <1>1, <2>7, <2>8, <2>9, <2>10, EnqueuedGood
  <2>12. PointersInv'
    BY <1>1, <2>1, <2>7, <2>8, EnqueuedPointers
  <2> QED
    BY <2>11, <2>12
<1> QED
  BY <1>4, <1>5, <1>6, <1>7

(* A grant finds no pointers; the end of a human control removes them.     *)
LEMMA FreeOwnerStep ==
    ASSUME ManagerPart,
           (\E c \in Client, d \in Duration : Acquire(c, d)) \/ ReleaseHumanControl
    PROVE  Good(lm, lm') /\ PointersInv'
<1>1. ManagerInv(lm) /\ Awake(lm) /\ Calm(lm) /\ lm \in Manager /\ PointersInv
  BY DEF ManagerPart, ManagerInv
<1>2. ASSUME NEW c \in Client, NEW d \in Duration, Acquire(c, d)
      PROVE  Good(lm, lm') /\ PointersInv'
  <2>1. lm' = Acquired(lm, c, d) /\ pointers' = pointers
    BY <1>2 DEF Acquire, Ownership
  <2>2. Good(lm, lm') /\ (Free(lm) \/ lm' = lm)
    BY <1>1, <2>1, AcquiredGood
  <2>3. CASE Free(lm)
    <3>1. pointers = {}
      BY <1>1, <2>3 DEF PointersInv, PointerOfOwner, Free
    <3> QED
      BY <2>1, <2>2, <3>1 DEF PointersInv, PointerOfOwner
  <2>4. CASE lm' = lm
    BY <1>1, <2>1, <2>2, <2>4, SamePointers
  <2> QED
    BY <2>2, <2>3, <2>4
<1>3. CASE ReleaseHumanControl
  <2> DEFINE g == IF lm.human THEN lm.generation + 1 ELSE lm.generation
             h == [lm EXCEPT !.generation = g, !.human = FALSE]
  <2>1. lm' = HumanReleased(lm) /\ pointers' = {}
    BY <1>3 DEF ReleaseHumanControl, Ownership
  <2>2. ManagerInv(lm') /\ Awake(lm') /\ OwnerStep(lm, lm')
    BY <1>1, <2>1, HumanReleasedMoves, HumanReleasedOwner DEF Moves, Advances
  <2>3. lm' = h
    <3>1. lm' = DrainWaiters(h)
      BY <1>1, <2>1 DEF HumanReleased, Manager
    <3>2. h.lease = lm.lease /\ h.waiters = <<>> /\ h.failed = {}
      BY <1>1 DEF Manager, Calm
    <3>3. lm.lease # NoLease => lm.lease.expiresIn # 0
      BY <1>1 DEF Calm, Manager, Lease
    <3> HIDE DEF h
    <3>4. ExpireIfNeeded(h) = h
      BY <3>2, <3>3 DEF ExpireIfNeeded
    <3> QED
      BY <3>1, <3>2, <3>4 DEF DrainWaiters
  <2>4. Calm(lm')
    <3>1. /\ lm'.lease = lm.lease /\ lm'.waiters = lm.waiters /\ lm'.failed = lm.failed
          /\ lm'.queue = lm.queue /\ lm'.running = lm.running /\ lm'.generation = g
      BY <1>1, <2>3 DEF Manager
    <3>2. lm.human /\ lm.lease # NoLease => lm.lease.backgroundOnly
      BY <1>1 DEF ManagerInv, Background
    <3> QED
      BY <1>1, <3>1, <3>2 DEF Calm, Revoking
  <2>5. PointersInv'
    BY <2>1 DEF PointersInv, PointerOfOwner
  <2> QED
    BY <1>1, <2>2, <2>4, <2>5, OwnerStepKept DEF Good
<1> QED
  BY <1>2, <1>3

(* A job removes the pointers with its first handler call, and no owner    *)
(* enters before the last one has settled.                                 *)
LEMMA JobOwnerStep ==
    ASSUME ManagerPart, Job
    PROVE  Good(lm, lm') /\ PointersInv'
<1>1. /\ ManagerInv(lm) /\ Awake(lm) /\ Calm(lm) /\ lm \in Manager /\ PointersInv
      /\ QuietJob(lm)
  BY DEF ManagerPart, ManagerInv
<1>2. Revoking(lm) => lm.lease = NoLease
  BY <1>1 DEF Calm
<1>3. ASSUME SameHolder(lm, lm') PROVE Kept(lm, lm')
  BY <1>3 DEF SameHolder, Kept, Interactive, Holds
<1>4. CASE BeginJob
  <2>1. lm' = JobBegun(lm) /\ ~lm.running /\ lm.queue # <<>> /\ pointers' = pointers
    BY <1>4 DEF BeginJob, Ownership
  <2>2. /\ ManagerInv(lm') /\ Awake(lm') /\ SameHolder(lm, lm') /\ Owed(lm) \subseteq Owed(lm')
        /\ lm'.running = TRUE /\ lm'.failed = {}
    BY <1>1, <2>1, JobBegunKeeps, JobBegunFields
  <2>3. lm'.waiters = <<>> /\ lm'.lease = NoLease
    BY <1>1, <1>2, <2>1 DEF JobBegun, Manager, Calm, Revoking
  <2>4. Calm(lm')
    BY <2>2, <2>3 DEF Calm
  <2>5. Revoking(lm) /\ Revoking(lm')
    BY <2>1, <2>2 DEF Revoking
  <2>6. PointersInv'
    BY <1>1, <2>1, <2>2, <2>5 DEF PointersInv, PointerOfOwner
  <2> QED
    BY <1>3, <2>2, <2>4, <2>6 DEF Good
<1>5. ASSUME NEW r \in lm.todo, HandleRevocation(r)
      PROVE  Good(lm, lm') /\ PointersInv'
  <2>1. lm' = HandlerSucceeded(lm, r) /\ pointers' = {} /\ lm.running
    BY <1>1, <1>5 DEF HandleRevocation, Ownership, QuietJob
  <2>2. ManagerInv(lm') /\ Awake(lm') /\ SameHolder(lm, lm') /\ lm'.failed = lm.failed
    BY <1>1, <2>1, HandlerSucceededKeeps
  <2>3. lm'.waiters = <<>> /\ lm'.lease = NoLease
    BY <1>1, <1>2, <2>1 DEF HandlerSucceeded, Manager, Calm, Revoking
  <2>4. Calm(lm')
    BY <1>1, <2>2, <2>3 DEF Calm
  <2>5. PointersInv'
    BY <2>1 DEF PointersInv, PointerOfOwner
  <2> QED
    BY <1>3, <2>2, <2>4, <2>5 DEF Good
<1>6. CASE SettleJob
  <2> DEFINE h == [lm EXCEPT !.running = FALSE]
  <2>1. lm' = JobSettled(lm) /\ lm.running /\ lm.todo = {} /\ pointers' = pointers
    BY <1>6 DEF SettleJob, Ownership
  <2>2. lm.lease = NoLease
    BY <1>2, <2>1 DEF Revoking
  <2>3. /\ ManagerInv(lm') /\ Awake(lm') /\ SameHolder(lm, h) /\ Owed(h) = Owed(lm)
        /\ h.queue = lm.queue /\ h.running = FALSE /\ h.failed = lm.failed
    BY <1>1, <2>1, JobSettledKeeps
  <2>4. h.waiters = <<>> /\ h.lease = NoLease
    BY <1>1, <2>2 DEF Manager, Calm
  <2>5. lm' = h
    <3>1. lm' = DrainWaiters(h)
      BY <1>1, <2>1 DEF JobSettled, Calm
    <3> HIDE DEF h
    <3> QED
      BY <2>4, <3>1 DEF DrainWaiters, ExpireIfNeeded
  <2> HIDE DEF h
  <2>6. Calm(lm')
    BY <1>1, <2>3, <2>4, <2>5 DEF Calm
  <2>7. PointersInv'
    <3>1. CASE lm.queue # <<>>
      <4>1. Revoking(lm) /\ Revoking(lm')
        BY <2>1, <2>3, <2>5, <3>1 DEF Revoking
      <4> QED
        BY <1>1, <2>1, <2>3, <2>5, <4>1 DEF PointersInv, PointerOfOwner
    <3>2. CASE lm.queue = <<>>
      <4>1. Owed(lm) = {} /\ Revoking(lm)
        BY <1>1, <2>1, <3>2 DEF Owed, Calm, Revoking
      <4>2. pointers = {}
        BY <1>1, <4>1 DEF PointersInv
      <4> QED
        BY <2>1, <4>2 DEF PointersInv, PointerOfOwner
    <3> QED
      BY <3>1, <3>2
  <2> QED
    BY <1>3, <2>3, <2>5, <2>6, <2>7 DEF Good
<1> QED
  BY <1>4, <1>5, <1>6 DEF Job

(* Everything else leaves the owner alone and shows only pointers of the   *)
(* owner, who has the latest generation.                                   *)
LEMMA SameOwnerStep ==
    ASSUME ManagerPart, lm' = lm,
           \A p \in pointers' :
               \/ p \in pointers
               \/ lm.lease # NoLease /\ ~lm.human /\ p.generation = lm.generation
    PROVE  Good(lm, lm') /\ PointersInv'
<1>1. Revoking(lm) => lm.lease = NoLease
  BY DEF ManagerPart, Calm
<1>2. PointersInv'
  BY <1>1 DEF ManagerPart, PointersInv, PointerOfOwner
<1> QED
  BY <1>2 DEF ManagerPart, Good, Kept

-----------------------------------------------------------------------------
(* The ordered queues.                                                     *)

CallsType ==
    /\ call \in [Slot -> Call]
    /\ queue \in [Ordered -> Seq(Slot)]

Heads(c) == Len(queue[call[c].tool]) > 0 /\ queue[call[c].tool][1] = c

\* A call that is in no queue.
Unqueued(c) == call[c].tool \notin Ordered \/ call[c].phase \notin {"queued"} \cup Serving

(* The call that is not there and the one that is over.                    *)
LEMMA IdleCall ==
    /\ Idle \in Call /\ Idle.phase = "idle" /\ Idle.tool = "desktop"
    /\ \A tool \in Tool, p \in LeaseProof, phase \in Phase :
           /\ CallOf(tool, p, phase) \in Call
           /\ CallOf(tool, p, phase).tool = tool /\ CallOf(tool, p, phase).phase = phase
           /\ CallOf(tool, p, phase).owner = p
BY DEF Idle, NoProof, CallOf, Call, Tool, Phase, LeaseProof

(* No queue moves, and a call changes only at the head of its queue, or    *)
(* outside of the queues.                                                  *)
LEMMA QueuesStay ==
    ASSUME CallsType, QueuesInv, call' \in [Slot -> Call], queue' = queue,
           \A c \in Slot :
               \/ call'[c] = call[c]
               \/ Unqueued(c) /\ call'[c].phase \notin Serving
               \/ /\ call[c].tool \in Ordered /\ Heads(c)
                  /\ call'[c].tool = call[c].tool /\ call'[c].phase \in Serving
    PROVE  (CallsType /\ QueuesInv)'
<1>1. CallsType'
  BY DEF CallsType
<1>2. ASSUME NEW t \in Ordered, NEW i \in 1..Len(queue[t])
      PROVE  /\ call'[queue[t][i]].tool = t
             /\ call'[queue[t][i]].phase \in {"queued"} \cup Serving
             /\ i > 1 => call'[queue[t][i]].phase = "queued"
  <2> DEFINE c == queue[t][i]
  <2>1. c \in Slot /\ i \in Nat \ {0} /\ Len(queue[t]) \in Nat
    BY DEF CallsType
  <2>2. /\ call[c].tool = t /\ call[c].phase \in {"queued"} \cup Serving
        /\ i > 1 => call[c].phase = "queued"
        /\ \A j \in 1..Len(queue[t]) : c = queue[t][j] => i = j
    BY DEF QueuesInv
  <2>3. ~Unqueued(c)
    BY <2>2 DEF Unqueued
  <2>4. CASE call'[c] = call[c]
    BY <2>2, <2>4
  <2>5. CASE call[c].tool \in Ordered /\ Heads(c) /\ call'[c].tool = call[c].tool
             /\ call'[c].phase \in Serving
    <3>1. 1 \in 1..Len(queue[t]) /\ queue[t][1] = c
      BY <2>1, <2>2, <2>5 DEF Heads
    <3>2. i = 1
      BY <2>2, <3>1
    <3> QED
      BY <2>2, <2>5, <3>2
  <2> QED
    BY <2>1, <2>3, <2>4, <2>5
<1>3. ASSUME NEW c \in Slot, call'[c].phase \in Serving
      PROVE  call'[c].tool \in Ordered /\ Len(queue[call'[c].tool]) > 0
             /\ queue[call'[c].tool][1] = c
  BY <1>3 DEF QueuesInv, Heads
<1> QED
  BY <1>1, <1>2, <1>3 DEF QueuesInv

(* What is left of the queues when a set of calls is answered.             *)
LEMMA AfterSettled ==
    ASSUME CallsType, NEW A, NEW t \in Ordered
    PROVE  /\ After(A) \in [Ordered -> Seq(Slot)]
           /\ IF Len(queue[t]) > 0 /\ queue[t][1] \in A
              THEN /\ Len(After(A)[t]) = Len(queue[t]) - 1
                   /\ \A i \in 1..(Len(queue[t]) - 1) : After(A)[t][i] = queue[t][i + 1]
              ELSE After(A)[t] = queue[t]
<1>1. \A u \in Ordered : queue[u] \in Seq(Slot) /\ (Len(queue[u]) > 0 <=> queue[u] # <<>>)
  BY DEF CallsType
<1>2. \A u \in Ordered : queue[u] # <<>> => Tail(queue[u]) \in Seq(Slot) /\ Head(queue[u]) = queue[u][1]
  BY <1>1
<1>3. DOMAIN queue = Ordered
  BY DEF CallsType
<1>4. \A u \in Ordered :
          After(A)[u] = IF queue[u] # <<>> /\ Head(queue[u]) \in A THEN Tail(queue[u]) ELSE queue[u]
  BY <1>3 DEF After
<1>5. After(A) \in [Ordered -> Seq(Slot)]
  BY <1>1, <1>2, <1>3 DEF After
<1> QED
  BY <1>1, <1>2, <1>4, <1>5

(* Calls at the head of a queue, or outside of the queues, are answered.   *)
LEMMA QueuesSettle ==
    ASSUME CallsType, QueuesInv, NEW A \in SUBSET Slot,
           \A c \in A : Unqueued(c) \/ (call[c].tool \in Ordered /\ Heads(c)),
           call' = [c \in Slot |-> IF c \in A THEN Idle ELSE call[c]],
           queue' = After(A)
    PROVE  (CallsType /\ QueuesInv)'
<1>1. CallsType'
  <2>1. "desktop" \in Ordered
    BY DEF Ordered
  <2> QED
    BY <2>1, IdleCall, AfterSettled DEF CallsType
<1>2. \A t \in Ordered : Len(queue[t]) \in Nat /\ \A i \in 1..Len(queue[t]) : queue[t][i] \in Slot
  BY DEF CallsType
<1>3. ASSUME NEW t \in Ordered, NEW i \in 1..Len(queue[t]), queue[t][i] \in A
      PROVE  i = 1
  <2> DEFINE c == queue[t][i]
  <2>1. call[c].tool = t /\ ~Unqueued(c)
    BY DEF QueuesInv, Unqueued
  <2>2. Heads(c)
    BY <1>3, <2>1
  <2>3. 1 \in 1..Len(queue[t]) /\ queue[t][1] = c
    BY <1>2, <2>1, <2>2 DEF Heads
  <2> QED
    BY <2>3 DEF QueuesInv
<1>4. ASSUME NEW t \in Ordered
      PROVE  \A i \in 1..Len(queue'[t]) :
                 /\ call'[queue'[t][i]].tool = t
                 /\ call'[queue'[t][i]].phase \in {"queued"} \cup Serving
                 /\ i > 1 => call'[queue'[t][i]].phase = "queued"
                 /\ \A j \in 1..Len(queue'[t]) : queue'[t][i] = queue'[t][j] => i = j
  <2>1. CASE Len(queue[t]) > 0 /\ queue[t][1] \in A
    <3>1. /\ Len(queue'[t]) = Len(queue[t]) - 1
          /\ \A i \in 1..(Len(queue[t]) - 1) : queue'[t][i] = queue[t][i + 1]
      BY <2>1, AfterSettled
    <3> SUFFICES ASSUME NEW i \in 1..Len(queue'[t])
                 PROVE  /\ call'[queue'[t][i]].tool = t
                        /\ call'[queue'[t][i]].phase = "queued"
                        /\ \A j \in 1..Len(queue'[t]) : queue'[t][i] = queue'[t][j] => i = j
      OBVIOUS
    <3>2. \A j \in 1..Len(queue'[t]) : j + 1 \in 1..Len(queue[t]) /\ j + 1 > 1
                                       /\ queue'[t][j] = queue[t][j + 1]
      BY <1>2, <3>1
    <3>3. queue'[t][i] \in Slot \ A
      BY <1>2, <1>3, <3>2
    <3>4. call'[queue'[t][i]] = call[queue[t][i + 1]]
      BY <3>2, <3>3
    <3>5. call[queue[t][i + 1]].tool = t /\ call[queue[t][i + 1]].phase = "queued"
      BY <3>2 DEF QueuesInv
    <3>6. ASSUME NEW j \in 1..Len(queue'[t]), queue'[t][i] = queue'[t][j]
          PROVE  i = j
      <4>1. i + 1 = j + 1
        BY <3>2, <3>6 DEF QueuesInv
      <4> QED
        BY <4>1, <1>2
    <3> QED
      BY <3>4, <3>5, <3>6
  <2>2. CASE ~(Len(queue[t]) > 0 /\ queue[t][1] \in A)
    <3>1. queue'[t] = queue[t]
      BY <2>2, AfterSettled
    <3>2. \A i \in 1..Len(queue[t]) : queue[t][i] \notin A
      BY <1>2, <1>3, <2>2
    <3>3. \A i \in 1..Len(queue[t]) : call'[queue[t][i]] = call[queue[t][i]]
      BY <1>2, <3>2
    <3> QED
      BY <3>1, <3>3 DEF QueuesInv
  <2> QED
    BY <2>1, <2>2
<1>5. ASSUME NEW c \in Slot, call'[c].phase \in Serving
      PROVE  call'[c].tool \in Ordered /\ Len(queue'[call'[c].tool]) > 0
             /\ queue'[call'[c].tool][1] = c
  <2>1. c \notin A
    BY <1>5, IdleCall DEF Serving
  <2>2. call'[c] = call[c] /\ call[c].tool \in Ordered /\ Heads(c)
    BY <1>5, <2>1 DEF QueuesInv, Heads
  <2>3. queue'[call[c].tool] = queue[call[c].tool]
    BY <2>1, <2>2, AfterSettled DEF Heads
  <2> QED
    BY <2>2, <2>3 DEF Heads
<1> QED
  BY <1>1, <1>4, <1>5 DEF QueuesInv

(* A call is admitted at the end of its queue.                             *)
LEMMA QueuesAdmit ==
    ASSUME CallsType, QueuesInv, NEW c \in Slot, call[c].phase = "idle",
           NEW tool \in Ordered, NEW p \in LeaseProof,
           call' = [call EXCEPT ![c] = CallOf(tool, p, "queued")],
           queue' = [queue EXCEPT ![tool] = Append(queue[tool], c)]
    PROVE  (CallsType /\ QueuesInv)'
<1>1. /\ CallOf(tool, p, "queued") \in Call /\ CallOf(tool, p, "queued").tool = tool
      /\ CallOf(tool, p, "queued").phase = "queued"
  BY IdleCall DEF Ordered, Tool, Phase
<1>2. /\ call'[c].tool = tool /\ call'[c].phase = "queued"
      /\ \A x \in Slot : x # c => call'[x] = call[x]
  BY <1>1 DEF CallsType
<1>3. \A t \in Ordered : queue[t] \in Seq(Slot) /\ Len(queue[t]) \in Nat
                         /\ \A i \in 1..Len(queue[t]) : queue[t][i] \in Slot
  BY DEF CallsType
<1>4. /\ queue'[tool] \in Seq(Slot) /\ Len(queue'[tool]) = Len(queue[tool]) + 1
      /\ \A i \in 1..Len(queue[tool]) : queue'[tool][i] = queue[tool][i]
      /\ queue'[tool][Len(queue[tool]) + 1] = c
  BY <1>3 DEF CallsType
<1>5. \A t \in Ordered : t # tool => queue'[t] = queue[t]
  BY DEF CallsType
<1>6. CallsType'
  <2>1. Append(queue[tool], c) \in Seq(Slot)
    BY <1>3
  <2> QED
    BY <1>1, <2>1 DEF CallsType
<1>7. \A t \in Ordered : \A i \in 1..Len(queue[t]) : queue[t][i] # c
  BY DEF QueuesInv, Serving
<1>8. \A t \in Ordered : \A i \in 1..Len(queue[t]) : call'[queue[t][i]] = call[queue[t][i]]
  BY <1>2, <1>3, <1>7
<1>9. ASSUME NEW t \in Ordered, NEW i \in 1..Len(queue'[t])
      PROVE  /\ call'[queue'[t][i]].tool = t
             /\ call'[queue'[t][i]].phase \in {"queued"} \cup Serving
             /\ i > 1 => call'[queue'[t][i]].phase = "queued"
             /\ \A j \in 1..Len(queue'[t]) : queue'[t][i] = queue'[t][j] => i = j
  <2>1. CASE t # tool
    BY <1>5, <1>8, <2>1 DEF QueuesInv
  <2>2. CASE t = tool
    <3>1. \A j \in 1..Len(queue'[t]) :
              \/ j = Len(queue[t]) + 1 /\ queue'[t][j] = c
              \/ j \in 1..Len(queue[t]) /\ queue'[t][j] = queue[t][j]
      BY <1>3, <1>4, <2>2
    <3>2. \A j \in 1..Len(queue'[t]) : queue'[t][i] = queue'[t][j] => i = j
      BY <1>7, <3>1 DEF QueuesInv
    <3>3. CASE i \in 1..Len(queue[t]) /\ queue'[t][i] = queue[t][i]
      BY <1>8, <3>2, <3>3 DEF QueuesInv
    <3>4. CASE i = Len(queue[t]) + 1 /\ queue'[t][i] = c
      BY <1>2, <2>2, <3>2, <3>4
    <3> QED
      BY <3>1, <3>3, <3>4
  <2> QED
    BY <2>1, <2>2
<1>10. ASSUME NEW x \in Slot, call'[x].phase \in Serving
       PROVE  call'[x].tool \in Ordered /\ Len(queue'[call'[x].tool]) > 0
              /\ queue'[call'[x].tool][1] = x
  <2>1. x # c
    BY <1>2, <1>10 DEF Serving
  <2>2. call'[x] = call[x] /\ call[x].tool \in Ordered /\ Len(queue[call[x].tool]) > 0
        /\ queue[call[x].tool][1] = x
    BY <1>2, <1>10, <2>1 DEF QueuesInv
  <2>3. CASE call[x].tool = tool
    <3>1. 1 \in 1..Len(queue[tool])
      BY <1>3, <2>2, <2>3
    <3> QED
      BY <1>3, <1>4, <2>2, <2>3, <3>1
  <2> QED
    BY <1>5, <2>2, <2>3
<1> QED
  BY <1>6, <1>9, <1>10 DEF QueuesInv

-----------------------------------------------------------------------------
(* The runner's work.                                                      *)

\* The first k pieces of work are over, the others are as before, except that
\* they may have begun or been abandoned.
DesktopPassed(k) ==
    /\ Len(desktop') = Len(desktop) - k
    /\ \A i \in 1..Len(desktop') :
           /\ desktop'[i].kind = desktop[i + k].kind
           /\ desktop'[i].owner = desktop[i + k].owner
           /\ desktop'[i].behind = desktop[i + k].behind
           /\ desktop'[i].call \in {desktop[i + k].call, NoCall}
           /\ desktop[i + k].begun => desktop'[i].begun

(* Work that begins, is abandoned or is over lets nothing more through.    *)
LEMMA DesktopPasses ==
    ASSUME DesktopInv, desktop \in Seq(DesktopWork), desktop' \in Seq(DesktopWork),
           NEW k \in {0, 1}, DesktopPassed(k),
           (\A i \in 1..Len(desktop) : /\ LiveInput(desktop[i]) => Awaited(desktop[i].call, "desktop")
                                       /\ LiveProbe(desktop[i]) => probe)'
    PROVE  DesktopInv' /\ LetThrough("desktop")' \subseteq LetThrough("desktop")
<1>1. Len(desktop) \in Nat /\ Len(desktop') \in Nat
  OBVIOUS
<1>2. \A i \in 1..Len(desktop') : i + k \in 1..Len(desktop)
  BY <1>1 DEF DesktopPassed
<1>3. \A i \in 1..Len(desktop') :
          /\ LiveInput(desktop'[i]) => LiveInput(desktop[i + k])
          /\ LiveProbe(desktop'[i]) => LiveProbe(desktop[i + k])
          /\ WaitsForNothing(desktop'[i]) => WaitsForNothing(desktop[i + k])
          /\ OnItsWay(desktop'[i]) => OnItsWay(desktop[i + k])
  BY DEF DesktopPassed, LiveInput, LiveProbe, WaitsForNothing, OnItsWay
<1>4. ASSUME NEW i \in 1..Len(desktop')
      PROVE  /\ \A j \in 1..Len(desktop') :
                    LiveInput(desktop'[i]) /\ LiveInput(desktop'[j]) => i = j
             /\ \A j \in 1..Len(desktop') :
                    LiveProbe(desktop'[i]) /\ LiveProbe(desktop'[j]) => i = j
             /\ WaitsForNothing(desktop'[i]) => i = 1 /\ desktop'[i].behind = "nothing"
  <2>1. ASSUME NEW j \in 1..Len(desktop'), LiveInput(desktop'[i]), LiveInput(desktop'[j])
        PROVE  i = j
    <3>1. i + k = j + k
      BY <1>2, <1>3, <2>1 DEF DesktopInv
    <3> QED
      BY <3>1, <1>1
  <2>2. ASSUME NEW j \in 1..Len(desktop'), LiveProbe(desktop'[i]), LiveProbe(desktop'[j])
        PROVE  i = j
    <3>1. i + k = j + k
      BY <1>2, <1>3, <2>2 DEF DesktopInv
    <3> QED
      BY <3>1, <1>1
  <2>3. ASSUME WaitsForNothing(desktop'[i])
        PROVE  i = 1 /\ desktop'[i].behind = "nothing"
    <3>1. i + k = 1 /\ desktop[i + k].behind = "nothing"
      BY <1>2, <1>3, <2>3 DEF DesktopInv
    <3> QED
      BY <3>1, <1>1 DEF DesktopPassed
  <2> QED
    BY <2>1, <2>2, <2>3
<1>5. LetThrough("desktop")' \subseteq LetThrough("desktop")
  BY <1>2, <1>3 DEF LetThrough, DesktopPassed
<1> QED
  BY <1>4, <1>5 DEF DesktopInv

(* The desktop work when only calls change.                                *)
LEMMA DesktopStays ==
    ASSUME DesktopInv, desktop \in Seq(DesktopWork), desktop' = desktop, probe => probe',
           \A c \in Slot : Awaited(c, "desktop") => Awaited(c, "desktop")'
    PROVE  DesktopInv' /\ LetThrough("desktop")' = LetThrough("desktop")
<1>1. \A i \in 1..Len(desktop) : LiveInput(desktop[i]) =>
          Awaited(desktop[i].call, "desktop") /\ desktop[i].call \in Slot
  BY DEF DesktopInv, Awaited
<1>2. DesktopInv'
  BY <1>1 DEF DesktopInv
<1> QED
  BY <1>2 DEF LetThrough

(* Work is sent to the runner.                                             *)
LEMMA DesktopAppends ==
    ASSUME DesktopInv, desktop \in Seq(DesktopWork), NEW w \in DesktopWork,
           desktop' = Append(desktop, w), probe => probe',
           \A i \in 1..Len(desktop) : LiveInput(desktop[i]) => ~LiveInput(w),
           \A c \in Slot : Awaited(c, "desktop") => Awaited(c, "desktop")',
           \A i \in 1..Len(desktop) : LiveProbe(desktop[i]) => ~LiveProbe(w),
           LiveInput(w) => Awaited(w.call, "desktop")',
           LiveProbe(w) => probe',
           WaitsForNothing(w) => desktop = <<>> /\ w.behind = "nothing"
    PROVE  /\ desktop' \in Seq(DesktopWork) /\ DesktopInv'
           /\ \A p \in LetThrough("desktop")' :
                  p \in LetThrough("desktop") \/ (WaitsForNothing(w) /\ p = w.owner)
<1>1. /\ Len(desktop) \in Nat /\ Len(desktop') = Len(desktop) + 1
      /\ \A i \in 1..Len(desktop) : desktop'[i] = desktop[i]
      /\ desktop'[Len(desktop) + 1] = w /\ desktop' \in Seq(DesktopWork)
      /\ desktop = <<>> => Len(desktop) = 0
  OBVIOUS
<1>2. \A i \in 1..Len(desktop') :
          \/ i \in 1..Len(desktop) /\ desktop'[i] = desktop[i]
          \/ i = Len(desktop) + 1 /\ desktop'[i] = w
  BY <1>1
<1>3. ASSUME NEW i \in 1..Len(desktop')
      PROVE  /\ LiveInput(desktop'[i]) =>
                    /\ Awaited(desktop[i].call, "desktop")'
                    /\ \A j \in 1..Len(desktop') : LiveInput(desktop'[j]) => i = j
             /\ LiveProbe(desktop'[i]) =>
                    /\ probe'
                    /\ \A j \in 1..Len(desktop') : LiveProbe(desktop'[j]) => i = j
             /\ WaitsForNothing(desktop'[i]) => i = 1 /\ desktop'[i].behind = "nothing"
  <2>1. CASE i \in 1..Len(desktop) /\ desktop'[i] = desktop[i]
    <3>1. LiveInput(desktop[i]) => Awaited(desktop[i].call, "desktop") /\ desktop[i].call \in Slot
      BY <2>1 DEF DesktopInv, Awaited
    <3>2. LiveInput(desktop[i]) => Awaited(desktop[i].call, "desktop")'
      BY <2>1, <3>1
    <3> QED
      BY <1>2, <2>1, <3>2 DEF DesktopInv
  <2>2. CASE i = Len(desktop) + 1 /\ desktop'[i] = w
    <3>1. LiveInput(w) => Awaited(desktop[i].call, "desktop")'
      BY <2>2
    <3> QED
      BY <1>1, <1>2, <2>2, <3>1
  <2> QED
    BY <1>2, <2>1, <2>2
<1>4. \A p \in LetThrough("desktop")' :
          p \in LetThrough("desktop") \/ (WaitsForNothing(w) /\ p = w.owner)
  BY <1>2 DEF LetThrough, OnItsWay
<1> QED
  BY <1>1, <1>3, <1>4 DEF DesktopInv

\* The same for the browser, where work that has not begun may also be answered.
BrowserPassed(k) ==
    /\ Len(browser') = Len(browser) - k
    /\ \A i \in 1..Len(browser') :
           /\ browser'[i].owner = browser[i + k].owner
           /\ browser'[i].at = browser[i + k].at
           /\ browser'[i].call \in {browser[i + k].call, NoCall}
           /\ browser'[i].told = "notStarted" =>
                  browser[i + k].told = "notStarted" \/ browser[i + k].at = "waiting"

(* A browser operation that is over, abandoned or answered lets nothing    *)
(* more through.                                                           *)
LEMMA BrowserPasses ==
    ASSUME BrowserInv, browser \in Seq(BrowserWork), browser' \in Seq(BrowserWork),
           NEW k \in {0, 1}, BrowserPassed(k),
           (\A i \in 1..Len(browser) : browser[i].call # NoCall => Awaited(browser[i].call, "browser"))'
    PROVE  BrowserInv' /\ LetThrough("browser")' \subseteq LetThrough("browser")
<1>1. Len(browser) \in Nat /\ Len(browser') \in Nat
  OBVIOUS
<1>2. \A i \in 1..Len(browser') : i + k \in 1..Len(browser)
  BY <1>1 DEF BrowserPassed
<1>3. ASSUME NEW i \in 1..Len(browser')
      PROVE  /\ browser'[i].call # NoCall =>
                    \A j \in 1..Len(browser') : browser'[j].call # NoCall => i = j
             /\ browser'[i].told = "notStarted" => browser'[i].at = "waiting"
             /\ i > 1 => browser'[i].at = "waiting"
  <2>1. ASSUME NEW j \in 1..Len(browser'), browser'[i].call # NoCall, browser'[j].call # NoCall
        PROVE  i = j
    <3>1. i + k = j + k
      BY <1>2, <2>1 DEF BrowserInv, BrowserPassed
    <3> QED
      BY <3>1, <1>1
  <2>2. i > 1 => i + k > 1
    BY <1>1
  <2> QED
    BY <1>2, <2>1, <2>2 DEF BrowserInv, BrowserPassed
<1>4. LetThrough("browser")' \subseteq LetThrough("browser")
  BY <1>2 DEF LetThrough, BrowserPassed
<1> QED
  BY <1>3, <1>4 DEF BrowserInv

(* The browser's work when only calls change.                              *)
LEMMA BrowserStays ==
    ASSUME BrowserInv, browser \in Seq(BrowserWork), browser' = browser,
           \A c \in Slot : Awaited(c, "browser") => Awaited(c, "browser")'
    PROVE  BrowserInv' /\ LetThrough("browser")' = LetThrough("browser")
<1>1. \A i \in 1..Len(browser) : browser[i].call # NoCall =>
          Awaited(browser[i].call, "browser") /\ browser[i].call \in Slot
  BY DEF BrowserInv, Awaited
<1>2. BrowserInv'
  BY <1>1 DEF BrowserInv
<1> QED
  BY <1>2 DEF LetThrough

(* The operation at the head goes on: only it can have been let through.   *)
LEMMA BrowserMoves ==
    ASSUME BrowserInv, browser \in Seq(BrowserWork), browser # <<>>,
           NEW place \in {"check", "granted", "entered"}, MoveTo(place),
           browser[1].told # "notStarted", call' = call
    PROVE  /\ browser' \in Seq(BrowserWork) /\ BrowserInv'
           /\ \A p \in LetThrough("browser")' : place = "granted" /\ p = browser[1].owner
<1>1. Len(browser) \in Nat \ {0} /\ 1 \in 1..Len(browser) /\ browser[1] \in BrowserWork
  OBVIOUS
<1>2. /\ browser' \in Seq(BrowserWork) /\ Len(browser') = Len(browser)
      /\ browser'[1] = [browser[1] EXCEPT !.at = place]
      /\ \A i \in 1..Len(browser) : i # 1 => browser'[i] = browser[i]
  <2>1. [browser[1] EXCEPT !.at = place] \in BrowserWork
    BY <1>1 DEF BrowserWork
  <2>2. browser' = [browser EXCEPT ![1] = [browser[1] EXCEPT !.at = place]]
    BY DEF MoveTo
  <2> QED
    BY <1>1, <2>1, <2>2
<1>3. /\ browser'[1].at = place /\ browser'[1].call = browser[1].call
      /\ browser'[1].told = browser[1].told /\ browser'[1].owner = browser[1].owner
  BY <1>1, <1>2 DEF BrowserWork
<1>4. \A i \in 1..Len(browser) : /\ browser'[i].call = browser[i].call
                                 /\ browser'[i].told = browser[i].told
  BY <1>2, <1>3
<1>5. \A i \in 1..Len(browser) : i > 1 => browser'[i].at = "waiting"
  BY <1>2 DEF BrowserInv
<1>6. \A i \in 1..Len(browser) : i = 1 \/ i > 1
  OBVIOUS
<1>7. BrowserInv'
  <2>1. \A x : Awaited(x, "browser")' <=> Awaited(x, "browser")
    BY DEF Awaited
  <2>2. ASSUME NEW i \in 1..Len(browser)
        PROVE  browser'[i].told = "notStarted" => browser'[i].at = "waiting"
    BY <1>3, <1>4, <1>5, <1>6
  <2>3. ASSUME NEW i \in 1..Len(browser), browser'[i].call # NoCall
        PROVE  /\ Awaited(browser'[i].call, "browser")
               /\ \A j \in 1..Len(browser) : browser'[j].call # NoCall => i = j
    BY <1>4, <2>3 DEF BrowserInv
  <2> QED
    BY <1>2, <1>5, <2>1, <2>2, <2>3 DEF BrowserInv
<1>8. \A p \in LetThrough("browser")' : place = "granted" /\ p = browser[1].owner
  <2>1. LetThrough("browser")' = {browser'[i].owner : i \in {j \in 1..Len(browser') : browser'[j].at = "granted"}}
    BY DEF LetThrough
  <2>2. ASSUME NEW i \in 1..Len(browser), browser'[i].at = "granted"
        PROVE  i = 1 /\ place = "granted"
    BY <1>3, <1>5, <1>6, <2>2
  <2> QED
    BY <1>2, <1>3, <2>1, <2>2
<1> QED
  BY <1>2, <1>7, <1>8

(* A browser operation is sent to the runner.                              *)
LEMMA BrowserAppends ==
    ASSUME BrowserInv, browser \in Seq(BrowserWork), NEW w \in BrowserWork,
           browser' = Append(browser, w), w.at = "waiting",
           \A i \in 1..Len(browser) : browser[i].call = NoCall,
           w.call # NoCall => Awaited(w.call, "browser")'
    PROVE  /\ browser' \in Seq(BrowserWork) /\ BrowserInv'
           /\ LetThrough("browser")' \subseteq LetThrough("browser")
<1>1. /\ Len(browser) \in Nat /\ Len(browser') = Len(browser) + 1
      /\ \A i \in 1..Len(browser) : browser'[i] = browser[i]
      /\ browser'[Len(browser) + 1] = w /\ browser' \in Seq(BrowserWork)
  OBVIOUS
<1>2. \A i \in 1..Len(browser') :
          \/ i \in 1..Len(browser) /\ browser'[i] = browser[i]
          \/ i = Len(browser) + 1 /\ browser'[i] = w
  BY <1>1
<1>3. ASSUME NEW i \in 1..Len(browser')
      PROVE  /\ browser'[i].call # NoCall =>
                    /\ Awaited(browser[i].call, "browser")'
                    /\ \A j \in 1..Len(browser') : browser'[j].call # NoCall => i = j
             /\ browser'[i].told = "notStarted" => browser'[i].at = "waiting"
             /\ i > 1 => browser'[i].at = "waiting"
  <2>1. CASE i \in 1..Len(browser) /\ browser'[i] = browser[i]
    BY <1>2, <2>1 DEF BrowserInv
  <2>2. CASE i = Len(browser) + 1 /\ browser'[i] = w
    <3>1. w.call # NoCall => Awaited(browser[i].call, "browser")'
      BY <2>2
    <3>2. w.told = "nothing" \/ w.at = "waiting"
      OBVIOUS
    <3> QED
      BY <1>1, <1>2, <2>2, <3>1, <3>2
  <2> QED
    BY <1>2, <2>1, <2>2
<1>4. LetThrough("browser")' \subseteq LetThrough("browser")
  BY <1>2 DEF LetThrough
<1> QED
  BY <1>1, <1>3, <1>4 DEF BrowserInv

-----------------------------------------------------------------------------
(* Late inputs.                                                            *)

LateType == late \in [Tool -> Seq({"nothing", "observation"})]

(* No input takes effect, and only inputs of the owner are let through.    *)
LEMMA LateKept ==
    ASSUME LateInv, late' = late, \A p : Interactive(lm, p) => Interactive(lm', p),
           \A t \in Tool : \A p \in LetThrough(t)' : p \in LetThrough(t) \/ Interactive(lm', p)
    PROVE  LateInv'
BY DEF LateInv, FewLateInputs

(* The owner changes.                                                      *)
LEMMA LateReset ==
    ASSUME late' = NoneLate
    PROVE  LateInv' /\ LateType'
<1>1. NoneLate \in [Tool -> Seq({"nothing", "observation"})] /\ \A t \in Tool : NoneLate[t] = <<>>
  BY DEF NoneLate
<1>2. Len(<<>>) = 0 /\ \A i \in DOMAIN <<>> : FALSE
  OBVIOUS
<1> QED
  BY <1>1, <1>2 DEF LateInv, FewLateInputs, LateType

(* An input that was let through takes effect, and no other of its tool    *)
(* had been.                                                               *)
LEMMA LateEffect ==
    ASSUME LateInv, LateType, lm' = lm, NEW tool \in Tool, NEW p \in LetThrough(tool),
           late' = Late(tool, p, "nothing"), LetThrough(tool)' = {},
           \A t \in Tool : LetThrough(t)' \subseteq LetThrough(t)
    PROVE  LateInv' /\ LateType'
<1>1. CASE Interactive(lm, p)
  BY <1>1, LateKept DEF Late, LateType
<1>2. CASE ~Interactive(lm, p)
  <2>1. late[tool] = <<>>
    BY <1>2 DEF LateInv
  <2>2. late' = [late EXCEPT ![tool] = Append(late[tool], "nothing")]
    BY <1>2 DEF Late
  <2> DEFINE one == Append(<<>>, "nothing")
  <2>3. /\ one \in Seq({"nothing", "observation"}) /\ Len(one) <= 1
        /\ \A i \in DOMAIN one : one[i] = "nothing"
    OBVIOUS
  <2>0. late' = [late EXCEPT ![tool] = one]
    BY <2>1, <2>2
  <2> HIDE DEF one
  <2>4. LateType'
    BY <2>0, <2>3 DEF LateType
  <2>5. late'[tool] = one /\ \A t \in Tool : t # tool => late'[t] = late[t]
    BY <2>0 DEF LateType
  <2>6. ASSUME NEW t \in Tool
        PROVE  Len(late'[t]) <= 1 /\ \A i \in DOMAIN late'[t] : late'[t][i] = "nothing"
    <3>1. CASE t = tool
      BY <2>3, <2>5, <3>1
    <3>2. CASE t # tool
      BY <2>5, <3>2 DEF FewLateInputs, LateInv
    <3> QED
      BY <3>1, <3>2
  <2>7. ASSUME NEW t \in Tool, late'[t] # <<>>, NEW q \in LetThrough(t)'
        PROVE  Interactive(lm', q)
    BY <2>5, <2>7 DEF LateInv
  <2> QED
    BY <2>4, <2>6, <2>7 DEF LateInv, FewLateInputs
<1> QED
  BY <1>1, <1>2

-----------------------------------------------------------------------------
(* The steps of the calls and of the runner.                               *)

Rest ==
    /\ CallsType
    /\ probe \in BOOLEAN /\ dialog \in BOOLEAN
    /\ desktop \in Seq(DesktopWork) /\ browser \in Seq(BrowserWork)
    /\ QueuesInv /\ DesktopInv /\ BrowserInv /\ ProbeInv

\* Only inputs of the owner are let through.
OwnersOnly ==
    \A t \in Tool : \A p \in LetThrough(t)' : p \in LetThrough(t) \/ Interactive(lm, p)

(* A call moves on.                                                        *)
LEMMA GoToFields ==
    ASSUME CallsType, NEW c \in Slot, NEW phase \in Phase, GoTo(c, phase)
    PROVE  /\ call' \in [Slot -> Call]
           /\ call'[c].tool = call[c].tool /\ call'[c].owner = call[c].owner
           /\ call'[c].phase = phase
           /\ \A x \in Slot : x # c => call'[x] = call[x]
<1>1. [call[c] EXCEPT !.phase = phase] \in Call
  BY DEF CallsType, Call
<1>2. call' = [call EXCEPT ![c] = [call[c] EXCEPT !.phase = phase]]
  BY DEF GoTo
<1> QED
  BY <1>1, <1>2 DEF CallsType, Call

(* The inputs let through by their tool, in full.                          *)
LEMMA OwnersOfAll ==
    ASSUME \A p \in LetThrough("desktop")' : p \in LetThrough("desktop") \/ Interactive(lm, p),
           \A p \in LetThrough("browser")' : p \in LetThrough("browser") \/ Interactive(lm, p),
           \A c \in Slot : Responding(c, "granted")' =>
               \/ Responding(c, "granted") /\ call'[c].owner = call[c].owner
               \/ Interactive(lm, call'[c].owner)
    PROVE  OwnersOnly
<1>1. \A p \in LetThrough("dialog")' : p \in LetThrough("dialog") \/ Interactive(lm, p)
  BY DEF LetThrough
<1> QED
  BY <1>1 DEF OwnersOnly, Tool

(* Only calls change, none that has been sent, and no observation begins.  *)
LEMMA CallsStep ==
    ASSUME Rest, UNCHANGED <<probe, desktop, browser>>, dialog' \in BOOLEAN,
           (CallsType /\ QueuesInv)',
           \A c \in Slot :
               /\ call[c].phase = "sent" => call'[c] = call[c]
               /\ call'[c].phase \in {"sent", "returned"} => call'[c] = call[c]
               /\ Responding(c, "granted")' =>
                      \/ Responding(c, "granted") /\ call'[c].owner = call[c].owner
                      \/ Interactive(lm, call'[c].owner)
    PROVE  Rest' /\ OwnersOnly
<1>1. \A c \in Slot, t \in Ordered : Awaited(c, t) => Awaited(c, t)'
  BY DEF Awaited
<1>2. DesktopInv' /\ LetThrough("desktop")' = LetThrough("desktop")
  BY <1>1, DesktopStays DEF Rest, Ordered
<1>3. BrowserInv' /\ LetThrough("browser")' = LetThrough("browser")
  BY <1>1, BrowserStays DEF Rest, Ordered
<1>4. ProbeInv'
  BY DEF Rest, ProbeInv
<1>5. OwnersOnly
  BY <1>2, <1>3, OwnersOfAll
<1> QED
  BY <1>2, <1>3, <1>4, <1>5 DEF Rest

(* The settlement of a call that had not been sent or has returned.        *)
LEMMA SettleStep ==
    ASSUME Rest, NEW c \in Slot, Settle(c), call[c].phase # "sent",
           Unqueued(c) \/ (call[c].tool \in Ordered /\ Heads(c)),
           UNCHANGED <<probe, desktop, browser, dialog>>
    PROVE  Rest' /\ OwnersOnly
<1>1. call' = [x \in Slot |-> IF x \in {c} THEN Idle ELSE call[x]] /\ queue' = After({c})
  BY DEF Settle, Rest, CallsType
<1>2. (CallsType /\ QueuesInv)'
  BY <1>1, QueuesSettle DEF Rest
<1>3. call'[c].phase = "idle" /\ \A x \in Slot : x # c => call'[x] = call[x]
  BY <1>1, IdleCall
<1>4. dialog' \in BOOLEAN
  BY DEF Rest
<1> QED
  BY <1>2, <1>3, <1>4, CallsStep DEF Responding

\* An operation whose turn has come.
(* The head of a queue may be sent, and nothing of its tool is awaited.    *)
LEMMA HeadCall ==
    ASSUME Rest, NEW c \in Slot, NEW t \in Ordered, IsHead(c, t)
    PROVE  /\ call[c].tool = t /\ call[c].phase = "queued" /\ Heads(c)
           /\ \A x \in Slot : ~Awaited(x, t)
<1>1. queue[t] \in Seq(Slot)
  BY DEF Rest, CallsType
<1>2. Len(queue[t]) \in Nat \ {0} /\ queue[t][1] = c /\ 1 \in 1..Len(queue[t])
  BY <1>1 DEF IsHead
<1>3. call[c].tool = t /\ call[c].phase = "queued"
  BY <1>2 DEF Rest, QueuesInv, IsHead
<1>4. ASSUME NEW x \in Slot, Awaited(x, t)
      PROVE  FALSE
  <2>1. x = c
    BY <1>2, <1>4 DEF Rest, QueuesInv, Awaited, Serving
  <2> QED
    BY <1>3, <1>4, <2>1 DEF Awaited
<1> QED
  BY <1>2, <1>3, <1>4 DEF Heads

(* Nothing changes but the caller's clock.                                 *)
LEMMA RestStays ==
    ASSUME Rest, UNCHANGED <<control, runner>>
    PROVE  Rest' /\ OwnersOnly
<1>1. /\ call' = call /\ queue' = queue /\ probe' = probe
      /\ desktop' = desktop /\ browser' = browser /\ dialog' = dialog
  BY DEF control, runner
<1>2. (CallsType /\ QueuesInv)' /\ dialog' \in BOOLEAN
  BY <1>1 DEF Rest, CallsType, QueuesInv
<1> QED
  BY <1>1, <1>2, CallsStep DEF Responding

(* A call arrives.                                                         *)
LEMMA RequestStep ==
    ASSUME Rest, NEW c \in Slot, NEW p \in LeaseProof,
           AdmitResponse(c, p) \/ \E tool \in DOMAIN queue : Admit(c, tool, p)
    PROVE  Rest' /\ OwnersOnly
<1>1. call \in [Slot -> Call] /\ DOMAIN queue = Ordered
  BY DEF Rest, CallsType
<1>2. CASE AdmitResponse(c, p)
  <2> DEFINE new == CallOf("dialog", p, "check")
  <2>1. new \in Call /\ new.phase = "check"
    BY IdleCall DEF Tool, Phase
  <2>2. /\ call[c].phase = "idle" /\ call' = [call EXCEPT ![c] = new] /\ queue' = queue
        /\ UNCHANGED <<probe, desktop, browser, dialog>>
    BY <1>2 DEF AdmitResponse, runner
  <2> HIDE DEF new
  <2>3. /\ call' \in [Slot -> Call] /\ call'[c].phase = "check"
        /\ \A x \in Slot : x # c => call'[x] = call[x]
    BY <1>1, <2>1, <2>2
  <2>4. Unqueued(c) /\ "check" \notin Serving
    BY <2>2 DEF Unqueued, Serving
  <2>5. (CallsType /\ QueuesInv)'
    BY <2>2, <2>3, <2>4, QueuesStay DEF Rest
  <2>6. dialog' \in BOOLEAN
    BY <2>2 DEF Rest
  <2> QED
    BY <2>2, <2>3, <2>5, <2>6, CallsStep DEF Responding
<1>3. ASSUME NEW tool \in Ordered, Admit(c, tool, p)
      PROVE  Rest' /\ OwnersOnly
  <2> DEFINE new == CallOf(tool, p, "queued")
  <2>1. new \in Call /\ new.phase = "queued"
    BY IdleCall DEF Ordered, Tool, Phase
  <2>2. call[c].phase = "idle" /\ UNCHANGED <<probe, desktop, browser, dialog>>
    BY <1>3 DEF Admit, runner
  <2>3. CASE call' = call /\ queue' = queue
    BY <2>2, <2>3, RestStays DEF control, runner
  <2>4. CASE call' = [call EXCEPT ![c] = new] /\ queue' = [queue EXCEPT ![tool] = Append(queue[tool], c)]
    <3>1. (CallsType /\ QueuesInv)'
      BY <2>2, <2>4, QueuesAdmit DEF Rest
    <3> HIDE DEF new
    <3>2. call'[c].phase = "queued" /\ \A x \in Slot : x # c => call'[x] = call[x]
      BY <1>1, <2>1, <2>4
    <3>3. dialog' \in BOOLEAN
      BY <2>2 DEF Rest
    <3> QED
      BY <2>2, <3>1, <3>2, <3>3, CallsStep DEF Responding
  <2> QED
    BY <1>3, <2>3, <2>4 DEF Admit
<1> QED
  BY <1>1, <1>2, <1>3

(* Desktop input is sent when nothing is awaited from the runner, so that  *)
(* only abandoned requests can be before it.                               *)
LEMMA DispatchDesktopStep ==
    ASSUME Rest, NEW c \in Slot, DispatchDesktop(c)
    PROVE  Rest' /\ OwnersOnly
<1>1. IsHead(c, "desktop") /\ probe = FALSE /\ UNCHANGED <<probe, browser, dialog>>
  BY DEF DispatchDesktop, Rest
<1>2. /\ call[c].tool = "desktop" /\ call[c].phase = "queued" /\ Heads(c)
      /\ \A x \in Slot : ~Awaited(x, "desktop")
  BY <1>1, HeadCall DEF Ordered
<1>3. CASE Settle(c) /\ desktop' = desktop
  BY <1>1, <1>2, <1>3, SettleStep DEF Ordered
<1>4. CASE Interactive(lm, call[c].owner) /\ SendDesktop(c, call[c].owner)
  <2> DEFINE w == [kind |-> "input", owner |-> call[c].owner, call |-> c,
                   begun |-> FALSE, behind |-> BehindWhat]
  <2>1. desktop' = Append(desktop, w) /\ GoTo(c, "sent") /\ queue' = queue
    BY <1>4 DEF SendDesktop
  <2>2. /\ call' \in [Slot -> Call] /\ call'[c].tool = "desktop" /\ call'[c].phase = "sent"
        /\ call'[c].owner = call[c].owner /\ \A x \in Slot : x # c => call'[x] = call[x]
    BY <1>2, <2>1, GoToFields DEF Rest, Phase
  <2>3. (CallsType /\ QueuesInv)'
    BY <1>2, <2>1, <2>2, QueuesStay DEF Rest, Ordered, Serving
  <2>4. \A i \in 1..Len(desktop) : /\ desktop[i] \in DesktopWork
                                   /\ ~LiveInput(desktop[i]) /\ ~LiveProbe(desktop[i])
    BY <1>1, <1>2 DEF Rest, DesktopInv, Awaited
  <2>5. \A i \in 1..Len(desktop) : desktop[i].call = NoCall
    BY <2>4 DEF LiveInput, LiveProbe, DesktopWork
  <2>6. BehindWhat = IF desktop = <<>> THEN "nothing" ELSE "abandoned"
    <3>1. CASE desktop # <<>>
      <4>1. desktop \in Seq(DesktopWork)
        BY DEF Rest
      <4>2. 1 \in DOMAIN desktop /\ DOMAIN desktop = 1..Len(desktop)
        BY <3>1, <4>1
      <4> QED
        BY <2>5, <3>1, <4>2 DEF BehindWhat
    <3> QED
      BY <3>1 DEF BehindWhat
  <2>7. call[c].owner \in LeaseProof
    BY DEF Rest, CallsType, Call
  <2>8. /\ w \in DesktopWork /\ w.kind = "input" /\ w.call = c /\ w.owner = call[c].owner
        /\ w.behind = BehindWhat
    BY <2>6, <2>7 DEF DesktopWork
  <2> HIDE DEF w
  <2>9. Awaited(c, "desktop")' /\ \A x \in Slot : Awaited(x, "desktop") => Awaited(x, "desktop")'
    BY <1>2, <2>2 DEF Awaited
  <2>10. LiveInput(w) /\ ~LiveProbe(w) /\ (WaitsForNothing(w) => desktop = <<>> /\ w.behind = "nothing")
    BY <2>6, <2>8, QueuesAssumption DEF LiveInput, LiveProbe, WaitsForNothing
  <2>11. /\ desktop' \in Seq(DesktopWork) /\ DesktopInv'
         /\ \A p \in LetThrough("desktop")' : p \in LetThrough("desktop") \/ p = w.owner
    BY <1>1, <2>1, <2>4, <2>8, <2>9, <2>10, DesktopAppends DEF Rest
  <2>12. BrowserInv' /\ LetThrough("browser")' = LetThrough("browser")
    BY <1>1, <1>2, <2>2, BrowserStays DEF Rest, Awaited
  <2>13. ProbeInv'
    BY <1>1 DEF ProbeInv
  <2>14. OwnersOnly
    BY <1>4, <2>2, <2>8, <2>11, <2>12, OwnersOfAll DEF Responding
  <2> QED
    BY <1>1, <2>3, <2>11, <2>12, <2>13, <2>14 DEF Rest
<1> QED
  BY <1>3, <1>4 DEF DispatchDesktop

(* A browser operation is sent, or refused.                                *)
LEMMA DispatchBrowserStep ==
    ASSUME Rest, NEW c \in Slot, DispatchBrowser(c)
    PROVE  Rest' /\ OwnersOnly
<1>1. IsHead(c, "browser") /\ UNCHANGED <<probe, desktop, dialog>>
  BY DEF DispatchBrowser
<1>2. /\ call[c].tool = "browser" /\ call[c].phase = "queued" /\ Heads(c)
      /\ \A x \in Slot : ~Awaited(x, "browser")
  BY <1>1, HeadCall DEF Ordered
<1>3. CASE Settle(c) /\ browser' = browser
  BY <1>1, <1>2, <1>3, SettleStep DEF Ordered
<1>4. ASSUME GoTo(c, "sent"), queue' = queue,
             browser' = Append(browser, [owner |-> call[c].owner, call |-> c,
                                         at |-> "waiting", told |-> "nothing"])
      PROVE  Rest' /\ OwnersOnly
  <2> DEFINE w == [owner |-> call[c].owner, call |-> c, at |-> "waiting", told |-> "nothing"]
  <2>1. browser' = Append(browser, w)
    BY <1>4
  <2>2. /\ call' \in [Slot -> Call] /\ call'[c].tool = "browser" /\ call'[c].phase = "sent"
        /\ call'[c].owner = call[c].owner /\ \A x \in Slot : x # c => call'[x] = call[x]
    BY <1>2, <1>4, GoToFields DEF Rest, Phase
  <2>3. (CallsType /\ QueuesInv)'
    BY <1>2, <1>4, <2>2, QueuesStay DEF Rest, Ordered, Serving
  <2>4. \A i \in 1..Len(browser) : browser[i].call = NoCall
    BY <1>2 DEF Rest, BrowserInv, Awaited
  <2>5. call[c].owner \in LeaseProof
    BY DEF Rest, CallsType, Call
  <2>6. w \in BrowserWork /\ w.call = c /\ w.at = "waiting"
    BY <2>5 DEF BrowserWork
  <2> HIDE DEF w
  <2>7. Awaited(c, "browser")'
    BY <2>2 DEF Awaited
  <2>8. /\ browser' \in Seq(BrowserWork) /\ BrowserInv'
        /\ LetThrough("browser")' \subseteq LetThrough("browser")
    BY <2>1, <2>4, <2>6, <2>7, BrowserAppends DEF Rest
  <2>9. DesktopInv' /\ LetThrough("desktop")' = LetThrough("desktop")
    BY <1>1, <1>2, <2>2, DesktopStays DEF Rest, Awaited
  <2>10. ProbeInv'
    BY <1>1, <2>2 DEF Rest, ProbeInv
  <2>11. OwnersOnly
    BY <2>2, <2>8, <2>9, OwnersOfAll DEF Responding
  <2> QED
    BY <1>1, <2>3, <2>8, <2>9, <2>10, <2>11 DEF Rest
<1> QED
  BY <1>3, <1>4 DEF DispatchBrowser

(* A call that is being served is the head of its queue.                   *)
LEMMA ServedCall ==
    ASSUME Rest, NEW c \in Slot, call[c].phase \in Serving
    PROVE  /\ call[c].tool \in Ordered /\ Heads(c)
           /\ \A x \in Slot : call[x].tool = call[c].tool /\ call[x].phase \in Serving => x = c
BY DEF Rest, QueuesInv, Heads

(* An observation follows the input of the same call: there is no other.   *)
LEMMA ObserveStep ==
    ASSUME Rest, NEW c \in Slot, Observe(c)
    PROVE  Rest' /\ OwnersOnly
<1> DEFINE w == [kind |-> "probe", owner |-> call[c].owner, call |-> c,
                 begun |-> FALSE, behind |-> BehindWhat]
<1>1. /\ call[c].phase = "returned" /\ call[c].tool = "desktop" /\ probe' = TRUE
      /\ desktop' = Append(desktop, w) /\ GoTo(c, "observing")
      /\ UNCHANGED <<queue, browser, dialog>>
  BY DEF Observe
<1>2. /\ Heads(c) /\ \A x \in Slot : call[x].tool = "desktop" /\ call[x].phase \in Serving => x = c
  BY <1>1, ServedCall DEF Serving
<1>3. /\ call' \in [Slot -> Call] /\ call'[c].tool = "desktop" /\ call'[c].phase = "observing"
      /\ call'[c].owner = call[c].owner /\ \A x \in Slot : x # c => call'[x] = call[x]
  BY <1>1, GoToFields DEF Rest, Phase
<1>4. (CallsType /\ QueuesInv)'
  BY <1>1, <1>2, <1>3, QueuesStay DEF Rest, Ordered, Serving
<1>5. probe = FALSE
  BY <1>1 DEF Rest, ProbeInv
<1>6. \A i \in 1..Len(desktop) : ~LiveProbe(desktop[i])
  BY <1>5 DEF Rest, DesktopInv
<1>7. w \in DesktopWork /\ w.kind = "probe" /\ w.owner = call[c].owner
  <2>1. call[c].owner \in LeaseProof
    BY DEF Rest, CallsType, Call
  <2>2. BehindWhat \in {"nothing", "observation", "abandoned"}
    BY DEF BehindWhat
  <2> QED
    BY <2>1, <2>2 DEF DesktopWork
<1> HIDE DEF w
<1>8. ~LiveInput(w) /\ ~WaitsForNothing(w)
  BY <1>7 DEF LiveInput, WaitsForNothing
<1>9. \A x \in Slot, t \in Ordered : Awaited(x, t) => Awaited(x, t)'
  BY <1>1, <1>3 DEF Awaited
<1>10. /\ desktop' \in Seq(DesktopWork) /\ DesktopInv'
       /\ LetThrough("desktop")' \subseteq LetThrough("desktop")
  BY <1>1, <1>6, <1>7, <1>8, <1>9, DesktopAppends DEF Rest, Ordered
<1>11. BrowserInv' /\ LetThrough("browser")' = LetThrough("browser")
  BY <1>1, <1>9, BrowserStays DEF Rest, Ordered
<1>12. ProbeInv'
  BY <1>2, <1>3 DEF ProbeInv, Serving
<1>13. OwnersOnly
  BY <1>3, <1>10, <1>11, OwnersOfAll DEF Responding
<1> QED
  BY <1>1, <1>4, <1>10, <1>11, <1>12, <1>13 DEF Rest

(* A function on the indices of a sequence is one of the same length.      *)
LEMMA SameLength ==
    ASSUME NEW S, NEW work \in Seq(S), NEW f \in [1..Len(work) -> S]
    PROVE  f \in Seq(S) /\ Len(f) = Len(work)
<1>1. Len(work) \in Nat
  OBVIOUS
<1>2. f \in Seq(S)
  BY <1>1
<1>3. DOMAIN f = 1..Len(f) /\ DOMAIN f = 1..Len(work) /\ Len(f) \in Nat
  BY <1>2
<1> QED
  BY <1>1, <1>2, <1>3

(* Work that is given up keeps its place.                                  *)
LEMMA AbandonedWork ==
    ASSUME NEW S, NEW work \in Seq(S), NEW c, \A w \in S : [w EXCEPT !.call = NoCall] \in S
    PROVE  /\ Abandoned(work, c) \in Seq(S)
           /\ Len(Abandoned(work, c)) = Len(work)
           /\ \A i \in 1..Len(work) :
                  /\ work[i] \in S
                  /\ Abandoned(work, c)[i] = IF work[i].call = c
                                             THEN [work[i] EXCEPT !.call = NoCall] ELSE work[i]
<1>1. DOMAIN work = 1..Len(work) /\ \A i \in 1..Len(work) : work[i] \in S
  OBVIOUS
<1>2. Abandoned(work, c) \in [1..Len(work) -> S]
  BY <1>1 DEF Abandoned
<1>3. \A i \in 1..Len(work) : Abandoned(work, c)[i] =
          IF work[i].call = c THEN [work[i] EXCEPT !.call = NoCall] ELSE work[i]
  BY <1>1 DEF Abandoned
<1> QED
  BY <1>1, <1>2, <1>3, SameLength

(* The deadline of a request: nobody waits for the work any more.          *)
LEMMA AbandonStep ==
    ASSUME Rest, NEW c \in Slot, Abandon(c)
    PROVE  Rest' /\ OwnersOnly
<1>1. call[c].phase = "sent" /\ Settle(c) /\ UNCHANGED <<probe, dialog>>
  BY DEF Abandon
<1>2. call[c].tool \in Ordered /\ Heads(c)
  BY <1>1, ServedCall DEF Serving
<1>3. call' = [x \in Slot |-> IF x \in {c} THEN Idle ELSE call[x]] /\ queue' = After({c})
  BY <1>1 DEF Settle, Rest, CallsType
<1>4. (CallsType /\ QueuesInv)'
  BY <1>2, <1>3, QueuesSettle DEF Rest
<1>5. call'[c].phase = "idle" /\ \A x \in Slot : x # c => call'[x] = call[x]
  BY <1>3, IdleCall
<1>6. ProbeInv'
  BY <1>1, <1>5 DEF Rest, ProbeInv
<1>7. CASE call[c].tool = "desktop"
  <2>1. desktop' = Abandoned(desktop, c) /\ browser' = browser
    BY <1>7 DEF Abandon
  <2>2. /\ desktop' \in Seq(DesktopWork) /\ Len(desktop') = Len(desktop)
        /\ \A i \in 1..Len(desktop) : desktop[i] \in DesktopWork
              /\ desktop'[i] = IF desktop[i].call = c THEN [desktop[i] EXCEPT !.call = NoCall]
                                                      ELSE desktop[i]
    <3>1. \A w \in DesktopWork : [w EXCEPT !.call = NoCall] \in DesktopWork
      BY DEF DesktopWork
    <3>2. desktop \in Seq(DesktopWork)
      BY DEF Rest
    <3>3. /\ Abandoned(desktop, c) \in Seq(DesktopWork)
          /\ Len(Abandoned(desktop, c)) = Len(desktop)
          /\ \A i \in 1..Len(desktop) :
                 /\ desktop[i] \in DesktopWork
                 /\ Abandoned(desktop, c)[i] = IF desktop[i].call = c
                                              THEN [desktop[i] EXCEPT !.call = NoCall] ELSE desktop[i]
      BY <3>1, <3>2, AbandonedWork
    <3> QED
      BY <2>1, <3>3
  <2>3. \A i \in 1..Len(desktop) :
            /\ desktop'[i].kind = desktop[i].kind /\ desktop'[i].owner = desktop[i].owner
            /\ desktop'[i].behind = desktop[i].behind /\ desktop'[i].begun = desktop[i].begun
            /\ desktop'[i].call = IF desktop[i].call = c THEN NoCall ELSE desktop[i].call
    BY <2>2 DEF DesktopWork
  <2>4. Len(desktop) \in Nat /\ \A i \in 1..Len(desktop) : i + 0 = i
    BY DEF Rest
  <2>5. DesktopPassed(0)
    BY <2>2, <2>3, <2>4 DEF DesktopPassed
  <2>6. ASSUME NEW i \in 1..Len(desktop')
        PROVE  /\ LiveInput(desktop[i])' => Awaited(desktop[i].call, "desktop")'
               /\ LiveProbe(desktop[i])' => probe'
    <3>1. i \in 1..Len(desktop)
      BY <2>2
    <3>2. LiveInput(desktop[i])' => LiveInput(desktop[i]) /\ desktop'[i].call = desktop[i].call
                                    /\ desktop[i].call # c
      BY <2>3, <3>1 DEF LiveInput
    <3>3. LiveProbe(desktop[i])' => LiveProbe(desktop[i])
      BY <2>3, <3>1 DEF LiveProbe
    <3> QED
      BY <1>1, <1>5, <3>1, <3>2, <3>3 DEF Rest, DesktopInv, Awaited
  <2>7. DesktopInv' /\ LetThrough("desktop")' \subseteq LetThrough("desktop")
    BY <2>2, <2>5, <2>6, DesktopPasses DEF Rest
  <2>8. BrowserInv' /\ LetThrough("browser")' = LetThrough("browser")
    BY <1>5, <1>7, <2>1, BrowserStays DEF Rest, Awaited
  <2>9. OwnersOnly
    BY <1>5, <2>7, <2>8, OwnersOfAll DEF Responding
  <2> QED
    BY <1>1, <1>4, <1>6, <2>1, <2>2, <2>7, <2>8, <2>9 DEF Rest
<1>8. CASE call[c].tool = "browser"
  <2>1. browser' = Abandoned(browser, c) /\ desktop' = desktop
    BY <1>8 DEF Abandon
  <2>2. /\ browser' \in Seq(BrowserWork) /\ Len(browser') = Len(browser)
        /\ \A i \in 1..Len(browser) : browser[i] \in BrowserWork
              /\ browser'[i] = IF browser[i].call = c THEN [browser[i] EXCEPT !.call = NoCall]
                                                      ELSE browser[i]
    <3>1. \A w \in BrowserWork : [w EXCEPT !.call = NoCall] \in BrowserWork
      BY DEF BrowserWork
    <3>2. browser \in Seq(BrowserWork)
      BY DEF Rest
    <3>3. /\ Abandoned(browser, c) \in Seq(BrowserWork)
          /\ Len(Abandoned(browser, c)) = Len(browser)
          /\ \A i \in 1..Len(browser) :
                 /\ browser[i] \in BrowserWork
                 /\ Abandoned(browser, c)[i] = IF browser[i].call = c
                                              THEN [browser[i] EXCEPT !.call = NoCall] ELSE browser[i]
      BY <3>1, <3>2, AbandonedWork
    <3> QED
      BY <2>1, <3>3
  <2>3. \A i \in 1..Len(browser) :
            /\ browser'[i].owner = browser[i].owner /\ browser'[i].at = browser[i].at
            /\ browser'[i].told = browser[i].told
            /\ browser'[i].call = IF browser[i].call = c THEN NoCall ELSE browser[i].call
    BY <2>2 DEF BrowserWork
  <2>4. Len(browser) \in Nat /\ \A i \in 1..Len(browser) : i + 0 = i
    BY DEF Rest
  <2>5. BrowserPassed(0)
    BY <2>2, <2>3, <2>4 DEF BrowserPassed
  <2>6. ASSUME NEW i \in 1..Len(browser')
        PROVE  browser'[i].call # NoCall => Awaited(browser[i].call, "browser")'
    BY <1>5, <2>2, <2>3 DEF Rest, BrowserInv, Awaited
  <2>7. BrowserInv' /\ LetThrough("browser")' \subseteq LetThrough("browser")
    BY <2>2, <2>5, <2>6, BrowserPasses DEF Rest
  <2>8. DesktopInv' /\ LetThrough("desktop")' = LetThrough("desktop")
    BY <1>1, <1>5, <1>8, <2>1, DesktopStays DEF Rest, Awaited
  <2>9. OwnersOnly
    BY <1>5, <2>7, <2>8, OwnersOfAll DEF Responding
  <2> QED
    BY <1>1, <1>4, <1>6, <2>1, <2>2, <2>7, <2>8, <2>9 DEF Rest
<1> QED
  BY <1>2, <1>7, <1>8 DEF Ordered

(* The deadline of an observation.                                         *)
LEMMA AbandonProbeStep ==
    ASSUME Rest, AbandonProbe
    PROVE  Rest' /\ OwnersOnly
<1>1. /\ probe' = FALSE /\ UNCHANGED <<call, queue, browser, dialog>>
      /\ desktop' = [i \in DOMAIN desktop |-> IF desktop[i].kind = "probe"
                        THEN [desktop[i] EXCEPT !.call = NoCall] ELSE desktop[i]]
  BY DEF AbandonProbe
<1>2. desktop \in Seq(DesktopWork) /\ Len(desktop) \in Nat
  BY DEF Rest
<1>3. \A w \in DesktopWork : [w EXCEPT !.call = NoCall] \in DesktopWork
  BY DEF DesktopWork
<1>4. /\ desktop' \in Seq(DesktopWork) /\ Len(desktop') = Len(desktop)
      /\ \A i \in 1..Len(desktop) : desktop[i] \in DesktopWork
            /\ desktop'[i] = IF desktop[i].kind = "probe"
                             THEN [desktop[i] EXCEPT !.call = NoCall] ELSE desktop[i]
  <2>1. DOMAIN desktop = 1..Len(desktop) /\ \A i \in 1..Len(desktop) : desktop[i] \in DesktopWork
    BY <1>2
  <2>2. desktop' \in [1..Len(desktop) -> DesktopWork]
    BY <1>1, <1>3, <2>1
  <2> QED
    BY <1>1, <1>2, <2>1, <2>2, SameLength
<1>5. \A i \in 1..Len(desktop) :
          /\ desktop'[i].kind = desktop[i].kind /\ desktop'[i].owner = desktop[i].owner
          /\ desktop'[i].behind = desktop[i].behind /\ desktop'[i].begun = desktop[i].begun
          /\ desktop'[i].call = IF desktop[i].kind = "probe" THEN NoCall ELSE desktop[i].call
  BY <1>4 DEF DesktopWork
<1>6. DesktopPassed(0)
  BY <1>2, <1>4, <1>5 DEF DesktopPassed
<1>7. ASSUME NEW i \in 1..Len(desktop')
      PROVE  /\ LiveInput(desktop[i])' => Awaited(desktop[i].call, "desktop")'
             /\ LiveProbe(desktop[i])' => probe'
  <2>1. LiveInput(desktop[i])' => LiveInput(desktop[i]) /\ desktop'[i].call = desktop[i].call
    BY <1>4, <1>5 DEF LiveInput
  <2>2. ~LiveProbe(desktop[i])'
    BY <1>4, <1>5 DEF LiveProbe
  <2> QED
    BY <1>1, <1>4, <2>1, <2>2 DEF Rest, DesktopInv, Awaited
<1>8. DesktopInv' /\ LetThrough("desktop")' \subseteq LetThrough("desktop")
  BY <1>2, <1>4, <1>6, <1>7, DesktopPasses DEF Rest
<1>9. BrowserInv' /\ LetThrough("browser")' = LetThrough("browser")
  BY <1>1, BrowserStays DEF Rest, Awaited
<1>10. (CallsType /\ QueuesInv)' /\ ProbeInv'
  BY <1>1 DEF Rest, CallsType, QueuesInv, ProbeInv
<1>11. OwnersOnly
  BY <1>1, <1>8, <1>9, OwnersOfAll DEF Responding
<1> QED
  BY <1>1, <1>4, <1>8, <1>9, <1>10, <1>11 DEF Rest

(* The answer of a call that has returned.                                 *)
LEMMA CompleteStep ==
    ASSUME Rest, NEW c \in Slot, Complete(c)
    PROVE  Rest' /\ OwnersOnly
<1>1. call[c].phase \in {"returned", "observing"} /\ Settle(c)
      /\ UNCHANGED <<probe, desktop, browser, dialog>>
  BY DEF Complete, runner
<1>2. call[c].tool \in Ordered /\ Heads(c)
  BY <1>1, ServedCall DEF Serving
<1> QED
  BY <1>1, <1>2, SettleStep

(* An input begins in the helper.  The one that waited for nothing is the  *)
(* first, and so the last of its kind.                                     *)
LEMMA BeginDesktopStep ==
    ASSUME Rest, LateInv, LateType, lm' = lm, BeginDesktop
    PROVE  Rest' /\ LateInv' /\ LateType'
<1>1. /\ desktop # <<>> /\ ~desktop[1].begun
      /\ desktop' = [desktop EXCEPT ![1] = [desktop[1] EXCEPT !.begun = TRUE]]
      /\ late' = IF WaitsForNothing(desktop[1])
                 THEN Late("desktop", desktop[1].owner, desktop[1].behind) ELSE late
      /\ UNCHANGED <<call, queue, probe, browser, dialog>>
  BY DEF BeginDesktop, WaitsForNothing, control, Rest
<1>2. desktop \in Seq(DesktopWork) /\ Len(desktop) \in Nat
  BY DEF Rest
<1>3. 1 \in 1..Len(desktop) /\ desktop[1] \in DesktopWork
  BY <1>1, <1>2
<1> DEFINE w == [desktop[1] EXCEPT !.begun = TRUE]
<1>4. /\ w \in DesktopWork /\ w.begun /\ w.kind = desktop[1].kind /\ w.owner = desktop[1].owner
      /\ w.behind = desktop[1].behind /\ w.call = desktop[1].call
  BY <1>3 DEF DesktopWork
<1>5. /\ desktop' \in Seq(DesktopWork) /\ Len(desktop') = Len(desktop) /\ desktop'[1] = w
      /\ \A i \in 1..Len(desktop) : i # 1 => desktop'[i] = desktop[i]
  <2>1. desktop' = [desktop EXCEPT ![1] = w]
    BY <1>1
  <2> HIDE DEF w
  <2> QED
    BY <1>2, <1>3, <1>4, <2>1
<1> HIDE DEF w
<1>6. DesktopPassed(0)
  <2>1. Len(desktop) - 0 = Len(desktop) /\ \A i \in 1..Len(desktop) : i + 0 = i
    BY <1>2
  <2> QED
    BY <1>4, <1>5, <2>1 DEF DesktopPassed
<1>7. ASSUME NEW i \in 1..Len(desktop')
      PROVE  /\ LiveInput(desktop[i])' => Awaited(desktop[i].call, "desktop")'
             /\ LiveProbe(desktop[i])' => probe'
  <2>1. desktop'[i].kind = desktop[i].kind /\ desktop'[i].call = desktop[i].call
    BY <1>4, <1>5
  <2> QED
    BY <1>1, <1>5, <2>1 DEF Rest, DesktopInv, Awaited, LiveInput, LiveProbe
<1>8. DesktopInv' /\ LetThrough("desktop")' \subseteq LetThrough("desktop")
  BY <1>2, <1>5, <1>6, <1>7, DesktopPasses DEF Rest
<1>9. LetThrough("desktop")' = {}
  <2>1. \A i \in 1..Len(desktop') : ~OnItsWay(desktop'[i])
    BY <1>4, <1>5, <1>8 DEF OnItsWay, DesktopInv
  <2> QED
    BY <2>1 DEF LetThrough
<1>10. BrowserInv' /\ LetThrough("browser")' = LetThrough("browser")
  BY <1>1, BrowserStays DEF Rest, Awaited
<1>11. (CallsType /\ QueuesInv)' /\ ProbeInv'
  BY <1>1 DEF Rest, CallsType, QueuesInv, ProbeInv
<1>12. \A t \in Tool : LetThrough(t)' \subseteq LetThrough(t)
  BY <1>1, <1>8, <1>10 DEF Tool, LetThrough, Responding
<1>13. LateInv' /\ LateType'
  <2>1. CASE WaitsForNothing(desktop[1])
    <3>1. OnItsWay(desktop[1]) /\ desktop[1].behind = "nothing"
      BY <1>1, <1>3, <2>1 DEF Rest, DesktopInv, OnItsWay
    <3>2. desktop[1].owner \in LetThrough("desktop")
      BY <1>3, <3>1 DEF LetThrough
    <3>3. late' = Late("desktop", desktop[1].owner, "nothing") /\ "desktop" \in Tool
      BY <1>1, <2>1, <3>1 DEF Tool
    <3> QED
      BY <1>9, <1>12, <3>2, <3>3, LateEffect
  <2>2. CASE ~WaitsForNothing(desktop[1])
    BY <1>1, <1>12, <2>2, LateKept DEF LateType
  <2> QED
    BY <2>1, <2>2
<1> QED
  BY <1>1, <1>5, <1>8, <1>10, <1>11, <1>13 DEF Rest

(* The helper has finished; who still waits for it gets the result.        *)
LEMMA EndDesktopStep ==
    ASSUME Rest, EndDesktop
    PROVE  Rest' /\ OwnersOnly
<1> DEFINE w == desktop[1]
<1>1. /\ desktop # <<>> /\ desktop' = Tail(desktop) /\ UNCHANGED <<queue, browser, dialog>>
      /\ \/ w.call = NoCall /\ UNCHANGED <<call, probe>>
         \/ LiveProbe(w) /\ probe' = FALSE /\ call' = call
         \/ w.kind # "probe" /\ w.call # NoCall /\ GoTo(w.call, "returned") /\ probe' = probe
  BY DEF EndDesktop, LiveProbe, Rest
<1>2. desktop \in Seq(DesktopWork) /\ Len(desktop) \in Nat \ {0} /\ 1 \in 1..Len(desktop)
      /\ w \in DesktopWork
  BY <1>1 DEF Rest
<1>3. /\ desktop' \in Seq(DesktopWork) /\ Len(desktop') = Len(desktop) - 1
      /\ \A i \in 1..Len(desktop') : /\ desktop'[i] = desktop[i + 1]
                                     /\ i + 1 \in 1..Len(desktop) /\ i + 1 # 1
  BY <1>1, <1>2
<1>4. DesktopPassed(1)
  BY <1>3 DEF DesktopPassed
<1>5. w.kind # "probe" /\ w.call # NoCall => LiveInput(w)
  BY <1>2 DEF DesktopWork, LiveInput
<1> HIDE DEF w
<1>6. LiveInput(w) => Awaited(w.call, "desktop") /\ w.call # NoCall
  BY <1>2 DEF Rest, DesktopInv, LiveInput, w
<1>7. ASSUME NEW i \in 1..Len(desktop')
      PROVE  /\ LiveInput(desktop'[i]) => ~LiveInput(w) /\ Awaited(desktop'[i].call, "desktop")
             /\ LiveProbe(desktop'[i]) => ~LiveProbe(w) /\ probe
  BY <1>2, <1>3 DEF Rest, DesktopInv, w
<1>8. CASE w.call = NoCall /\ UNCHANGED <<call, probe>>
  <2>1. \A i \in 1..Len(desktop') : LiveInput(desktop'[i]) => Awaited(desktop[i].call, "desktop")'
    BY <1>7, <1>8 DEF Awaited
  <2>2. \A i \in 1..Len(desktop') : LiveProbe(desktop'[i]) => probe'
    BY <1>7, <1>8
  <2>3. DesktopInv' /\ LetThrough("desktop")' \subseteq LetThrough("desktop")
    BY <1>2, <1>3, <1>4, <2>1, <2>2, DesktopPasses DEF Rest
  <2>4. BrowserInv' /\ LetThrough("browser")' = LetThrough("browser")
    BY <1>1, <1>8, BrowserStays DEF Rest, Awaited
  <2>5. (CallsType /\ QueuesInv)' /\ ProbeInv'
    BY <1>1, <1>8 DEF Rest, CallsType, QueuesInv, ProbeInv
  <2>6. OwnersOnly
    BY <1>8, <2>3, <2>4, OwnersOfAll DEF Responding
  <2> QED
    BY <1>1, <1>3, <1>8, <2>3, <2>4, <2>5, <2>6 DEF Rest
<1>9. CASE LiveProbe(w) /\ probe' = FALSE /\ call' = call
  <2>1. \A i \in 1..Len(desktop') : LiveInput(desktop'[i]) => Awaited(desktop[i].call, "desktop")'
    BY <1>7, <1>9 DEF Awaited
  <2>2. \A i \in 1..Len(desktop') : LiveProbe(desktop'[i]) => probe'
    BY <1>7, <1>9
  <2>3. DesktopInv' /\ LetThrough("desktop")' \subseteq LetThrough("desktop")
    BY <1>2, <1>3, <1>4, <2>1, <2>2, DesktopPasses DEF Rest
  <2>4. BrowserInv' /\ LetThrough("browser")' = LetThrough("browser")
    BY <1>1, <1>9, BrowserStays DEF Rest, Awaited
  <2>5. (CallsType /\ QueuesInv)' /\ ProbeInv'
    BY <1>1, <1>9 DEF Rest, CallsType, QueuesInv, ProbeInv
  <2>6. OwnersOnly
    BY <1>9, <2>3, <2>4, OwnersOfAll DEF Responding
  <2> QED
    BY <1>1, <1>3, <1>9, <2>3, <2>4, <2>5, <2>6 DEF Rest
<1>10. ASSUME LiveInput(w), GoTo(w.call, "returned"), probe' = probe
       PROVE  Rest' /\ OwnersOnly
  <2> DEFINE c == w.call
  <2>1. c \in Slot /\ call[c].tool = "desktop" /\ call[c].phase = "sent"
    BY <1>6, <1>10 DEF Awaited
  <2> HIDE DEF c
  <2>2. /\ call' \in [Slot -> Call] /\ call'[c].tool = "desktop" /\ call'[c].phase = "returned"
        /\ call'[c].owner = call[c].owner /\ \A x \in Slot : x # c => call'[x] = call[x]
    BY <1>10, <2>1, GoToFields DEF Rest, Phase, c
  <2>3. Heads(c)
    BY <2>1, ServedCall DEF Rest, Serving
  <2>4. (CallsType /\ QueuesInv)'
    BY <1>1, <2>1, <2>2, <2>3, QueuesStay DEF Rest, Ordered, Serving
  <2>5. probe = FALSE
    BY <2>1 DEF Rest, ProbeInv
  <2>6. ProbeInv'
    BY <1>10, <2>5 DEF ProbeInv
  <2>7. \A i \in 1..Len(desktop') : LiveInput(desktop'[i]) => Awaited(desktop[i].call, "desktop")'
    BY <1>7, <1>10
  <2>8. \A i \in 1..Len(desktop') : LiveProbe(desktop'[i]) => probe'
    BY <1>7, <1>10
  <2>9. DesktopInv' /\ LetThrough("desktop")' \subseteq LetThrough("desktop")
    BY <1>2, <1>3, <1>4, <2>7, <2>8, DesktopPasses DEF Rest
  <2>10. BrowserInv' /\ LetThrough("browser")' = LetThrough("browser")
    BY <1>1, <2>1, <2>2, BrowserStays DEF Rest, Awaited
  <2>11. OwnersOnly
    BY <2>2, <2>9, <2>10, OwnersOfAll DEF Responding
  <2> QED
    BY <1>1, <1>3, <1>10, <2>4, <2>6, <2>9, <2>10, <2>11 DEF Rest
<1> QED
  BY <1>1, <1>5, <1>8, <1>9, <1>10

(* The operation at the head of the browser's queue leaves it, and who     *)
(* waits for it gets its answer.                                           *)
LEMMA LeaveStep ==
    ASSUME Rest, browser # <<>>, LeaveQueue, UNCHANGED <<queue, probe, desktop, dialog>>
    PROVE  Rest' /\ OwnersOnly
<1> DEFINE w == browser[1]
<1>1. /\ browser' = Tail(browser)
      /\ IF w.call = NoCall THEN call' = call ELSE GoTo(w.call, "returned")
  BY DEF LeaveQueue, Rest
<1>2. browser \in Seq(BrowserWork) /\ Len(browser) \in Nat \ {0} /\ 1 \in 1..Len(browser)
  BY DEF Rest
<1>3. /\ browser' \in Seq(BrowserWork) /\ Len(browser') = Len(browser) - 1
      /\ \A i \in 1..Len(browser') : /\ browser'[i] = browser[i + 1]
                                     /\ i + 1 \in 1..Len(browser) /\ i + 1 # 1
  BY <1>1, <1>2
<1>4. BrowserPassed(1)
  BY <1>3 DEF BrowserPassed
<1> HIDE DEF w
<1>5. w.call # NoCall => Awaited(w.call, "browser")
  BY <1>2 DEF Rest, BrowserInv, w
<1>6. ASSUME NEW i \in 1..Len(browser'), browser'[i].call # NoCall
      PROVE  w.call = NoCall /\ Awaited(browser'[i].call, "browser")
  <2>1. /\ browser'[i] = browser[i + 1] /\ i + 1 \in 1..Len(browser) /\ i + 1 # 1
    BY <1>3
  <2>2. /\ Awaited(browser[i + 1].call, "browser")
        /\ browser[1].call # NoCall => 1 = i + 1
    BY <1>2, <1>6, <2>1 DEF Rest, BrowserInv
  <2> QED
    BY <2>1, <2>2 DEF w
<1>7. CASE w.call = NoCall
  <2>1. call' = call
    BY <1>1, <1>7
  <2>2. \A i \in 1..Len(browser') : browser'[i].call # NoCall => Awaited(browser[i].call, "browser")'
    BY <1>6, <2>1 DEF Awaited
  <2>3. BrowserInv' /\ LetThrough("browser")' \subseteq LetThrough("browser")
    BY <1>2, <1>3, <1>4, <2>2, BrowserPasses DEF Rest
  <2>4. DesktopInv' /\ LetThrough("desktop")' = LetThrough("desktop")
    BY <2>1, DesktopStays DEF Rest, Awaited
  <2>5. (CallsType /\ QueuesInv)' /\ ProbeInv'
    BY <2>1 DEF Rest, CallsType, QueuesInv, ProbeInv
  <2>6. OwnersOnly
    BY <2>1, <2>3, <2>4, OwnersOfAll DEF Responding
  <2> QED
    BY <1>3, <2>1, <2>3, <2>4, <2>5, <2>6 DEF Rest
<1>8. CASE w.call # NoCall
  <2> DEFINE c == w.call
  <2>1. c \in Slot /\ call[c].tool = "browser" /\ call[c].phase = "sent" /\ GoTo(c, "returned")
    BY <1>1, <1>5, <1>8 DEF Awaited
  <2> HIDE DEF c
  <2>2. /\ call' \in [Slot -> Call] /\ call'[c].tool = "browser" /\ call'[c].phase = "returned"
        /\ call'[c].owner = call[c].owner /\ \A x \in Slot : x # c => call'[x] = call[x]
    BY <2>1, GoToFields DEF Rest, Phase
  <2>3. Heads(c)
    BY <2>1, ServedCall DEF Rest, Serving
  <2>4. (CallsType /\ QueuesInv)'
    BY <2>1, <2>2, <2>3, QueuesStay DEF Rest, Ordered, Serving
  <2>5. ProbeInv'
    BY <2>2 DEF Rest, ProbeInv
  <2>6. \A i \in 1..Len(browser') : browser'[i].call # NoCall => Awaited(browser[i].call, "browser")'
    BY <1>6, <1>8
  <2>7. BrowserInv' /\ LetThrough("browser")' \subseteq LetThrough("browser")
    BY <1>2, <1>3, <1>4, <2>6, BrowserPasses DEF Rest
  <2>8. DesktopInv' /\ LetThrough("desktop")' = LetThrough("desktop")
    BY <2>1, <2>2, DesktopStays DEF Rest, Awaited
  <2>9. OwnersOnly
    BY <2>2, <2>7, <2>8, OwnersOfAll DEF Responding
  <2> QED
    BY <1>3, <2>4, <2>5, <2>7, <2>8, <2>9 DEF Rest
<1> QED
  BY <1>7, <1>8

(* The operation at the head goes on.                                      *)
LEMMA MoveStep ==
    ASSUME Rest, browser # <<>>, NEW place \in {"check", "granted", "entered"}, MoveTo(place),
           browser[1].told # "notStarted", UNCHANGED <<call, queue, probe, desktop, dialog>>
    PROVE  /\ Rest'
           /\ \A p \in LetThrough("browser")' : place = "granted" /\ p = browser[1].owner
           /\ LetThrough("desktop")' = LetThrough("desktop")
           /\ LetThrough("dialog")' = LetThrough("dialog")
<1>1. /\ browser' \in Seq(BrowserWork) /\ BrowserInv'
      /\ \A p \in LetThrough("browser")' : place = "granted" /\ p = browser[1].owner
  BY BrowserMoves DEF Rest
<1>2. DesktopInv' /\ LetThrough("desktop")' = LetThrough("desktop")
  BY DesktopStays DEF Rest, Awaited
<1>3. (CallsType /\ QueuesInv)' /\ ProbeInv'
  BY DEF Rest, CallsType, QueuesInv, ProbeInv
<1>4. LetThrough("dialog")' = LetThrough("dialog")
  BY DEF LetThrough, Responding
<1> QED
  BY <1>1, <1>2, <1>3, <1>4 DEF Rest

(* The steps of the browser's queue other than the input itself.  What has *)
(* been told that it was not started is still waiting.                     *)
LEMMA BrowserStep ==
    ASSUME Rest, StartOperation \/ VerifyInput \/ RecheckInput \/ OperationFails
    PROVE  Rest' /\ OwnersOnly
<1>1. browser # <<>> /\ UNCHANGED <<queue, probe, desktop, dialog>>
  BY DEF StartOperation, VerifyInput, RecheckInput, OperationFails, AtHead
<1>2. browser \in Seq(BrowserWork) /\ Head(browser) = browser[1] /\ 1 \in 1..Len(browser)
  BY <1>1 DEF Rest
<1>3. CASE LeaveQueue
  BY <1>1, <1>3, LeaveStep
<1>4. ASSUME NEW place \in {"check", "granted"}, MoveTo(place), call' = call,
             browser[1].told # "notStarted",
             place = "granted" => Interactive(lm, browser[1].owner)
      PROVE  Rest' /\ OwnersOnly
  <2>1. /\ Rest'
        /\ \A p \in LetThrough("browser")' : place = "granted" /\ p = browser[1].owner
        /\ LetThrough("desktop")' = LetThrough("desktop")
        /\ LetThrough("dialog")' = LetThrough("dialog")
    BY <1>1, <1>4, MoveStep
  <2> QED
    BY <1>4, <2>1 DEF OwnersOnly, Tool
<1>5. browser[1].at # "waiting" => browser[1].told # "notStarted"
  BY <1>2 DEF Rest, BrowserInv
<1>6. CASE StartOperation
  BY <1>2, <1>3, <1>4, <1>6 DEF StartOperation
<1>7. CASE VerifyInput
  BY <1>2, <1>3, <1>4, <1>5, <1>7 DEF VerifyInput, AtHead
<1>8. CASE RecheckInput
  BY <1>2, <1>3, <1>4, <1>5, <1>8 DEF RecheckInput, AtHead
<1>9. CASE OperationFails
  BY <1>3, <1>9 DEF OperationFails
<1> QED
  BY <1>6, <1>7, <1>8, <1>9

(* An input of the browser takes effect: only the head was let through.    *)
LEMMA InputTakesEffectStep ==
    ASSUME Rest, LateInv, LateType, lm' = lm, InputTakesEffect
    PROVE  Rest' /\ LateInv' /\ LateType'
<1>1. /\ browser # <<>> /\ MoveTo("entered") /\ UNCHANGED <<call, queue, probe, desktop, dialog>>
  BY DEF InputTakesEffect, AtHead, control
<1>2. browser \in Seq(BrowserWork) /\ Head(browser) = browser[1] /\ 1 \in 1..Len(browser)
  BY <1>1 DEF Rest
<1>3. browser[1].at = "granted" /\ late' = Late("browser", browser[1].owner, "nothing")
  BY <1>2 DEF InputTakesEffect, AtHead
<1>4. browser[1].told # "notStarted"
  BY <1>2, <1>3 DEF Rest, BrowserInv
<1>5. /\ Rest' /\ LetThrough("browser")' = {}
      /\ LetThrough("desktop")' = LetThrough("desktop")
      /\ LetThrough("dialog")' = LetThrough("dialog")
  BY <1>1, <1>4, MoveStep
<1>6. browser[1].owner \in LetThrough("browser")
  BY <1>2, <1>3 DEF LetThrough
<1>7. "browser" \in Tool /\ \A t \in Tool : LetThrough(t)' \subseteq LetThrough(t)
  BY <1>5 DEF Tool
<1> QED
  BY <1>3, <1>5, <1>6, <1>7, LateEffect

-----------------------------------------------------------------------------
(* Dialogs.                                                                *)

(* A dialog that opens answers whoever waits for the browser, and marks as *)
(* not started only what is waiting.                                       *)
LEMMA OpenDialogStep ==
    ASSUME Rest, OpenDialog
    PROVE  Rest' /\ OwnersOnly
<1> DEFINE A == {browser[i].call : i \in DOMAIN browser} \ {NoCall}
           F(w) == [w EXCEPT !.call = NoCall,
                             !.told = CASE @ # "nothing" -> @
                                        [] @ = "nothing" /\ w.at = "waiting" -> "notStarted"
                                        [] OTHER -> "awaiting"]
<1>1. /\ dialog' = TRUE /\ browser' = [i \in DOMAIN browser |-> F(browser[i])]
      /\ call' = [c \in Slot |-> IF c \in A THEN Idle ELSE call[c]] /\ queue' = After(A)
      /\ UNCHANGED <<probe, desktop>>
  BY DEF OpenDialog
<1>2. browser \in Seq(BrowserWork) /\ Len(browser) \in Nat /\ DOMAIN browser = 1..Len(browser)
  BY DEF Rest
<1>3. \A w \in BrowserWork :
          /\ F(w) \in BrowserWork /\ F(w).call = NoCall /\ F(w).at = w.at /\ F(w).owner = w.owner
          /\ F(w).told = "notStarted" => w.told = "notStarted" \/ w.at = "waiting"
  BY DEF BrowserWork
<1> HIDE DEF F
<1>4. /\ browser' \in Seq(BrowserWork) /\ Len(browser') = Len(browser)
      /\ \A i \in 1..Len(browser) : browser[i] \in BrowserWork /\ browser'[i] = F(browser[i])
  <2>1. \A i \in 1..Len(browser) : browser[i] \in BrowserWork
    BY <1>2
  <2>2. browser' \in [1..Len(browser) -> BrowserWork]
    BY <1>1, <1>2, <1>3, <2>1
  <2>3. browser' \in Seq(BrowserWork) /\ Len(browser') = Len(browser)
    BY <1>2, <2>2, SameLength
  <2> QED
    BY <1>1, <1>2, <2>1, <2>3
<1>5. \A c \in A : c \in Slot /\ Awaited(c, "browser")
  BY <1>2 DEF Rest, BrowserInv, Awaited
<1> HIDE DEF A
<1>6. \A c \in A : call[c].tool = "browser" /\ call[c].tool \in Ordered /\ Heads(c)
  BY <1>5, ServedCall DEF Awaited, Serving
<1>7. (CallsType /\ QueuesInv)'
  BY <1>1, <1>5, <1>6, QueuesSettle DEF Rest
<1>8. \A c \in Slot : IF c \in A THEN call'[c].phase = "idle" ELSE call'[c] = call[c]
  BY <1>1, IdleCall
<1>9. ProbeInv'
  BY <1>1, <1>8 DEF Rest, ProbeInv
<1>10. BrowserPassed(0)
  <2>1. Len(browser) - 0 = Len(browser) /\ \A i \in 1..Len(browser) : i + 0 = i
    BY <1>2
  <2> QED
    BY <1>3, <1>4, <2>1 DEF BrowserPassed
<1>11. \A i \in 1..Len(browser') : browser'[i].call # NoCall => Awaited(browser[i].call, "browser")'
  BY <1>3, <1>4
<1>12. BrowserInv' /\ LetThrough("browser")' \subseteq LetThrough("browser")
  BY <1>2, <1>4, <1>10, <1>11, BrowserPasses DEF Rest
<1>13. DesktopInv' /\ LetThrough("desktop")' = LetThrough("desktop")
  BY <1>1, <1>6, <1>8, DesktopStays DEF Rest, Awaited
<1>14. OwnersOnly
  BY <1>8, <1>12, <1>13, OwnersOfAll DEF Responding
<1> QED
  BY <1>1, <1>4, <1>7, <1>9, <1>12, <1>13, <1>14 DEF Rest

(* A dialog goes: the responses that had not reached it fail.              *)
LEMMA CloseDialogStep ==
    ASSUME Rest, NEW keep, CloseDialog(keep), UNCHANGED <<queue, probe, desktop, browser>>
    PROVE  Rest' /\ OwnersOnly /\ LetThrough("dialog")' = {}
           /\ \A t \in Ordered : LetThrough(t)' = LetThrough(t)
<1>1. /\ dialog' \in BOOLEAN
      /\ call' = [c \in Slot |-> IF call[c].tool # "dialog" THEN call[c]
                                 ELSE IF c \in keep THEN [call[c] EXCEPT !.phase = "entered"]
                                 ELSE Idle]
  BY DEF CloseDialog
<1>2. call \in [Slot -> Call]
  BY DEF Rest, CallsType
<1>3. \A c \in Slot : call[c].tool = "dialog" =>
          [call[c] EXCEPT !.phase = "entered"] \in Call
          /\ [call[c] EXCEPT !.phase = "entered"].phase = "entered"
  BY <1>2 DEF Call, Phase
<1>4. call' \in [Slot -> Call]
  BY <1>1, <1>2, <1>3, IdleCall
<1>5. \A c \in Slot :
          \/ call'[c] = call[c] /\ call[c].tool # "dialog"
          \/ call[c].tool = "dialog" /\ call'[c].phase \in {"entered", "idle"}
  BY <1>1, <1>3, IdleCall
<1>6. \A c \in Slot : call[c].tool = "dialog" => Unqueued(c) /\ call[c].phase \notin Serving
  BY DEF Rest, QueuesInv, Unqueued, Ordered
<1>7. (CallsType /\ QueuesInv)'
  BY <1>4, <1>5, <1>6, QueuesStay DEF Rest, Serving
<1>8. \A c \in Slot : ~Responding(c, "granted")'
  BY <1>5 DEF Responding
<1>9. Rest' /\ OwnersOnly
  BY <1>1, <1>5, <1>6, <1>7, <1>8, CallsStep DEF Serving
<1>10. LetThrough("dialog")' = {}
  BY <1>8 DEF LetThrough
<1> QED
  BY <1>9, <1>10 DEF LetThrough, Ordered

(* The response to a dialog: at most one reaches it.                       *)
LEMMA RespondStep ==
    ASSUME Rest, LateInv, LateType, lm' = lm, NEW c \in Slot, Respond(c)
    PROVE  Rest' /\ LateInv' /\ LateType'
<1>1. /\ Responding(c, "granted") /\ late' = Late("dialog", call[c].owner, "nothing")
      /\ \E keep : CloseDialog(keep)
      /\ UNCHANGED <<queue, probe, desktop, browser>>
  BY DEF Respond
<1>2. /\ Rest' /\ LetThrough("dialog")' = {}
      /\ \A t \in Ordered : LetThrough(t)' = LetThrough(t)
  BY <1>1, CloseDialogStep
<1>3. call[c].owner \in LetThrough("dialog") /\ "dialog" \in Tool
  BY <1>1 DEF LetThrough, Tool
<1>4. \A t \in Tool : LetThrough(t)' \subseteq LetThrough(t)
  BY <1>2 DEF Tool, Ordered
<1> QED
  BY <1>1, <1>2, <1>3, <1>4, LateEffect

(* The questions before and after a response.                              *)
LEMMA VerifyResponseStep ==
    ASSUME Rest, NEW c \in Slot, VerifyResponse(c) \/ RecheckResponse(c)
    PROVE  Rest' /\ OwnersOnly
<1>1. /\ call[c].tool = "dialog" /\ call[c].phase \in {"check", "entered"}
      /\ UNCHANGED <<probe, desktop, browser, dialog>>
  BY DEF VerifyResponse, RecheckResponse, Responding, runner
<1>2. Unqueued(c)
  BY <1>1 DEF Unqueued, Ordered
<1>3. CASE Settle(c)
  BY <1>1, <1>2, <1>3, SettleStep
<1>4. CASE Interactive(lm, call[c].owner) /\ GoTo(c, "granted") /\ queue' = queue
  <2>1. /\ call' \in [Slot -> Call] /\ call'[c].phase = "granted" /\ call'[c].owner = call[c].owner
        /\ \A x \in Slot : x # c => call'[x] = call[x]
    BY <1>4, GoToFields DEF Rest, Phase
  <2>2. (CallsType /\ QueuesInv)'
    BY <1>2, <1>4, <2>1, QueuesStay DEF Rest, Serving
  <2>3. dialog' \in BOOLEAN
    BY <1>1 DEF Rest
  <2> QED
    BY <1>1, <1>4, <2>1, <2>2, <2>3, CallsStep DEF Responding
<1> QED
  BY <1>3, <1>4 DEF VerifyResponse, RecheckResponse

-----------------------------------------------------------------------------
(* The whole.                                                              *)

(* The initial state.                                                      *)
LEMMA InitInv == Init => IInv
<1> SUFFICES ASSUME Init PROVE IInv
  OBVIOUS
<1>1. lm = NewManager /\ lm \in Manager /\ ManagerInv(lm) /\ Awake(lm)
  BY NewManagerKeeps DEF Init
<1>2. Calm(lm)
  BY <1>1 DEF Calm, NewManager
<1>3. PointersInv
  BY DEF Init, PointersInv, PointerOfOwner
<1>4. /\ call \in [Slot -> Call] /\ queue \in [Ordered -> Seq(Slot)]
      /\ \A c \in Slot : call[c].phase = "idle" /\ call[c].tool = "desktop"
  BY IdleCall DEF Init, Ordered
<1>5. \A t \in Ordered : queue[t] = <<>> /\ Len(queue[t]) = 0
  BY DEF Init, Ordered
<1>6. /\ desktop \in Seq(DesktopWork) /\ browser \in Seq(BrowserWork)
      /\ Len(desktop) = 0 /\ Len(browser) = 0 /\ probe = FALSE /\ dialog = FALSE /\ pointers = {}
  BY DEF Init
<1>7. QueuesInv
  BY <1>4, <1>5 DEF QueuesInv, Serving
<1>8. DesktopInv /\ BrowserInv /\ ProbeInv
  BY <1>6 DEF DesktopInv, BrowserInv, ProbeInv
<1>9. late = NoneLate /\ LateType /\ FewLateInputs
  <2>1. NoneLate \in [Tool -> Seq({"nothing", "observation"})] /\ \A t \in Tool : NoneLate[t] = <<>>
    BY DEF NoneLate
  <2>2. Len(<<>>) = 0 /\ \A i \in DOMAIN <<>> : FALSE
    OBVIOUS
  <2> QED
    BY <2>1, <2>2 DEF Init, LateType, FewLateInputs
<1>10. LateInv
  BY <1>9 DEF LateInv, NoneLate
<1>11. TypeOK
  BY <1>1, <1>4, <1>6, <1>9 DEF TypeOK, Ordered, LateType
<1> QED
  BY <1>1, <1>2, <1>3, <1>7, <1>8, <1>10, <1>11 DEF IInv

(* The parts of the invariant.                                             *)
LEMMA Parts ==
    IInv <=> ManagerPart /\ Rest /\ LateInv /\ LateType /\ pointers \subseteq LeaseProof
<1>1. TypeOK <=> /\ lm \in Manager
                 /\ CallsType /\ probe \in BOOLEAN /\ dialog \in BOOLEAN
                 /\ desktop \in Seq(DesktopWork) /\ browser \in Seq(BrowserWork)
                 /\ pointers \subseteq LeaseProof /\ LateType
  BY DEF TypeOK, CallsType, Ordered, LateType
<1> QED
  BY <1>1 DEF IInv, ManagerPart, ManagerInv, Rest

(* The same after a step.                                                  *)
LEMMA Assembled ==
    ASSUME Good(lm, lm'), PointersInv', Rest', LateInv', LateType', pointers' \subseteq LeaseProof
    PROVE  IInv'
<1>1. ManagerInv(lm') /\ Awake(lm') /\ Calm(lm') /\ lm' \in Manager
  BY DEF Good, ManagerInv
<1>2. TypeOK'
  BY <1>1 DEF TypeOK, Rest, CallsType, Ordered, LateType
<1> QED
  BY <1>1, <1>2 DEF IInv, Rest

(* Input ownership changes, or a job of it goes on.                        *)
LEMMA OwnershipStep ==
    ASSUME IInv, ChangeOwner \/ Job
    PROVE  IInv'
<1>1. ManagerPart /\ Rest /\ LateInv /\ LateType /\ pointers \subseteq LeaseProof
  BY Parts
<1>2. Good(lm, lm') /\ PointersInv'
  BY <1>1, EndOwnerStep, FreeOwnerStep, JobOwnerStep DEF ChangeOwner
<1>3. /\ late' = IF Holder(lm') = Holder(lm) THEN late ELSE NoneLate
      /\ UNCHANGED <<control, runner>> /\ pointers' \subseteq pointers
  BY DEF ChangeOwner, Job, Ownership, Acquire, Release, TakeHumanControl, ReleaseHumanControl,
         Expire, ResetEpoch, BeginJob, HandleRevocation, SettleJob
<1>4. Rest' /\ OwnersOnly
  BY <1>1, <1>3, RestStays
<1>5. CASE Holder(lm') = Holder(lm)
  <2>1. late' = late /\ \A p : Interactive(lm', p) <=> Interactive(lm, p)
    BY <1>2, <1>3, <1>5 DEF Good, Kept
  <2>2. \A t \in Tool : \A p \in LetThrough(t)' : p \in LetThrough(t) \/ Interactive(lm', p)
    BY <1>4, <2>1 DEF OwnersOnly
  <2>3. LateInv' /\ LateType'
    BY <1>1, <2>1, <2>2, LateKept DEF LateType
  <2> QED
    BY <1>1, <1>2, <1>3, <1>4, <2>3, Assembled
<1>6. CASE Holder(lm') # Holder(lm)
  <2>1. LateInv' /\ LateType'
    BY <1>3, <1>6, LateReset
  <2> QED
    BY <1>1, <1>2, <1>3, <1>4, <2>1, Assembled
<1> QED
  BY <1>5, <1>6

(* A call, the runner or a pointer moves on under the same owner, and no   *)
(* input takes effect.                                                     *)
LEMMA QuietStep ==
    ASSUME IInv, Good(lm, lm'), Holder(lm') = Holder(lm), PointersInv', Rest', OwnersOnly,
           late' = late, pointers' \subseteq LeaseProof
    PROVE  IInv'
<1>1. LateInv /\ LateType /\ \A p : Interactive(lm', p) <=> Interactive(lm, p)
  BY Parts DEF Good, Kept
<1>2. \A t \in Tool : \A p \in LetThrough(t)' : p \in LetThrough(t) \/ Interactive(lm', p)
  BY <1>1 DEF OwnersOnly
<1>3. LateInv' /\ LateType'
  BY <1>1, <1>2, LateKept DEF LateType
<1> QED
  BY <1>3, Assembled

(* An input takes effect.                                                  *)
LEMMA EffectStep ==
    ASSUME IInv, BeginDesktop \/ InputTakesEffect \/ \E c \in Slot : Respond(c)
    PROVE  IInv'
<1>1. ManagerPart /\ Rest /\ LateInv /\ LateType /\ pointers \subseteq LeaseProof
  BY Parts
<1>2. lm' = lm /\ pointers' = pointers
  BY DEF BeginDesktop, InputTakesEffect, Respond
<1>3. Good(lm, lm') /\ PointersInv'
  BY <1>1, <1>2, SameOwnerStep
<1>4. Rest' /\ LateInv' /\ LateType'
  BY <1>1, <1>2, BeginDesktopStep, InputTakesEffectStep, RespondStep
<1> QED
  BY <1>1, <1>2, <1>3, <1>4, Assembled

(* A call arrives: its activity renews the lease of its owner.             *)
LEMMA ArrivalStep ==
    ASSUME IInv, NEW c \in Slot, Request(c)
    PROVE  IInv'
<1>1. ManagerPart /\ Rest /\ pointers \subseteq LeaseProof /\ lm \in Manager
  BY Parts DEF ManagerPart, ManagerInv
<1>2. PICK p \in lm.issued : AdmitResponse(c, p) \/ \E tool \in DOMAIN queue : Admit(c, tool, p)
  BY DEF Request
<1>3. p \in LeaseProof
  BY <1>1 DEF Manager
<1>4. lm' = Verified(lm, p, TRUE) /\ pointers' = pointers /\ late' = late
  BY <1>2 DEF AdmitResponse, Admit
<1>5. /\ Good(lm, lm') /\ Holder(lm') = Holder(lm) /\ Owed(lm') = Owed(lm)
      /\ Revoking(lm') = Revoking(lm) /\ lm'.generation = lm.generation
      /\ (lm'.lease = NoLease) <=> (lm.lease = NoLease)
  BY <1>1, <1>4, VerifiedGood DEF ManagerPart
<1>6. lm'.human = lm.human
  BY <1>5 DEF Holder
<1>7. PointersInv'
  BY <1>1, <1>4, <1>5, <1>6, SamePointers DEF ManagerPart
<1>8. Rest' /\ OwnersOnly
  BY <1>1, <1>2, <1>3, RequestStep
<1> QED
  BY <1>1, <1>4, <1>5, <1>7, <1>8, QuietStep

(* A pointer is of the owner when it is shown.                             *)
LEMMA PointerStep ==
    ASSUME IInv, Pointer
    PROVE  IInv'
<1>1. ManagerPart /\ Rest /\ pointers \subseteq LeaseProof /\ lm.issued \subseteq LeaseProof
  BY Parts DEF ManagerPart, ManagerInv, Manager
<1>2. /\ lm' = lm /\ late' = late /\ UNCHANGED <<control, runner>>
      /\ \A p \in pointers' :
             \/ p \in pointers
             \/ lm.lease # NoLease /\ ~lm.human /\ p.generation = lm.generation
      /\ pointers' \subseteq LeaseProof
  BY <1>1 DEF Pointer, ApplyPointer, CancelPointer
<1>3. Good(lm, lm') /\ PointersInv'
  BY <1>1, <1>2, SameOwnerStep
<1>4. Rest' /\ OwnersOnly
  BY <1>1, <1>2, RestStays
<1> QED
  BY <1>2, <1>3, <1>4, QuietStep

(* The calls in the control service.                                       *)
LEMMA CallStep ==
    ASSUME IInv, NEW c \in Slot, Serve(c)
    PROVE  IInv'
<1>1. ManagerPart /\ Rest /\ pointers \subseteq LeaseProof
  BY Parts
<1>2. CASE Respond(c)
  BY <1>2, EffectStep
<1>3. CASE DispatchDesktop(c) \/ DispatchBrowser(c) \/ Abandon(c) \/ Observe(c) \/ Complete(c)
           \/ VerifyResponse(c) \/ RecheckResponse(c)
  <2>1. Rest' /\ OwnersOnly
    BY <1>1, <1>3, DispatchDesktopStep, DispatchBrowserStep, AbandonStep, ObserveStep,
       CompleteStep, VerifyResponseStep
  <2>2. lm' = lm /\ late' = late
    BY <1>3 DEF DispatchDesktop, DispatchBrowser, Abandon, Observe, Complete,
                VerifyResponse, RecheckResponse
  <2>3. \A p \in pointers' :
            \/ p \in pointers
            \/ p = call[c].owner /\ Interactive(lm, p)
    BY <1>3 DEF DispatchDesktop, SendDesktop, DispatchBrowser, Abandon, Observe, Complete,
                VerifyResponse, RecheckResponse
  <2>4. call[c].owner \in LeaseProof
    BY <1>1 DEF Rest, CallsType, Call
  <2>5. \A p : Interactive(lm, p) =>
            lm.lease # NoLease /\ ~lm.human /\ p.generation = lm.generation
    BY <1>1 DEF Interactive, Holds, ProofOf, ManagerPart, Calm
  <2>6. Good(lm, lm') /\ PointersInv'
    BY <1>1, <2>2, <2>3, <2>5, SameOwnerStep
  <2>7. pointers' \subseteq LeaseProof
    BY <1>1, <2>3, <2>4
  <2> QED
    BY <2>1, <2>2, <2>6, <2>7, QuietStep
<1> QED
  BY <1>2, <1>3 DEF Serve

(* The runner, and the deadline of an observation.                         *)
LEMMA RunnerStep ==
    ASSUME IInv, Runner \/ AbandonProbe
    PROVE  IInv'
<1>1. ManagerPart /\ Rest /\ pointers \subseteq LeaseProof
  BY Parts
<1>2. CASE BeginDesktop \/ InputTakesEffect
  BY <1>2, EffectStep
<1>3. CASE EndDesktop \/ StartOperation \/ VerifyInput \/ RecheckInput \/ OperationFails
           \/ OpenDialog \/ DialogGoes \/ AbandonProbe
  <2>1. Rest' /\ OwnersOnly
    <3>1. CASE DialogGoes
      BY <1>1, <3>1, CloseDialogStep DEF DialogGoes
    <3> QED
      BY <1>1, <1>3, <3>1, EndDesktopStep, BrowserStep, OpenDialogStep, AbandonProbeStep
  <2>2. lm' = lm /\ late' = late /\ pointers' = pointers
    BY <1>3 DEF EndDesktop, StartOperation, VerifyInput, RecheckInput, OperationFails,
                OpenDialog, DialogGoes, AbandonProbe
  <2>3. Good(lm, lm') /\ PointersInv'
    BY <1>1, <2>2, SameOwnerStep
  <2> QED
    BY <1>1, <2>1, <2>2, <2>3, QuietStep
<1> QED
  BY <1>2, <1>3 DEF Runner

(* Every step.                                                             *)
LEMMA NextStep == IInv /\ [Next]_vars => IInv'
<1> SUFFICES ASSUME IInv, [Next]_vars PROVE IInv'
  OBVIOUS
<1>1. CASE ChangeOwner \/ Job
  BY <1>1, OwnershipStep
<1>2. CASE \E c \in Slot : Request(c) \/ Serve(c)
  BY <1>2, ArrivalStep, CallStep
<1>3. CASE Runner \/ AbandonProbe
  BY <1>3, RunnerStep
<1>4. CASE Pointer
  BY <1>4, PointerStep
<1>5. CASE UNCHANGED vars
  <2>1. ManagerPart /\ Rest /\ pointers \subseteq LeaseProof
    BY Parts
  <2>2. lm' = lm /\ late' = late /\ pointers' = pointers /\ UNCHANGED <<control, runner>>
    BY <1>5 DEF vars
  <2> QED
    BY <2>1, <2>2, SameOwnerStep, RestStays, QuietStep
<1> QED
  BY <1>1, <1>2, <1>3, <1>4, <1>5 DEF Next

(* The invariant holds in every behaviour of the specification.            *)
LEMMA Inductive == Spec => []IInv
<1>1. Init => IInv
  BY InitInv
<1>2. IInv /\ [Next]_vars => IInv'
  BY NextStep
<1> QED
  BY <1>1, <1>2, PTL DEF Spec

-----------------------------------------------------------------------------
(* The properties of module InputQueues.                                   *)

(* The queues of the control service and of the runner, the calls, the     *)
(* pointers and the dialog keep their types in every interleaving.         *)
THEOREM TypeCorrect == Spec => []TypeOK
<1>1. IInv => TypeOK
  BY DEF IInv
<1> QED
  BY <1>1, Inductive, PTL

(* Interactive input is sent with no observation and no other awaited      *)
(* input before it, and verified when it is sent: whatever the number of   *)
(* callers, at most one input per tool takes effect after its owner has    *)
(* lost control, and it had waited for nothing.                            *)
THEOREM LateInputs == Spec => []FewLateInputs
<1>1. IInv => FewLateInputs
  BY DEF IInv, LateInv
<1> QED
  BY <1>1, Inductive, PTL

(* A browser operation that a dialog interrupted while it waited, and that *)
(* was answered as not started, leaves the runner's queue without running. *)
THEOREM NotStarted == Spec => []NotStartedStaysSo
<1>1. IInv => NotStartedStaysSo
  <2> SUFFICES ASSUME IInv, NEW i \in DOMAIN browser, browser[i].told = "notStarted"
               PROVE  browser[i].at = "waiting"
    BY DEF NotStartedStaysSo
  <2>1. browser \in Seq(BrowserWork)
    BY Parts DEF Rest
  <2>2. i \in 1..Len(browser)
    BY <2>1
  <2> QED
    BY <2>2 DEF IInv, BrowserInv
<1> QED
  BY <1>1, Inductive, PTL

(* The executor's revocation handler removes every pointer before a new    *)
(* owner can be granted control, and shows one only of the owner there is. *)
THEOREM PointersOfOwner == Spec => []PointerOfOwner
<1>1. IInv => PointerOfOwner
  BY DEF IInv, PointersInv
<1> QED
  BY <1>1, Inductive, PTL
=============================================================================
