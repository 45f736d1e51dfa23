------------------------- MODULE LeaseManagerProofs -------------------------
(***************************************************************************)
(* Proofs about the methods of module LeaseManager: each keeps the         *)
(* invariant of the object, for every set of clients and durations.  The   *)
(* modules that drive a LeaseManager rest their proofs on these lemmas.    *)
(***************************************************************************)
EXTENDS LeaseManager, TLAPS

(***************************************************************************)
(* The inductive invariant of the LeaseManager.  Remembered and Fenced are *)
(* the properties; Fresh is why a proof cannot come back, QuietJob why     *)
(* nothing is lost when a job begins, and OnlyRevoked says that no handler *)
(* is called for the owner.                                                *)
(***************************************************************************)
CurrentIssued(s) ==
    s.lease # NoLease => /\ ProofOf(s.lease) \in s.issued
                         /\ s.lease.epoch = s.epoch

Fresh(s) ==
    \A p \in s.issued : /\ p.epoch <= s.epoch
                        /\ p.epoch = s.epoch => p.generation <= s.generation

QuietJob(s) == ~s.running => s.todo = {}

Background(s) == s.human /\ s.lease # NoLease => s.lease.backgroundOnly

Remembered(s) == Revoked(s) \subseteq s.fenced \cup Owed(s)

OnlyRevoked(s) == s.fenced \cup Owed(s) \subseteq Revoked(s) \cup {WithoutProof}

Fenced(s) == s.lease # NoLease => Revoked(s) \subseteq s.fenced

ManagerInv(s) ==
    /\ s \in Manager
    /\ CurrentIssued(s)
    /\ Fresh(s)
    /\ QuietJob(s)
    /\ Background(s)
    /\ Remembered(s)
    /\ OnlyRevoked(s)
    /\ Fenced(s)

Awake(s) == s.waiters # <<>> => ~Free(s)

(***************************************************************************)
(* What every method does to the object besides keeping the invariant: it  *)
(* revives no proof, only adds revocation jobs behind those there are, and *)
(* owes the lease it ends.                                                 *)
(***************************************************************************)
NoRevival(s, e) ==
    s.issued \subseteq e.issued /\ \A p \in s.issued : Holds(e, p) => Holds(s, p)

Extends(s, e) ==
    /\ e.running = s.running /\ e.todo = s.todo /\ e.failed = s.failed
    /\ e.fenced = s.fenced
    /\ Len(s.queue) <= Len(e.queue)
    /\ \A i \in 1..Len(s.queue) : e.queue[i] = s.queue[i]

(* A lease that has ended is owed to the handler. *)
Handed(s, e) == LeaseTargets(s) \subseteq LeaseTargets(e) \cup Owed(e)

Advances(s, e) == ManagerInv(e) /\ NoRevival(s, e) /\ Extends(s, e) /\ Handed(s, e)

\* Every method but resetEpoch() keeps the epoch.
Moves(s, e) == Advances(s, e) /\ e.epoch = s.epoch

-----------------------------------------------------------------------------
(* The object begins without a lease, a job or a history.                  *)
LEMMA NewManagerKeeps == NewManager \in Manager /\ ManagerInv(NewManager) /\ Awake(NewManager)
<1> DEFINE s == NewManager
<1>1. s \in Manager
  BY DEF NewManager, Manager
<1>2. /\ s.lease = NoLease /\ s.human = FALSE /\ s.queue = <<>> /\ s.issued = {}
      /\ s.waiters = <<>> /\ s.todo = {} /\ s.failed = {} /\ s.fenced = {}
      /\ s.running = FALSE
  BY DEF NewManager
<1>3. Owed(s) = {} /\ Revoked(s) = {}
  <2>1. 1..Len(s.queue) = {}
    BY <1>2
  <2> QED
    BY <1>2, <2>1 DEF Owed, Revoked
<1> HIDE DEF s
<1>4. ManagerInv(s)
  BY <1>1, <1>2, <1>3 DEF ManagerInv, CurrentIssued, Fresh, QuietJob, Background,
                          Remembered, OnlyRevoked, Fenced
<1>5. Awake(s)
  BY <1>2 DEF Awake
<1> QED
  BY <1>1, <1>4, <1>5 DEF s

(* What the helpers return.                                                *)

(* revoke() chains a job with exactly the given targets and touches        *)
(* nothing else.                                                           *)
LEMMA EnqueueOwes ==
    ASSUME NEW s \in Manager, NEW T \in SUBSET Target
    PROVE  /\ EnqueueRevocations(s, T) \in Manager
           /\ Owed(EnqueueRevocations(s, T)) = Owed(s) \cup T
<1> DEFINE e == EnqueueRevocations(s, T)
<1>0. s.queue \in Seq(SUBSET Target) /\ Append(s.queue, T) \in Seq(SUBSET Target)
  BY DEF Manager
<1>1. e \in Manager
  BY <1>0 DEF Manager, EnqueueRevocations
<1>2. e.queue = Append(s.queue, T) /\ e.todo = s.todo /\ e.failed = s.failed
  BY DEF Manager, EnqueueRevocations
<1>4. UNION {Append(s.queue, T)[i] : i \in 1..Len(Append(s.queue, T))}
        = (UNION {s.queue[i] : i \in 1..Len(s.queue)}) \cup T
  <2>1. Len(Append(s.queue, T)) = Len(s.queue) + 1 /\ Len(s.queue) \in Nat
    BY <1>0
  <2>2. \A i \in 1..Len(s.queue) : Append(s.queue, T)[i] = s.queue[i]
    BY <1>0
  <2>3. Append(s.queue, T)[Len(s.queue) + 1] = T
    BY <1>0
  <2> QED
    BY <2>1, <2>2, <2>3
<1> QED
  BY <1>1, <1>2, <1>4 DEF Owed

(* revoke() leaves a job to await.                                         *)
LEMMA EnqueuedRevoking ==
    ASSUME NEW s \in Manager, NEW T \in SUBSET Target
    PROVE  Revoking(EnqueueRevocations(s, T))
<1>1. s.queue \in Seq(SUBSET Target)
  BY DEF Manager
<1>2. EnqueueRevocations(s, T).queue = Append(s.queue, T)
  BY DEF EnqueueRevocations, Manager
<1>3. Append(s.queue, T) # <<>>
  <2>1. Len(Append(s.queue, T)) = Len(s.queue) + 1 /\ Len(s.queue) \in Nat
    BY <1>1
  <2> QED
    BY <2>1
<1> QED
  BY <1>2, <1>3 DEF Revoking

(* A lease that has ended, in any way that keeps the history, owes its     *)
(* holder and moves the generation or the epoch on, keeps the invariant.   *)
LEMMA EndedLease ==
    ASSUME NEW s, ManagerInv(s), NEW e \in Manager,
           e.lease = NoLease, e.issued = s.issued, e.fenced = s.fenced,
           e.running = s.running, e.todo = s.todo,
           Owed(s) \cup LeaseTargets(s) \subseteq Owed(e),
           Owed(e) \subseteq Owed(s) \cup s.issued \cup {WithoutProof},
           \/ e.epoch = s.epoch /\ e.generation >= s.generation
           \/ e.epoch > s.epoch
    PROVE  ManagerInv(e)
<1>1. s \in Manager /\ s.epoch \in Nat /\ s.generation \in Nat
      /\ e.epoch \in Nat /\ e.generation \in Nat
  BY DEF ManagerInv, Manager
<1>2. \A p \in s.issued : p.epoch \in Nat /\ p.generation \in Nat
  BY <1>1 DEF Manager, LeaseProof
<1>3. CurrentIssued(e) /\ Background(e) /\ Fenced(e)
  BY DEF CurrentIssued, Background, Fenced
<1>4. Fresh(e)
  BY <1>1, <1>2 DEF ManagerInv, Fresh
<1>5. QuietJob(e)
  BY DEF ManagerInv, QuietJob
<1>6. Remembered(e)
  BY DEF ManagerInv, Remembered, Revoked, Holds, LeaseTargets
<1>7. OnlyRevoked(e)
  BY DEF ManagerInv, OnlyRevoked, Revoked, Holds
<1> QED
  BY <1>3, <1>4, <1>5, <1>6, <1>7 DEF ManagerInv

(* A change that leaves lease, epoch and history alone, owes no less and   *)
(* begins no human control keeps the invariant.                            *)
LEMMA SameLease ==
    ASSUME NEW s, ManagerInv(s), NEW e \in Manager,
           \/ e.lease = s.lease
           \/ /\ s.lease # NoLease /\ e.lease # NoLease
              /\ ProofOf(e.lease) = ProofOf(s.lease)
              /\ e.lease.epoch = s.lease.epoch
              /\ e.lease.backgroundOnly = s.lease.backgroundOnly,
           e.issued = s.issued, e.fenced = s.fenced,
           e.running = s.running, e.todo = s.todo, Owed(s) \subseteq Owed(e),
           Owed(e) \subseteq Owed(s) \cup Revoked(s) \cup {WithoutProof},
           e.epoch = s.epoch, e.generation >= s.generation, e.human => s.human
    PROVE  ManagerInv(e)
<1>1. s \in Manager /\ s.generation \in Nat /\ e.generation \in Nat
  BY DEF ManagerInv, Manager
<1>2. \A p \in s.issued : p.generation \in Nat
  BY <1>1 DEF Manager, LeaseProof
<1>3. (e.lease = NoLease) <=> (s.lease = NoLease)
  OBVIOUS
<1>4. \A p : Holds(e, p) <=> Holds(s, p)
  BY <1>3 DEF Holds
<1>5. Revoked(e) = Revoked(s)
  BY <1>4 DEF Revoked
<1>6. CurrentIssued(e)
  BY <1>3 DEF ManagerInv, CurrentIssued
<1>7. Fresh(e)
  BY <1>1, <1>2 DEF ManagerInv, Fresh
<1>8. QuietJob(e) /\ Background(e)
  BY <1>3 DEF ManagerInv, QuietJob, Background
<1>9. Remembered(e) /\ Fenced(e)
  BY <1>3, <1>5 DEF ManagerInv, Remembered, Fenced
<1>10. OnlyRevoked(e)
  BY <1>5 DEF ManagerInv, OnlyRevoked
<1> QED
  BY <1>6, <1>7, <1>8, <1>9, <1>10 DEF ManagerInv

(* The holder of the lease as a list of revocation targets.                *)
LEMMA LeaseTargetsType ==
    ASSUME NEW s \in Manager
    PROVE  /\ LeaseTargets(s) \in SUBSET Target
           /\ ManagerInv(s) => LeaseTargets(s) \subseteq s.issued
<1>1. s.lease \in Lease \cup {NoLease}
  BY DEF Manager
<1>2. s.lease # NoLease => ProofOf(s.lease) \in LeaseProof
  BY <1>1 DEF Lease, ProofOf, LeaseProof
<1> QED
  BY <1>2 DEF LeaseTargets, Target, ManagerInv, CurrentIssued

(* What is owed stays owed while jobs are only added behind.               *)
LEMMA OwedGrows ==
    ASSUME NEW s \in Manager, NEW e \in Manager, Extends(s, e)
    PROVE  Owed(s) \subseteq Owed(e)
<1>1. Len(s.queue) \in Nat /\ Len(e.queue) \in Nat
  BY DEF Manager
<1>2. \A i \in 1..Len(s.queue) : i \in 1..Len(e.queue) /\ e.queue[i] = s.queue[i]
  BY <1>1 DEF Extends
<1> QED
  BY <1>2 DEF Extends, Owed

(* Steps of a method compose.                                              *)
LEMMA MovesTransitive ==
    ASSUME NEW s, s \in Manager, NEW e, Moves(s, e), NEW f, Moves(e, f)
    PROVE  Moves(s, f)
<1>1. ManagerInv(f) /\ e \in Manager /\ f \in Manager
  BY DEF Moves, Advances, ManagerInv
<1>2. NoRevival(s, f)
  BY DEF Moves, Advances, NoRevival
<1>3. Extends(s, f)
  <2>1. Len(s.queue) \in Nat /\ Len(e.queue) \in Nat /\ Len(f.queue) \in Nat
    BY <1>1 DEF Manager
  <2>2. \A i \in 1..Len(s.queue) : i \in 1..Len(e.queue)
    BY <2>1 DEF Moves, Advances, Extends
  <2> QED
    BY <2>1, <2>2 DEF Moves, Advances, Extends
<1>4. Handed(s, f)
  <2>1. Owed(e) \subseteq Owed(f)
    BY <1>1, OwedGrows DEF Moves, Advances
  <2> QED
    BY <2>1 DEF Moves, Advances, Handed
<1> QED
  BY <1>1, <1>2, <1>3, <1>4 DEF Moves, Advances

(* A change of the other fields is a step of a method.                     *)
LEMMA FieldsMove ==
    ASSUME NEW s, NEW e, ManagerInv(e), e.issued = s.issued,
           e.lease = s.lease, e.epoch = s.epoch,
           e.running = s.running, e.todo = s.todo, e.failed = s.failed,
           e.fenced = s.fenced, e.queue = s.queue
    PROVE  Moves(s, e)
<1>1. Len(s.queue) <= Len(e.queue)
  BY DEF ManagerInv, Manager
<1> QED
  BY <1>1 DEF Moves, Advances, NoRevival, Extends, Handed, Holds, LeaseTargets

(* revoke() on its own.                                                    *)
LEMMA EnqueueMoves ==
    ASSUME NEW s, ManagerInv(s), NEW T \in SUBSET Target,
           T \subseteq Revoked(s) \cup {WithoutProof}
    PROVE  /\ Moves(s, EnqueueRevocations(s, T))
           /\ Awake(EnqueueRevocations(s, T))
<1> DEFINE e == EnqueueRevocations(s, T)
<1>1. s \in Manager /\ s.queue \in Seq(SUBSET Target)
  BY DEF ManagerInv, Manager
<1>2. e \in Manager /\ Owed(e) = Owed(s) \cup T
  BY <1>1, EnqueueOwes
<1>3. /\ e.lease = s.lease /\ e.issued = s.issued /\ e.fenced = s.fenced
      /\ e.running = s.running /\ e.todo = s.todo /\ e.failed = s.failed
      /\ e.epoch = s.epoch /\ e.generation = s.generation /\ e.human = s.human
      /\ e.queue = Append(s.queue, T) /\ e.waiters = s.waiters
  BY <1>1 DEF Manager, EnqueueRevocations
<1>4. s.generation \in Nat
  BY <1>1 DEF Manager
<1>5. ManagerInv(e)
  <2> HIDE DEF e
  <2> QED
    BY <1>1, <1>2, <1>3, <1>4, SameLease
<1>6. /\ Len(e.queue) = Len(s.queue) + 1 /\ Len(s.queue) \in Nat
      /\ \A i \in 1..Len(s.queue) : e.queue[i] = s.queue[i]
  BY <1>1, <1>3
<1>7. e.queue # <<>>
  BY <1>6
<1>8. Awake(e)
  BY <1>7 DEF Awake, Free, Revoking
<1>9. Extends(s, e)
  BY <1>3, <1>6 DEF Extends
<1>10. NoRevival(s, e) /\ Handed(s, e)
  BY <1>3 DEF NoRevival, Holds, Handed, LeaseTargets
<1> QED
  BY <1>3, <1>5, <1>8, <1>9, <1>10 DEF Moves, Advances

(* The ways a lease ends: expiry, release and every revocation.  h is the  *)
(* manager without its lease, with a later generation or epoch.            *)
LEMMA EndMoves ==
    ASSUME NEW s, ManagerInv(s), NEW h \in Manager,
           NEW T \in SUBSET Target, LeaseTargets(s) \subseteq T,
           T \subseteq s.issued \cup {WithoutProof},
           h.lease = NoLease, h.issued = s.issued, h.fenced = s.fenced,
           h.running = s.running, h.todo = s.todo, h.failed = s.failed,
           h.queue = s.queue,
           \/ h.epoch = s.epoch /\ h.generation >= s.generation
           \/ h.epoch > s.epoch
    PROVE  /\ Advances(s, EnqueueRevocations(h, T))
           /\ h.epoch = s.epoch => Moves(s, EnqueueRevocations(h, T))
           /\ Awake(EnqueueRevocations(h, T))
<1> DEFINE e == EnqueueRevocations(h, T)
<1>1. s \in Manager /\ s.queue \in Seq(SUBSET Target)
  BY DEF ManagerInv, Manager
<1>2. e \in Manager /\ Owed(e) = Owed(h) \cup T
  BY EnqueueOwes
<1>3. /\ e.lease = h.lease /\ e.issued = h.issued /\ e.fenced = h.fenced
      /\ e.running = h.running /\ e.todo = h.todo /\ e.failed = h.failed
      /\ e.epoch = h.epoch /\ e.generation = h.generation
      /\ e.queue = Append(h.queue, T)
  BY DEF Manager, EnqueueRevocations
<1>4. Owed(h) = Owed(s)
  BY DEF Owed
<1>5. ManagerInv(e)
  <2> HIDE DEF e
  <2> QED
    BY <1>1, <1>2, <1>3, <1>4, EndedLease
<1>6. /\ Len(e.queue) = Len(s.queue) + 1 /\ Len(s.queue) \in Nat
      /\ \A i \in 1..Len(s.queue) : e.queue[i] = s.queue[i]
  BY <1>1, <1>3
<1>7. e.queue # <<>>
  BY <1>6
<1>8. Awake(e)
  BY <1>7 DEF Awake, Free, Revoking
<1>9. Extends(s, e)
  BY <1>3, <1>6 DEF Extends
<1>10. NoRevival(s, e) /\ Handed(s, e)
  BY <1>2, <1>3 DEF NoRevival, Holds, Handed
<1> QED
  BY <1>3, <1>5, <1>8, <1>9, <1>10 DEF Moves, Advances

(* What clearing the lease leaves alone.                                   *)
LEMMA ClearedFields ==
    ASSUME NEW s \in Manager, NEW c, c = ClearLease(s)
    PROVE  /\ c \in Manager /\ c.lease = NoLease /\ c.issued = s.issued
           /\ c.fenced = s.fenced /\ c.running = s.running /\ c.todo = s.todo
           /\ c.failed = s.failed /\ c.queue = s.queue /\ c.waiters = s.waiters
           /\ c.epoch = s.epoch /\ c.generation >= s.generation
<1>1. s.generation \in Nat /\ s.generation + 1 \in Nat
  BY DEF Manager
<1>2. c \in Manager
  BY <1>1 DEF Manager, ClearLease
<1>3. /\ c.lease = NoLease /\ c.issued = s.issued
      /\ c.fenced = s.fenced /\ c.running = s.running /\ c.todo = s.todo
      /\ c.failed = s.failed /\ c.queue = s.queue /\ c.waiters = s.waiters
      /\ c.epoch = s.epoch /\ c.generation = s.generation + 1
  BY DEF Manager, ClearLease
<1> QED
  BY <1>1, <1>2, <1>3

(* The same for a lease that is cleared and revoked in one method.         *)
LEMMA ClearMoves ==
    ASSUME NEW s, ManagerInv(s), NEW T \in SUBSET Target, LeaseTargets(s) \subseteq T,
           T \subseteq s.issued \cup {WithoutProof}
    PROVE  /\ Moves(s, EnqueueRevocations(ClearLease(s), T))
           /\ Awake(EnqueueRevocations(ClearLease(s), T))
<1>1. s \in Manager
  BY DEF ManagerInv
<1> QED
  BY <1>1, ClearedFields, EndMoves

(* expireIfNeeded() keeps the invariant, and a lost wakeup is none of its. *)
LEMMA ExpireMoves ==
    ASSUME NEW s, ManagerInv(s)
    PROVE  /\ Moves(s, ExpireIfNeeded(s))
           /\ Awake(s) => Awake(ExpireIfNeeded(s))
<1>1. CASE s.lease # NoLease /\ s.lease.expiresIn = 0
  <2>1. LeaseTargets(s) \in SUBSET Target /\ LeaseTargets(s) \subseteq s.issued
    BY LeaseTargetsType DEF ManagerInv
  <2>2. ExpireIfNeeded(s) = EnqueueRevocations(ClearLease(s), LeaseTargets(s))
    BY <1>1 DEF ExpireIfNeeded
  <2> QED
    BY <2>1, <2>2, ClearMoves
<1>2. CASE ~(s.lease # NoLease /\ s.lease.expiresIn = 0)
  <2>1. ExpireIfNeeded(s) = s
    BY <1>2 DEF ExpireIfNeeded
  <2> QED
    BY <2>1, FieldsMove
<1> QED
  BY <1>1, <1>2

(* With no job and no failed target, no handler call is owed.              *)
LEMMA IdleOwesNothing ==
    ASSUME NEW s, ManagerInv(s), ~Revoking(s), s.failed = {}
    PROVE  Owed(s) = {}
<1>1. s.queue = <<>> /\ s.failed = {} /\ s.todo = {}
  BY DEF Revoking, ManagerInv, QuietJob
<1>2. 1..Len(s.queue) = {}
  BY <1>1
<1> QED
  BY <1>1, <1>2 DEF Owed

(* A grant on a free computer keeps the invariant, and its proof is new.   *)
LEMMA GrantMoves ==
    ASSUME NEW s, ManagerInv(s), Free(s), NEW c \in Client, NEW d \in Duration
    PROVE  Moves(s, Grant(s, c, d)) /\ Awake(Grant(s, c, d))
<1> DEFINE g == Grant(s, c, d)
           l == [epoch |-> s.epoch, generation |-> s.generation + 1,
                 expiresIn |-> d, duration |-> d,
                 backgroundOnly |-> s.human, actor |-> c]
           q == [epoch |-> s.epoch, generation |-> s.generation + 1]
<1>1. s \in Manager /\ s.epoch \in Nat /\ s.generation + 1 \in Nat /\ s.generation \in Nat
  BY DEF ManagerInv, Manager
<1>2. d \in Nat
  BY LeaseAssumption
<1>3. s.human \in BOOLEAN
  BY <1>1 DEF Manager
<1>4. l \in Lease
  BY <1>1, <1>2, <1>3 DEF Lease
<1>5. l # NoLease
  BY <1>4, NoLeaseAssumption
<1>6. q \in LeaseProof
  BY <1>1 DEF LeaseProof
<1>7. g = [s EXCEPT !.generation = s.generation + 1, !.lease = l, !.issued = s.issued \cup {q}]
  BY DEF Grant
<1>8. s.issued \cup {q} \in SUBSET LeaseProof
  BY <1>1, <1>6 DEF Manager
<1>9. g \in Manager
  BY <1>1, <1>4, <1>7, <1>8 DEF Manager
<1>10. /\ g.lease = l /\ g.generation = s.generation + 1 /\ g.issued = s.issued \cup {q}
       /\ g.epoch = s.epoch /\ g.human = s.human /\ g.queue = s.queue
       /\ g.running = s.running /\ g.todo = s.todo /\ g.failed = s.failed
       /\ g.waiters = s.waiters /\ g.fenced = s.fenced
  BY <1>1, <1>7 DEF Manager
<1>11. ProofOf(l) = q
  BY DEF ProofOf
<1>12. q \notin s.issued
  <2>1. \A p \in s.issued : p.epoch = s.epoch => p.generation <= s.generation
    BY DEF ManagerInv, Fresh
  <2>2. q.epoch = s.epoch /\ q.generation = s.generation + 1
    OBVIOUS
  <2> QED
    BY <1>1, <2>1, <2>2
<1>13. \A p \in s.issued : p \in s.fenced
  <2>1. Revoked(s) \subseteq s.fenced \cup Owed(s)
    BY DEF ManagerInv, Remembered
  <2>2. Owed(s) = {}
    BY IdleOwesNothing DEF Free
  <2>3. s.lease = NoLease
    BY DEF Free
  <2> QED
    BY <2>1, <2>2, <2>3 DEF Revoked, Holds
<1>14. Revoked(g) \subseteq g.fenced
  BY <1>5, <1>10, <1>11, <1>13 DEF Revoked, Holds
<1>15. CurrentIssued(g)
  BY <1>10, <1>11 DEF CurrentIssued
<1>16. Fresh(g)
  <2>1. \A p \in s.issued : p.epoch \in Nat /\ p.generation \in Nat
    BY <1>1 DEF Manager, LeaseProof
  <2>2. \A p \in s.issued : p.epoch <= s.epoch /\ (p.epoch = s.epoch => p.generation <= s.generation)
    BY DEF ManagerInv, Fresh
  <2>3. q.epoch = s.epoch /\ q.generation = s.generation + 1
    OBVIOUS
  <2> HIDE DEF q, g
  <2> QED
    BY <1>1, <1>10, <2>1, <2>2, <2>3 DEF Fresh
<1>17. QuietJob(g) /\ Background(g)
  BY <1>10 DEF ManagerInv, QuietJob, Background
<1>22. OnlyRevoked(g)
  <2>1. s.fenced \cup Owed(s) \subseteq s.issued \cup {WithoutProof}
    BY DEF ManagerInv, OnlyRevoked, Revoked
  <2>2. Owed(g) = Owed(s) /\ g.fenced = s.fenced
    BY <1>10 DEF Owed
  <2>3. \A p \in s.issued : ~Holds(g, p) /\ p \in g.issued
    BY <1>10, <1>11, <1>12 DEF Holds
  <2> QED
    BY <2>1, <2>2, <2>3 DEF OnlyRevoked, Revoked
<1>18. ManagerInv(g)
  BY <1>9, <1>14, <1>15, <1>16, <1>17, <1>22 DEF ManagerInv, Remembered, Fenced
<1>19. NoRevival(s, g)
  BY <1>10, <1>11, <1>12 DEF NoRevival, Holds
<1>20. Extends(s, g)
  <2>1. Len(s.queue) <= Len(s.queue)
    BY <1>1 DEF Manager
  <2> QED
    BY <1>10, <2>1 DEF Extends
<1>21. Awake(g) /\ Handed(s, g)
  BY <1>5, <1>10 DEF Awake, Free, Handed, LeaseTargets
<1> QED
  BY <1>10, <1>18, <1>19, <1>20, <1>21 DEF Moves, Advances

(* drainWaiters() keeps the invariant and leaves no one waiting for a free *)
(* computer.                                                               *)
LEMMA DrainMoves ==
    ASSUME NEW s, ManagerInv(s)
    PROVE  Moves(s, DrainWaiters(s)) /\ Awake(DrainWaiters(s))
<1> DEFINE e == ExpireIfNeeded(s)
           h == [e EXCEPT !.waiters = Tail(@)]
           w == Head(e.waiters)
<1>1. Moves(s, e) /\ ManagerInv(e) /\ e \in Manager /\ s \in Manager
  BY ExpireMoves DEF Moves, Advances, ManagerInv
<1>2. CASE Free(e) /\ e.waiters # <<>>
  <2>1. e.waiters \in Seq([client : Client, duration : Duration])
    BY <1>1 DEF Manager
  <2>2. Tail(e.waiters) \in Seq([client : Client, duration : Duration])
    BY <1>2, <2>1
  <2>3. w \in [client : Client, duration : Duration]
    <3>1. \A W : \A q \in Seq(W) : q # <<>> => Head(q) \in W
      OBVIOUS
    <3> QED
      BY <1>2, <2>1, <3>1
  <2>4. h \in Manager
    BY <1>1, <2>2 DEF Manager
  <2>5. /\ h.lease = e.lease /\ h.generation = e.generation /\ h.issued = e.issued
        /\ h.epoch = e.epoch /\ h.human = e.human /\ h.queue = e.queue
        /\ h.running = e.running /\ h.todo = e.todo /\ h.failed = e.failed
        /\ h.fenced = e.fenced
    BY <1>1 DEF Manager
  <2>6. ManagerInv(h)
    <3>1. Owed(h) = Owed(e) /\ e.generation \in Nat
      BY <1>1, <2>5 DEF Owed, Manager
    <3> HIDE DEF e, h
    <3> QED
      BY <1>1, <2>4, <2>5, <3>1, SameLease
  <2>7. Free(h)
    BY <1>2, <2>5 DEF Free, Revoking
  <2>8. DrainWaiters(s) = Grant(h, w.client, w.duration)
    BY <1>2 DEF DrainWaiters
  <2>9. w.client \in Client /\ w.duration \in Duration
    BY <2>3
  <2>10. Moves(h, DrainWaiters(s)) /\ Awake(DrainWaiters(s))
    BY <2>6, <2>7, <2>8, <2>9, GrantMoves
  <2>11. Moves(e, h)
    BY <2>5, <2>6, FieldsMove
  <2> HIDE DEF e, h
  <2>12. Moves(s, h)
    BY <1>1, <2>11, MovesTransitive
  <2> QED
    BY <1>1, <2>10, <2>12, MovesTransitive
<1>3. CASE ~(Free(e) /\ e.waiters # <<>>)
  <2>1. DrainWaiters(s) = e
    BY <1>3 DEF DrainWaiters
  <2> QED
    BY <1>1, <1>3, <2>1 DEF Awake
<1> QED
  BY <1>2, <1>3

-----------------------------------------------------------------------------
(* The public methods.                                                     *)

(* acquire()                                                               *)
LEMMA AcquiredMoves ==
    ASSUME NEW s, ManagerInv(s), Awake(s), NEW c \in Client, NEW d \in Duration
    PROVE  Moves(s, Acquired(s, c, d)) /\ Awake(Acquired(s, c, d))
<1> DEFINE e == ExpireIfNeeded(s)
<1>1. Moves(s, e) /\ Awake(e) /\ ManagerInv(e) /\ s \in Manager
  BY ExpireMoves DEF Moves, Advances, ManagerInv
<1>2. CASE Free(e) /\ e.waiters = <<>>
  <2>1. Moves(e, Grant(e, c, d)) /\ Awake(Grant(e, c, d))
    BY <1>1, <1>2, GrantMoves
  <2>2. Acquired(s, c, d) = Grant(e, c, d)
    BY <1>2 DEF Acquired
  <2> HIDE DEF e
  <2> QED
    BY <1>1, <2>1, <2>2, MovesTransitive
<1>3. CASE ~(Free(e) /\ e.waiters = <<>>)
  BY <1>1, <1>3 DEF Acquired
<1> QED
  BY <1>2, <1>3

(* Another order of the waiters, or more or fewer of them.                 *)
LEMMA WaitersMove ==
    ASSUME NEW s, ManagerInv(s),
           NEW q \in Seq([client : Client, duration : Duration])
    PROVE  /\ Moves(s, [s EXCEPT !.waiters = q])
           /\ [s EXCEPT !.waiters = q].waiters = q
           /\ Free([s EXCEPT !.waiters = q]) <=> Free(s)
<1> DEFINE h == [s EXCEPT !.waiters = q]
<1>1. s \in Manager /\ h \in Manager /\ s.generation \in Nat
  BY DEF ManagerInv, Manager
<1>2. /\ h.lease = s.lease /\ h.generation = s.generation /\ h.issued = s.issued
      /\ h.epoch = s.epoch /\ h.human = s.human /\ h.queue = s.queue
      /\ h.running = s.running /\ h.todo = s.todo /\ h.failed = s.failed
      /\ h.fenced = s.fenced /\ h.waiters = q
  BY <1>1 DEF Manager
<1>3. Owed(h) = Owed(s)
  BY <1>2 DEF Owed
<1>4. Free(h) <=> Free(s)
  BY <1>2 DEF Free, Revoking
<1> HIDE DEF h
<1>5. ManagerInv(h)
  BY <1>1, <1>2, <1>3, SameLease
<1>6. Moves(s, h)
  BY <1>2, <1>5, FieldsMove
<1> QED
  BY <1>2, <1>4, <1>6 DEF h

(* acquireWaiting()                                                        *)
LEMMA AcquiredWaitingMoves ==
    ASSUME NEW s, ManagerInv(s), Awake(s), NEW c \in Client, NEW d \in Duration
    PROVE  Moves(s, AcquiredWaiting(s, c, d)) /\ Awake(AcquiredWaiting(s, c, d))
<1> DEFINE e == ExpireIfNeeded(s)
           q == Append(e.waiters, [client |-> c, duration |-> d])
           h == [e EXCEPT !.waiters = q]
<1>1. Moves(s, e) /\ Awake(e) /\ ManagerInv(e) /\ e \in Manager /\ s \in Manager
  BY ExpireMoves DEF Moves, Advances, ManagerInv
<1>2. CASE Free(e) /\ e.waiters = <<>>
  <2>1. Moves(e, Grant(e, c, d)) /\ Awake(Grant(e, c, d))
    BY <1>1, <1>2, GrantMoves
  <2>2. AcquiredWaiting(s, c, d) = Grant(e, c, d)
    BY <1>2 DEF AcquiredWaiting
  <2> HIDE DEF e
  <2> QED
    BY <1>1, <2>1, <2>2, MovesTransitive
<1>3. CASE ~(Free(e) /\ e.waiters = <<>>)
  <2>1. AcquiredWaiting(s, c, d) = DrainWaiters(h)
    BY <1>3 DEF AcquiredWaiting
  <2>2. e.waiters \in Seq([client : Client, duration : Duration])
    BY <1>1 DEF Manager
  <2>3. [client |-> c, duration |-> d] \in [client : Client, duration : Duration]
    OBVIOUS
  <2>4. q \in Seq([client : Client, duration : Duration])
    BY <2>2, <2>3
  <2> HIDE DEF e, q
  <2>5. Moves(e, h)
    BY <1>1, <2>4, WaitersMove
  <2> HIDE DEF h
  <2>6. Moves(s, h) /\ ManagerInv(h)
    BY <1>1, <2>5, MovesTransitive DEF Moves, Advances
  <2>7. Moves(h, DrainWaiters(h)) /\ Awake(DrainWaiters(h))
    BY <2>6, DrainMoves
  <2> QED
    BY <1>1, <2>1, <2>6, <2>7, MovesTransitive
<1> QED
  BY <1>2, <1>3

(* A waiter can be spliced out of the queue.                               *)
LEMMA RemovedWaiters ==
    ASSUME NEW S, NEW q \in Seq(S), NEW i \in 1..Len(q)
    PROVE  RemoveAt(q, i) \in Seq(S)
<1>1. SubSeq(q, 1, i - 1) \in Seq(S) /\ SubSeq(q, i + 1, Len(q)) \in Seq(S)
  OBVIOUS
<1>2. \A u, v \in Seq(S) : u \o v \in Seq(S)
  OBVIOUS
<1> QED
  BY <1>1, <1>2 DEF RemoveAt

(* The timeout of a waiter.                                                *)
LEMMA WaiterTimedOutMoves ==
    ASSUME NEW s, ManagerInv(s), Awake(s), NEW i \in 1..Len(s.waiters)
    PROVE  Moves(s, WaiterTimedOut(s, i)) /\ Awake(WaiterTimedOut(s, i))
<1> DEFINE q == RemoveAt(s.waiters, i)
           h == [s EXCEPT !.waiters = q]
<1>1. s \in Manager /\ s.waiters \in Seq([client : Client, duration : Duration])
  BY DEF ManagerInv, Manager
<1>2. q \in Seq([client : Client, duration : Duration])
  BY <1>1, RemovedWaiters
<1>3. s.waiters # <<>>
  BY <1>1
<1>4. WaiterTimedOut(s, i) = ExpireIfNeeded(h)
  BY DEF WaiterTimedOut
<1> HIDE DEF q
<1>5. Moves(s, h) /\ (Free(h) <=> Free(s))
  BY <1>2, WaitersMove
<1>6. Awake(h)
  BY <1>3, <1>5 DEF Awake
<1> HIDE DEF h
<1>7. Moves(h, ExpireIfNeeded(h)) /\ Awake(ExpireIfNeeded(h))
  BY <1>5, <1>6, ExpireMoves DEF Moves, Advances
<1> QED
  BY <1>1, <1>4, <1>5, <1>7, MovesTransitive

(* A lease with another expiry.                                            *)
LEMMA RetimedMoves ==
    ASSUME NEW s, ManagerInv(s), Awake(s), s.lease # NoLease,
           NEW l \in Lease, ProofOf(l) = ProofOf(s.lease), l.epoch = s.lease.epoch,
           l.backgroundOnly = s.lease.backgroundOnly
    PROVE  Moves(s, [s EXCEPT !.lease = l]) /\ Awake([s EXCEPT !.lease = l])
<1> DEFINE e == [s EXCEPT !.lease = l]
<1>1. s \in Manager /\ e \in Manager /\ s.generation \in Nat /\ Len(s.queue) \in Nat
  BY DEF ManagerInv, Manager
<1>2. /\ e.lease = l /\ e.generation = s.generation /\ e.issued = s.issued
      /\ e.epoch = s.epoch /\ e.human = s.human /\ e.queue = s.queue
      /\ e.running = s.running /\ e.todo = s.todo /\ e.failed = s.failed
      /\ e.fenced = s.fenced /\ e.waiters = s.waiters
  BY <1>1 DEF Manager
<1>3. l # NoLease
  BY NoLeaseAssumption
<1>4. Owed(e) = Owed(s)
  BY <1>2 DEF Owed
<1> HIDE DEF e
<1>5. ManagerInv(e)
  BY <1>1, <1>2, <1>3, <1>4, SameLease
<1>6. Awake(e)
  BY <1>2, <1>3 DEF Awake, Free
<1>7. NoRevival(s, e) /\ Handed(s, e)
  BY <1>2, <1>3 DEF NoRevival, Holds, Handed, LeaseTargets
<1>8. Extends(s, e)
  BY <1>1, <1>2 DEF Extends
<1> QED
  BY <1>2, <1>5, <1>6, <1>7, <1>8 DEF Moves, Advances, e

(* The renewal of verify() and renew().                                    *)
LEMMA RenewedMoves ==
    ASSUME NEW s, ManagerInv(s), Awake(s), s.lease # NoLease, NEW d \in Duration
    PROVE  Moves(s, Renewed(s, d)) /\ Awake(Renewed(s, d))
<1> DEFINE l == [s.lease EXCEPT !.duration = d, !.expiresIn = d]
<1>1. s \in Manager /\ s.lease \in Lease /\ d \in Nat
  BY LeaseAssumption DEF ManagerInv, Manager
<1>2. l \in Lease /\ l.epoch = s.lease.epoch /\ l.generation = s.lease.generation
      /\ l.backgroundOnly = s.lease.backgroundOnly
  BY <1>1 DEF Lease
<1>3. ProofOf(l) = ProofOf(s.lease)
  BY <1>2 DEF ProofOf
<1>4. Renewed(s, d) = [s EXCEPT !.lease = l]
  BY <1>1 DEF Renewed, Manager
<1> HIDE DEF l
<1> QED
  BY <1>2, <1>3, <1>4, RetimedMoves

(* verify()                                                                *)
LEMMA VerifiedMoves ==
    ASSUME NEW s, ManagerInv(s), Awake(s), NEW p, NEW renewActivity \in BOOLEAN
    PROVE  Moves(s, Verified(s, p, renewActivity)) /\ Awake(Verified(s, p, renewActivity))
<1> DEFINE e == ExpireIfNeeded(s)
<1>1. Moves(s, e) /\ Awake(e) /\ ManagerInv(e) /\ e \in Manager /\ s \in Manager
  BY ExpireMoves DEF Moves, Advances, ManagerInv
<1>2. CASE renewActivity /\ Holds(e, p)
  <2>1. Verified(s, p, renewActivity) = Renewed(e, e.lease.duration)
    BY <1>2 DEF Verified
  <2>2. e.lease # NoLease /\ e.lease.duration \in Duration
    BY <1>1, <1>2 DEF Holds, Manager, Lease
  <2> HIDE DEF e
  <2>3. Moves(e, Renewed(e, e.lease.duration)) /\ Awake(Renewed(e, e.lease.duration))
    BY <1>1, <2>2, RenewedMoves
  <2> QED
    BY <1>1, <2>1, <2>3, MovesTransitive
<1>3. CASE ~(renewActivity /\ Holds(e, p))
  BY <1>1, <1>3 DEF Verified
<1> QED
  BY <1>2, <1>3

(* renew()                                                                 *)
LEMMA RenewedForMoves ==
    ASSUME NEW s, ManagerInv(s), Awake(s), NEW p, NEW d \in Duration
    PROVE  Moves(s, RenewedFor(s, p, d)) /\ Awake(RenewedFor(s, p, d))
<1> DEFINE e == ExpireIfNeeded(s)
<1>1. Moves(s, e) /\ Awake(e) /\ ManagerInv(e) /\ s \in Manager
  BY ExpireMoves DEF Moves, Advances, ManagerInv
<1>2. CASE Holds(e, p)
  <2>1. RenewedFor(s, p, d) = Renewed(e, d) /\ e.lease # NoLease
    BY <1>2 DEF RenewedFor, Holds
  <2> HIDE DEF e
  <2>2. Moves(e, Renewed(e, d)) /\ Awake(Renewed(e, d))
    BY <1>1, <2>1, RenewedMoves
  <2> QED
    BY <1>1, <2>1, <2>2, MovesTransitive
<1>3. CASE ~Holds(e, p)
  BY <1>1, <1>3 DEF RenewedFor
<1> QED
  BY <1>2, <1>3

(* release()                                                               *)
LEMMA ReleasedMoves ==
    ASSUME NEW s, ManagerInv(s), Awake(s), NEW p \in LeaseProof
    PROVE  Moves(s, Released(s, p)) /\ Awake(Released(s, p))
<1> DEFINE e == ExpireIfNeeded(s)
<1>1. Moves(s, e) /\ Awake(e) /\ ManagerInv(e) /\ s \in Manager
  BY ExpireMoves DEF Moves, Advances, ManagerInv
<1>2. CASE Holds(e, p)
  <2>1. Released(s, p) = EnqueueRevocations(ClearLease(e), {p})
    BY <1>2 DEF Released
  <2>2. LeaseTargets(e) \subseteq {p} /\ {p} \in SUBSET Target /\ {p} \subseteq e.issued
    BY <1>1, <1>2 DEF Holds, LeaseTargets, Target, ManagerInv, CurrentIssued
  <2> HIDE DEF e
  <2>3. Moves(e, Released(s, p)) /\ Awake(Released(s, p))
    BY <1>1, <2>1, <2>2, ClearMoves
  <2> QED
    BY <1>1, <2>3, MovesTransitive
<1>3. CASE ~Holds(e, p)
  BY <1>1, <1>3 DEF Released
<1> QED
  BY <1>2, <1>3

(* revokeAgentControl()                                                    *)
LEMMA AgentRevokedMoves ==
    ASSUME NEW s, ManagerInv(s), Awake(s)
    PROVE  Moves(s, AgentRevoked(s)) /\ Awake(AgentRevoked(s))
<1>1. LeaseTargets(s) \in SUBSET Target /\ LeaseTargets(s) \subseteq s.issued
  BY LeaseTargetsType DEF ManagerInv
<1>2. CASE s.lease = NoLease
  BY <1>1, <1>2, EnqueueMoves DEF AgentRevoked, LeaseTargets
<1>3. CASE s.lease # NoLease
  BY <1>1, <1>3, ClearMoves DEF AgentRevoked
<1> QED
  BY <1>2, <1>3

(* revokeAgentControlFor()                                                 *)
LEMMA AgentRevokedForMoves ==
    ASSUME NEW s, ManagerInv(s), Awake(s), NEW p \in s.issued
    PROVE  Moves(s, AgentRevokedFor(s, p)) /\ Awake(AgentRevokedFor(s, p))
<1>1. {p} \in SUBSET Target /\ {p} \subseteq s.issued
  BY DEF Target, ManagerInv, Manager
<1>2. CASE Holds(s, p)
  <2>1. LeaseTargets(s) \subseteq {p}
    BY <1>2 DEF Holds, LeaseTargets
  <2> QED
    BY <1>1, <1>2, <2>1, ClearMoves DEF AgentRevokedFor
<1>3. CASE ~Holds(s, p)
  <2>1. {p} \subseteq Revoked(s)
    BY <1>3 DEF Revoked
  <2> QED
    BY <1>1, <1>3, <2>1, EnqueueMoves DEF AgentRevokedFor
<1> QED
  BY <1>2, <1>3

(* It owes the proof it was given, whoever holds the lease.                *)
LEMMA RevokedForOwed ==
    ASSUME NEW s, ManagerInv(s), NEW p \in LeaseProof
    PROVE  p \in Owed(AgentRevokedFor(s, p))
<1>1. s \in Manager /\ ClearLease(s) \in Manager /\ {p} \in SUBSET Target
  BY ClearedFields DEF ManagerInv, Target
<1> QED
  BY <1>1, EnqueueOwes DEF AgentRevokedFor

(* The first part of takeHumanControl()                                    *)
LEMMA HumanTakenMoves ==
    ASSUME NEW s, ManagerInv(s), Awake(s)
    PROVE  Moves(s, HumanTaken(s)) /\ Awake(HumanTaken(s))
<1> DEFINE c == ClearLease(s)
           h == [c EXCEPT !.human = TRUE]
<1>1. /\ LeaseTargets(s) \in SUBSET Target /\ s \in Manager
      /\ LeaseTargets(s) \subseteq s.issued
  BY LeaseTargetsType DEF ManagerInv
<1>2. /\ c \in Manager /\ c.lease = NoLease /\ c.issued = s.issued
      /\ c.fenced = s.fenced /\ c.running = s.running /\ c.todo = s.todo
      /\ c.failed = s.failed /\ c.queue = s.queue
      /\ c.epoch = s.epoch /\ c.generation >= s.generation
  BY <1>1, ClearedFields
<1> HIDE DEF c
<1>3. /\ h \in Manager /\ h.lease = c.lease /\ h.issued = c.issued
      /\ h.fenced = c.fenced /\ h.running = c.running /\ h.todo = c.todo
      /\ h.failed = c.failed /\ h.queue = c.queue
      /\ h.epoch = c.epoch /\ h.generation = c.generation
  BY <1>2 DEF Manager
<1>4. HumanTaken(s) = EnqueueRevocations(h, LeaseTargets(s))
  BY DEF HumanTaken, c
<1> HIDE DEF h
<1> QED
  BY <1>1, <1>2, <1>3, <1>4, EndMoves

(* releaseHumanControl()                                                   *)
LEMMA HumanReleasedMoves ==
    ASSUME NEW s, ManagerInv(s), Awake(s)
    PROVE  Moves(s, HumanReleased(s)) /\ Awake(HumanReleased(s))
<1> DEFINE g == IF s.human THEN s.generation + 1 ELSE s.generation
           h == [s EXCEPT !.generation = g, !.human = FALSE]
<1>1. s \in Manager /\ s.generation \in Nat
  BY DEF ManagerInv, Manager
<1>2. g \in Nat /\ g >= s.generation
  BY <1>1
<1>3. HumanReleased(s) = DrainWaiters(h)
  BY <1>1 DEF HumanReleased, Manager
<1> HIDE DEF g
<1>4. /\ h \in Manager /\ h.lease = s.lease /\ h.issued = s.issued
      /\ h.fenced = s.fenced /\ h.running = s.running /\ h.todo = s.todo
      /\ h.failed = s.failed /\ h.queue = s.queue
      /\ h.epoch = s.epoch /\ h.generation = g /\ h.human = FALSE
  BY <1>1, <1>2 DEF Manager
<1>5. Owed(h) = Owed(s)
  BY <1>4 DEF Owed
<1> HIDE DEF h
<1>6. ManagerInv(h)
  BY <1>2, <1>4, <1>5, SameLease
<1>7. Moves(s, h)
  BY <1>4, <1>6, FieldsMove
<1>8. Moves(h, DrainWaiters(h)) /\ Awake(DrainWaiters(h))
  BY <1>6, DrainMoves
<1> QED
  BY <1>1, <1>3, <1>7, <1>8, MovesTransitive

(* resetEpoch()                                                            *)
LEMMA EpochResetMoves ==
    ASSUME NEW s, ManagerInv(s), Awake(s)
    PROVE  Advances(s, EpochReset(s)) /\ Awake(EpochReset(s))
<1> DEFINE h == [s EXCEPT !.epoch = s.epoch + 1, !.generation = 0,
                          !.lease = NoLease, !.human = FALSE]
           T == IF s.lease = NoLease THEN {WithoutProof} ELSE LeaseTargets(s)
<1>1. s \in Manager /\ s.epoch \in Nat /\ s.epoch + 1 \in Nat
  BY DEF ManagerInv, Manager
<1>2. /\ T \in SUBSET Target /\ LeaseTargets(s) \subseteq T
      /\ T \subseteq s.issued \cup {WithoutProof}
  BY <1>1, LeaseTargetsType DEF LeaseTargets, Target
<1>3. EpochReset(s) = EnqueueRevocations(h, T)
  BY <1>1 DEF EpochReset, Manager
<1>4. /\ h \in Manager /\ h.lease = NoLease /\ h.issued = s.issued
      /\ h.fenced = s.fenced /\ h.running = s.running /\ h.todo = s.todo
      /\ h.failed = s.failed /\ h.queue = s.queue
      /\ h.epoch = s.epoch + 1
  BY <1>1 DEF Manager
<1> HIDE DEF h, T
<1>5. h.epoch > s.epoch
  BY <1>1, <1>4
<1> QED
  BY <1>2, <1>3, <1>4, <1>5, EndMoves

-----------------------------------------------------------------------------
(* What the methods do to the ownership of the computer.                   *)

(***************************************************************************)
(* The owner stays, leaves (when there is one), or a new one enters: on a  *)
(* free computer, with a fresh proof, and before those who wait only if it *)
(* is the first of them.                                                   *)
(***************************************************************************)
Stayed(s, e) ==
    /\ e.issued = s.issued
    /\ e.lease = NoLease <=> s.lease = NoLease
    /\ s.lease # NoLease => /\ ProofOf(e.lease) = ProofOf(s.lease)
                            /\ e.lease.backgroundOnly = s.lease.backgroundOnly

Left(s, e) == e.lease = NoLease /\ e.issued = s.issued

Granted(s, e, client) ==
    /\ Free(s)
    /\ e.lease # NoLease
    /\ ProofOf(e.lease) \notin s.issued
    /\ e.issued = s.issued \cup {ProofOf(e.lease)}
    /\ e.lease.backgroundOnly = e.human
    /\ e.lease.actor = client

Entered(s, e) ==
    \E client \in Client :
        Granted(s, e, client) /\ (s.waiters # <<>> => client = Head(s.waiters).client)

OwnerStep(s, e) == Stayed(s, e) \/ Left(s, e) \/ Entered(s, e)

(* grant() gives the lease to its argument, under a fresh proof.           *)
LEMMA GrantEnters ==
    ASSUME NEW s, ManagerInv(s), Free(s), NEW c \in Client, NEW d \in Duration
    PROVE  Granted(s, Grant(s, c, d), c) /\ Grant(s, c, d).human = s.human
<1> DEFINE g == Grant(s, c, d)
           l == [epoch |-> s.epoch, generation |-> s.generation + 1,
                 expiresIn |-> d, duration |-> d,
                 backgroundOnly |-> s.human, actor |-> c]
           q == [epoch |-> s.epoch, generation |-> s.generation + 1]
<1>1. s \in Manager /\ s.epoch \in Nat /\ s.generation \in Nat /\ s.generation + 1 \in Nat
      /\ s.human \in BOOLEAN /\ d \in Nat
  BY LeaseAssumption DEF ManagerInv, Manager
<1>2. l \in Lease
  BY <1>1 DEF Lease
<1>3. /\ g.lease = l /\ g.issued = s.issued \cup {q} /\ g.human = s.human
  BY <1>1 DEF Manager, Grant
<1>4. /\ ProofOf(l) = q /\ l.backgroundOnly = s.human /\ l.actor = c /\ l # NoLease
  BY <1>2, NoLeaseAssumption DEF ProofOf
<1>5. q \notin s.issued
  <2>1. \A p \in s.issued : p.epoch = s.epoch => p.generation <= s.generation
    BY DEF ManagerInv, Fresh
  <2>2. q.epoch = s.epoch /\ q.generation = s.generation + 1
    OBVIOUS
  <2> QED
    BY <1>1, <2>1, <2>2
<1> HIDE DEF g, l, q
<1> QED
  BY <1>3, <1>4, <1>5 DEF Granted, g

(* An expiry ends the lease and leaves a revocation to await.              *)
LEMMA ExpireLeaves ==
    ASSUME NEW s, ManagerInv(s)
    PROVE  LET e == ExpireIfNeeded(s) IN
           /\ e = s \/ (Left(s, e) /\ ~Free(e))
           /\ OwnerStep(s, e) /\ e.human = s.human /\ e.waiters = s.waiters
<1> DEFINE e == ExpireIfNeeded(s)
<1>1. CASE s.lease # NoLease /\ s.lease.expiresIn = 0
  <2> DEFINE c == ClearLease(s)
             T == LeaseTargets(s)
  <2>1. c \in Manager /\ T \in SUBSET Target /\ s \in Manager
    BY ClearedFields, LeaseTargetsType DEF ManagerInv
  <2>2. /\ c.lease = NoLease /\ c.issued = s.issued /\ c.human = s.human
        /\ c.waiters = s.waiters
    BY <2>1 DEF ClearLease, Manager
  <2>3. e = EnqueueRevocations(c, T)
    BY <1>1 DEF ExpireIfNeeded
  <2> HIDE DEF c, T
  <2>4. /\ e.lease = NoLease /\ e.issued = s.issued /\ e.human = s.human
        /\ e.waiters = s.waiters
    BY <2>1, <2>2, <2>3 DEF EnqueueRevocations, Manager
  <2>5. ~Free(e)
    BY <2>1, <2>3, EnqueuedRevoking DEF Free
  <2> QED
    BY <2>4, <2>5 DEF Left, OwnerStep
<1>2. CASE ~(s.lease # NoLease /\ s.lease.expiresIn = 0)
  <2>1. e = s
    BY <1>2 DEF ExpireIfNeeded
  <2> HIDE DEF e
  <2> QED
    BY <2>1 DEF OwnerStep, Stayed, e
<1> QED
  BY <1>1, <1>2

(* drainWaiters() serves the head of the queue, or nobody.                 *)
LEMMA DrainOwner ==
    ASSUME NEW s, ManagerInv(s)
    PROVE  OwnerStep(s, DrainWaiters(s)) /\ DrainWaiters(s).human = s.human
<1> DEFINE e == ExpireIfNeeded(s)
<1>1. /\ e = s \/ ~Free(e)
      /\ OwnerStep(s, e) /\ e.human = s.human /\ ManagerInv(e)
  BY ExpireLeaves, ExpireMoves DEF Moves, Advances
<1>2. CASE Free(e) /\ e.waiters # <<>>
  <2> DEFINE q == Tail(s.waiters)
             w == Head(s.waiters)
             h == [s EXCEPT !.waiters = q]
  <2>1. e = s /\ Free(s) /\ s.waiters # <<>>
    BY <1>1, <1>2
  <2>2. s.waiters \in Seq([client : Client, duration : Duration]) /\ s \in Manager
    BY DEF ManagerInv, Manager
  <2>3. q \in Seq([client : Client, duration : Duration])
    BY <2>1, <2>2
  <2>4. w \in [client : Client, duration : Duration]
    <3>1. \A W : \A u \in Seq(W) : u # <<>> => Head(u) \in W
      OBVIOUS
    <3> QED
      BY <2>1, <2>2, <3>1
  <2>5. DrainWaiters(s) = Grant(h, w.client, w.duration)
    BY <2>1 DEF DrainWaiters
  <2>6. h.lease = s.lease /\ h.issued = s.issued /\ h.human = s.human
    BY <2>2 DEF Manager
  <2>7. ManagerInv(h) /\ Free(h)
    BY <2>1, <2>3, WaitersMove DEF Moves, Advances
  <2> HIDE DEF h
  <2>8. /\ Granted(h, DrainWaiters(s), w.client) /\ w.client \in Client
        /\ DrainWaiters(s).human = s.human
    BY <2>4, <2>5, <2>6, <2>7, GrantEnters
  <2>9. Granted(s, DrainWaiters(s), w.client)
    BY <2>1, <2>6, <2>8 DEF Granted
  <2> QED
    BY <2>8, <2>9 DEF OwnerStep, Entered
<1>3. CASE ~(Free(e) /\ e.waiters # <<>>)
  <2>1. DrainWaiters(s) = e
    BY <1>3 DEF DrainWaiters
  <2> QED
    BY <1>1, <2>1
<1> QED
  BY <1>2, <1>3

(* acquire() and acquireWaiting() do not overtake those who wait.          *)
LEMMA AcquiredOwner ==
    ASSUME NEW s, ManagerInv(s), NEW c \in Client, NEW d \in Duration
    PROVE  /\ OwnerStep(s, Acquired(s, c, d)) /\ Acquired(s, c, d).human = s.human
           /\ OwnerStep(s, AcquiredWaiting(s, c, d))
           /\ AcquiredWaiting(s, c, d).human = s.human
<1> DEFINE e == ExpireIfNeeded(s)
           W == [client : Client, duration : Duration]
           w == [client |-> c, duration |-> d]
           q == Append(e.waiters, w)
           h == [e EXCEPT !.waiters = q]
<1>1. /\ e = s \/ (Left(s, e) /\ ~Free(e))
      /\ OwnerStep(s, e) /\ e.human = s.human /\ e.waiters = s.waiters
      /\ ManagerInv(e) /\ e \in Manager /\ e.waiters \in Seq(W)
  BY ExpireLeaves, ExpireMoves DEF Moves, Advances, ManagerInv, Manager
<1> HIDE DEF e
<1>2. CASE Free(e) /\ e.waiters = <<>>
  <2>1. Acquired(s, c, d) = Grant(e, c, d) /\ AcquiredWaiting(s, c, d) = Grant(e, c, d)
    BY <1>2 DEF Acquired, AcquiredWaiting, e
  <2>2. Granted(s, Grant(e, c, d), c) /\ Grant(e, c, d).human = s.human
    BY <1>1, <1>2, GrantEnters
  <2> QED
    BY <1>1, <1>2, <2>1, <2>2 DEF OwnerStep, Entered
<1>3. CASE ~(Free(e) /\ e.waiters = <<>>)
  <2>1. Acquired(s, c, d) = e /\ AcquiredWaiting(s, c, d) = DrainWaiters(h)
    BY <1>3 DEF Acquired, AcquiredWaiting, e
  <2>2. q \in Seq(W) /\ q # <<>> /\ (e.waiters # <<>> => Head(q) = Head(e.waiters))
    <3>1. w \in W
      OBVIOUS
    <3> HIDE DEF w, W
    <3>2. q \in Seq(W) /\ Len(q) = Len(e.waiters) + 1
          /\ \A i \in 1..Len(e.waiters) : q[i] = e.waiters[i]
      BY <1>1, <3>1
    <3>3. e.waiters # <<>> => 1 \in 1..Len(e.waiters)
      BY <1>1
    <3>4. \A u \in Seq(W) : Head(u) = u[1]
      OBVIOUS
    <3>5. q # <<>>
      <4>1. Len(e.waiters) \in Nat
        BY <1>1
      <4>2. Len(q) # 0
        BY <3>2, <4>1
      <4> HIDE DEF q
      <4> QED
        BY <4>2
    <3> HIDE DEF q
    <3> QED
      BY <1>1, <3>2, <3>3, <3>4, <3>5
  <2>3. /\ h.lease = e.lease /\ h.issued = e.issued /\ h.human = e.human
        /\ h.waiters = q
    BY <1>1 DEF Manager
  <2>4. ManagerInv(h) /\ (Free(h) <=> Free(e))
    BY <1>1, <2>2, WaitersMove DEF Moves, Advances
  <2> HIDE DEF h, q
  <2>5. OwnerStep(h, DrainWaiters(h)) /\ DrainWaiters(h).human = s.human
    BY <1>1, <2>3, <2>4, DrainOwner
  <2>6. CASE e = s
    <3>1. OwnerStep(s, DrainWaiters(h))
      BY <1>3, <2>2, <2>3, <2>4, <2>5, <2>6
         DEF OwnerStep, Stayed, Left, Entered, Granted
    <3> QED
      BY <1>1, <2>1, <2>5, <3>1
  <2>7. CASE Left(s, e) /\ ~Free(e)
    <3>1. Left(s, DrainWaiters(h))
      BY <2>3, <2>4, <2>5, <2>7 DEF OwnerStep, Stayed, Left, Entered, Granted
    <3> QED
      BY <1>1, <2>1, <2>5, <3>1 DEF OwnerStep
  <2> QED
    BY <1>1, <2>6, <2>7
<1> QED
  BY <1>2, <1>3

(* A timeout of a waiter, verify() and renew() end an expired lease at     *)
(* most.                                                                   *)
LEMMA CheckOwner ==
    ASSUME NEW s, ManagerInv(s)
    PROVE  /\ \A i \in 1..Len(s.waiters) :
                 OwnerStep(s, WaiterTimedOut(s, i)) /\ WaiterTimedOut(s, i).human = s.human
           /\ \A p : \A renewActivity \in BOOLEAN :
                 /\ OwnerStep(s, Verified(s, p, renewActivity))
                 /\ Verified(s, p, renewActivity).human = s.human
           /\ \A p : \A d \in Duration :
                 OwnerStep(s, RenewedFor(s, p, d)) /\ RenewedFor(s, p, d).human = s.human
<1> DEFINE e == ExpireIfNeeded(s)
<1>1. s \in Manager /\ s.waiters \in Seq([client : Client, duration : Duration])
  BY DEF ManagerInv, Manager
<1>2. /\ e = s \/ Left(s, e)
      /\ OwnerStep(s, e) /\ e.human = s.human /\ e \in Manager
  BY ExpireLeaves, ExpireMoves DEF Moves, Advances, ManagerInv
<1>3. ASSUME NEW d, e.lease # NoLease
      PROVE  OwnerStep(s, Renewed(e, d)) /\ Renewed(e, d).human = s.human
  <2> DEFINE l == [e.lease EXCEPT !.duration = d, !.expiresIn = d]
  <2>1. e.lease \in Lease /\ e = s
    BY <1>2, <1>3 DEF Manager, Left
  <2>2. ProofOf(l) = ProofOf(e.lease) /\ l.backgroundOnly = e.lease.backgroundOnly
    BY <2>1 DEF Lease, ProofOf
  <2>3. l # NoLease => Stayed(e, Renewed(e, d))
    BY <1>2, <1>3, <2>1, <2>2 DEF Renewed, Stayed, Manager
  <2>4. Renewed(e, d).human = e.human /\ Renewed(e, d).issued = e.issued
        /\ Renewed(e, d).lease = l
    BY <1>2 DEF Renewed, Manager
  <2> HIDE DEF l, e
  <2> QED
    BY <1>2, <2>1, <2>3, <2>4 DEF OwnerStep, Left
<1> HIDE DEF e
<1>4. ASSUME NEW i \in 1..Len(s.waiters)
      PROVE  OwnerStep(s, WaiterTimedOut(s, i)) /\ WaiterTimedOut(s, i).human = s.human
  <2> DEFINE q == RemoveAt(s.waiters, i)
             h == [s EXCEPT !.waiters = q]
  <2>1. q \in Seq([client : Client, duration : Duration])
    BY <1>1, RemovedWaiters
  <2>2. h.lease = s.lease /\ h.issued = s.issued /\ h.human = s.human
    BY <1>1 DEF Manager
  <2> HIDE DEF q
  <2>3. ManagerInv(h)
    BY <2>1, WaitersMove DEF Moves, Advances
  <2>4. WaiterTimedOut(s, i) = ExpireIfNeeded(h)
    BY DEF WaiterTimedOut, q
  <2> HIDE DEF h
  <2> QED
    BY <2>2, <2>3, <2>4, ExpireLeaves DEF OwnerStep, Stayed, Left
<1> QED
  BY <1>2, <1>3, <1>4 DEF Verified, RenewedFor, Holds, e

(* What an enqueued job leaves alone.                                      *)
LEMMA EnqueueKeepsOwner ==
    ASSUME NEW s \in Manager, NEW T
    PROVE  LET e == EnqueueRevocations(s, T) IN
           e.lease = s.lease /\ e.issued = s.issued /\ e.human = s.human
BY DEF EnqueueRevocations, Manager

(* release() and the revocations end a lease, or leave it alone.           *)
LEMMA RevokedOwner ==
    ASSUME NEW s, ManagerInv(s)
    PROVE  /\ \A p : OwnerStep(s, Released(s, p)) /\ Released(s, p).human = s.human
           /\ OwnerStep(s, AgentRevoked(s)) /\ AgentRevoked(s).human = s.human
           /\ \A p : OwnerStep(s, AgentRevokedFor(s, p)) /\ AgentRevokedFor(s, p).human = s.human
           /\ Left(s, HumanTaken(s)) /\ HumanTaken(s).human = TRUE
           /\ Left(s, EpochReset(s)) /\ EpochReset(s).human = FALSE
<1> DEFINE x == ExpireIfNeeded(s)
<1>1. s \in Manager /\ s.epoch + 1 \in Nat
  BY DEF ManagerInv, Manager
<1>2. /\ OwnerStep(s, x) /\ x.human = s.human /\ x \in Manager
      /\ x.issued = s.issued /\ (x.lease = NoLease \/ x = s)
  BY <1>1, ExpireLeaves, ExpireMoves DEF Moves, Advances, ManagerInv, Left
<1> HIDE DEF x
<1>3. ASSUME NEW m \in Manager, NEW T
      PROVE  LET e == EnqueueRevocations(ClearLease(m), T) IN
             e.lease = NoLease /\ e.issued = m.issued /\ e.human = m.human
  <2>1. /\ ClearLease(m) \in Manager /\ ClearLease(m).lease = NoLease
        /\ ClearLease(m).issued = m.issued /\ ClearLease(m).human = m.human
    BY ClearedFields DEF ClearLease, Manager
  <2> QED
    BY <2>1, EnqueueKeepsOwner
<1>4. ASSUME NEW p
      PROVE  OwnerStep(s, Released(s, p)) /\ Released(s, p).human = s.human
  <2>1. CASE Holds(x, p)
    <3>1. Released(s, p) = EnqueueRevocations(ClearLease(x), {p})
      BY <2>1 DEF Released, x
    <3> QED
      BY <1>2, <1>3, <3>1 DEF OwnerStep, Left
  <2>2. CASE ~Holds(x, p)
    BY <1>2, <2>2 DEF Released, x
  <2> QED
    BY <2>1, <2>2
<1>5. OwnerStep(s, AgentRevoked(s)) /\ AgentRevoked(s).human = s.human
  <2>1. CASE s.lease = NoLease
    <3>1. AgentRevoked(s) = EnqueueRevocations(s, LeaseTargets(s))
      BY <2>1 DEF AgentRevoked
    <3> QED
      BY <1>1, <2>1, <3>1, EnqueueKeepsOwner DEF OwnerStep, Left
  <2>2. CASE s.lease # NoLease
    <3>1. AgentRevoked(s) = EnqueueRevocations(ClearLease(s), LeaseTargets(s))
      BY <2>2 DEF AgentRevoked
    <3> QED
      BY <1>1, <1>3, <3>1 DEF OwnerStep, Left
  <2> QED
    BY <2>1, <2>2
<1>6. ASSUME NEW p
      PROVE  OwnerStep(s, AgentRevokedFor(s, p)) /\ AgentRevokedFor(s, p).human = s.human
  <2>1. CASE Holds(s, p)
    <3>1. AgentRevokedFor(s, p) = EnqueueRevocations(ClearLease(s), {p})
      BY <2>1 DEF AgentRevokedFor
    <3> QED
      BY <1>1, <1>3, <3>1 DEF OwnerStep, Left
  <2>2. CASE ~Holds(s, p)
    <3>1. AgentRevokedFor(s, p) = EnqueueRevocations(s, {p})
      BY <2>2 DEF AgentRevokedFor
    <3> QED
      BY <1>1, <3>1, EnqueueKeepsOwner DEF OwnerStep, Stayed
  <2> QED
    BY <2>1, <2>2
<1>7. Left(s, HumanTaken(s)) /\ HumanTaken(s).human = TRUE
  <2> DEFINE h == [ClearLease(s) EXCEPT !.human = TRUE]
  <2>1. /\ ClearLease(s) \in Manager /\ ClearLease(s).lease = NoLease
        /\ ClearLease(s).issued = s.issued
    BY <1>1, ClearedFields
  <2>2. h \in Manager /\ h.lease = NoLease /\ h.issued = s.issued /\ h.human = TRUE
    BY <2>1 DEF Manager
  <2>3. HumanTaken(s) = EnqueueRevocations(h, LeaseTargets(s))
    BY DEF HumanTaken
  <2> HIDE DEF h
  <2> QED
    BY <2>2, <2>3, EnqueueKeepsOwner DEF Left
<1>8. Left(s, EpochReset(s)) /\ EpochReset(s).human = FALSE
  <2> DEFINE h == [s EXCEPT !.epoch = s.epoch + 1, !.generation = 0,
                            !.lease = NoLease, !.human = FALSE]
             T == IF s.lease = NoLease THEN {WithoutProof} ELSE LeaseTargets(s)
  <2>1. h \in Manager /\ h.lease = NoLease /\ h.issued = s.issued /\ h.human = FALSE
    BY <1>1 DEF Manager
  <2>2. EpochReset(s) = EnqueueRevocations(h, T)
    BY <1>1 DEF EpochReset, Manager
  <2> HIDE DEF h, T
  <2> QED
    BY <2>1, <2>2, EnqueueKeepsOwner DEF Left
<1> QED
  BY <1>4, <1>5, <1>6, <1>7, <1>8

(* releaseHumanControl() lets the first client that waits enter, and as a  *)
(* foreground owner.                                                       *)
LEMMA HumanReleasedOwner ==
    ASSUME NEW s, ManagerInv(s)
    PROVE  OwnerStep(s, HumanReleased(s)) /\ HumanReleased(s).human = FALSE
<1> DEFINE g == IF s.human THEN s.generation + 1 ELSE s.generation
           h == [s EXCEPT !.generation = g, !.human = FALSE]
<1>1. s \in Manager /\ s.generation \in Nat
  BY DEF ManagerInv, Manager
<1>2. g \in Nat /\ g >= s.generation
  BY <1>1
<1>3. HumanReleased(s) = DrainWaiters(h)
  BY <1>1 DEF HumanReleased, Manager
<1> HIDE DEF g
<1>4. /\ h \in Manager /\ h.lease = s.lease /\ h.issued = s.issued
      /\ h.fenced = s.fenced /\ h.running = s.running /\ h.todo = s.todo
      /\ h.failed = s.failed /\ h.queue = s.queue /\ h.waiters = s.waiters
      /\ h.epoch = s.epoch /\ h.generation = g /\ h.human = FALSE
  BY <1>1, <1>2 DEF Manager
<1>5. Owed(h) = Owed(s) /\ (Free(h) <=> Free(s))
  BY <1>4 DEF Owed, Free, Revoking
<1> HIDE DEF h
<1>6. ManagerInv(h)
  BY <1>2, <1>4, <1>5, SameLease
<1>7. OwnerStep(h, DrainWaiters(h)) /\ DrainWaiters(h).human = FALSE
  BY <1>4, <1>6, DrainOwner
<1> QED
  BY <1>3, <1>4, <1>5, <1>7 DEF OwnerStep, Stayed, Left, Entered, Granted

-----------------------------------------------------------------------------
(* The revocation jobs.                                                    *)

(* What a job leaves alone.                                                *)
SameHolder(s, e) ==
    /\ e.lease = s.lease /\ e.issued = s.issued /\ e.epoch = s.epoch
    /\ e.generation = s.generation /\ e.human = s.human

(* When neither the lease nor the history of grants changes, only the      *)
(* clauses about fencing are at stake.                                     *)
LEMMA JobKeeps ==
    ASSUME NEW s, ManagerInv(s), NEW e \in Manager, SameHolder(s, e),
           QuietJob(e), s.fenced \subseteq e.fenced,
           e.fenced \cup Owed(e) = s.fenced \cup Owed(s)
    PROVE  ManagerInv(e) /\ NoRevival(s, e)
<1>1. Revoked(e) = Revoked(s)
  BY DEF SameHolder, Revoked, Holds
<1>2. CurrentIssued(e) /\ Fresh(e) /\ Background(e)
  BY DEF SameHolder, ManagerInv, CurrentIssued, Fresh, Background
<1>3. Remembered(e) /\ OnlyRevoked(e) /\ Fenced(e)
  BY <1>1 DEF SameHolder, ManagerInv, Remembered, OnlyRevoked, Fenced
<1>4. NoRevival(s, e)
  BY DEF SameHolder, NoRevival, Holds
<1> QED
  BY <1>2, <1>3, <1>4 DEF ManagerInv

(* The fields after a job begins: the queue moves up by one.               *)
LEMMA JobBegunFields ==
    ASSUME NEW s \in Manager, ~s.running, s.queue # <<>>
    PROVE  /\ JobBegun(s) \in Manager
           /\ SameHolder(s, JobBegun(s))
           /\ JobBegun(s).fenced = s.fenced
           /\ JobBegun(s).running = TRUE
           /\ JobBegun(s).failed = {}
           /\ JobBegun(s).todo = s.failed \cup s.queue[1]
           /\ Len(s.queue) \in Nat \ {0}
           /\ Len(JobBegun(s).queue) = Len(s.queue) - 1
           /\ \A i \in 1..(Len(s.queue) - 1) : JobBegun(s).queue[i] = s.queue[i + 1]
<1> DEFINE b == JobBegun(s)
<1>1. s.queue \in Seq(SUBSET Target) /\ s.failed \in SUBSET Target
  BY DEF Manager
<1>2. /\ Tail(s.queue) \in Seq(SUBSET Target)
      /\ Head(s.queue) = s.queue[1] /\ s.queue[1] \in SUBSET Target
      /\ Len(s.queue) \in Nat \ {0}
      /\ Len(Tail(s.queue)) = Len(s.queue) - 1
      /\ \A i \in 1..(Len(s.queue) - 1) : Tail(s.queue)[i] = s.queue[i + 1]
  BY <1>1
<1>3. s.failed \cup s.queue[1] \in SUBSET Target
  BY <1>1, <1>2
<1>4. b = [s EXCEPT !.running = TRUE, !.queue = Tail(s.queue),
                    !.todo = s.failed \cup s.queue[1], !.failed = {}]
  BY <1>2 DEF JobBegun, Manager
<1>5. b \in Manager
  BY <1>2, <1>3, <1>4 DEF Manager
<1>6. /\ SameHolder(s, b) /\ b.fenced = s.fenced /\ b.running = TRUE /\ b.failed = {}
      /\ b.todo = s.failed \cup s.queue[1] /\ b.queue = Tail(s.queue)
  BY <1>4 DEF Manager, SameHolder
<1> QED
  BY <1>2, <1>5, <1>6

(* Beginning a job keeps the invariant: what failed and what the job adds  *)
(* is still owed.                                                          *)
LEMMA JobBegunKeeps ==
    ASSUME NEW s, ManagerInv(s), ~s.running, s.queue # <<>>
    PROVE  /\ ManagerInv(JobBegun(s)) /\ NoRevival(s, JobBegun(s)) /\ Awake(JobBegun(s))
           /\ SameHolder(s, JobBegun(s)) /\ Owed(s) \subseteq Owed(JobBegun(s))
<1> DEFINE b == JobBegun(s)
<1>1. s \in Manager /\ s.todo = {}
  BY DEF ManagerInv, QuietJob
<1>2. /\ b \in Manager /\ SameHolder(s, b) /\ b.fenced = s.fenced
      /\ b.running = TRUE /\ b.failed = {} /\ b.todo = s.failed \cup s.queue[1]
      /\ Len(s.queue) \in Nat \ {0} /\ Len(b.queue) = Len(s.queue) - 1
      /\ \A i \in 1..(Len(s.queue) - 1) : b.queue[i] = s.queue[i + 1]
  BY <1>1, JobBegunFields
<1> HIDE DEF b
<1>3. Owed(s) \subseteq Owed(b)
  <2>1. ASSUME NEW x \in Owed(s)
        PROVE  x \in Owed(b)
    <3>1. CASE x \in s.failed \cup s.queue[1]
      BY <1>2, <3>1 DEF Owed
    <3>2. CASE \E i \in 2..Len(s.queue) : x \in s.queue[i]
      <4>1. PICK i \in 2..Len(s.queue) : x \in s.queue[i]
        BY <3>2
      <4>2. i - 1 \in 1..Len(b.queue) /\ i - 1 \in 1..(Len(s.queue) - 1) /\ (i - 1) + 1 = i
        BY <1>2, <4>1
      <4>3. b.queue[i - 1] = s.queue[i]
        BY <1>2, <4>2
      <4> QED
        BY <4>1, <4>2, <4>3 DEF Owed
    <3>3. x \in s.failed \/ \E i \in 1..Len(s.queue) : x \in s.queue[i]
      BY <1>1, <2>1 DEF Owed
    <3>4. \A i \in 1..Len(s.queue) : i = 1 \/ i \in 2..Len(s.queue)
      BY <1>2
    <3> QED
      BY <3>1, <3>2, <3>3, <3>4
  <2> QED
    BY <2>1
<1>4. QuietJob(b) /\ Awake(b)
  BY <1>2 DEF QuietJob, Awake, Free, Revoking
<1>6. Owed(b) \subseteq Owed(s)
  <2>1. \A i \in 1..Len(b.queue) : i \in 1..(Len(s.queue) - 1) /\ i + 1 \in 1..Len(s.queue)
    BY <1>2
  <2>2. \A i \in 1..Len(b.queue) : b.queue[i] \subseteq Owed(s)
    BY <1>2, <2>1 DEF Owed
  <2>3. 1 \in 1..Len(s.queue)
    BY <1>2
  <2>4. s.failed \cup s.queue[1] \subseteq Owed(s)
    BY <2>3 DEF Owed
  <2> QED
    BY <1>2, <2>2, <2>4 DEF Owed
<1>5. ManagerInv(b) /\ NoRevival(s, b)
  BY <1>2, <1>3, <1>4, <1>6, JobKeeps
<1> QED
  BY <1>2, <1>3, <1>4, <1>5 DEF b

(* A handler call that succeeds turns an owed target into a fenced one.    *)
LEMMA HandlerSucceededKeeps ==
    ASSUME NEW s, ManagerInv(s), s.running, NEW r \in s.todo
    PROVE  LET e == HandlerSucceeded(s, r) IN
           /\ ManagerInv(e) /\ NoRevival(s, e) /\ Awake(e) /\ SameHolder(s, e)
           /\ e.queue = s.queue /\ e.running = s.running /\ e.failed = s.failed
           /\ e.todo = s.todo \ {r} /\ e.fenced = s.fenced \cup {r}
<1> DEFINE e == HandlerSucceeded(s, r)
<1>1. s \in Manager /\ s.todo \in SUBSET Target /\ s.fenced \cup {r} \in SUBSET Target
  BY DEF ManagerInv, Manager
<1>2. e \in Manager
  BY <1>1 DEF Manager, HandlerSucceeded
<1>3. /\ SameHolder(s, e) /\ e.queue = s.queue /\ e.running = s.running
      /\ e.failed = s.failed /\ e.todo = s.todo \ {r} /\ e.fenced = s.fenced \cup {r}
  BY <1>1 DEF Manager, HandlerSucceeded, SameHolder
<1> HIDE DEF e
<1>4. e.fenced \cup Owed(e) = s.fenced \cup Owed(s)
  BY <1>1, <1>3 DEF Owed
<1>5. QuietJob(e) /\ Awake(e)
  BY <1>3 DEF QuietJob, Awake, Free, Revoking
<1>6. ManagerInv(e) /\ NoRevival(s, e)
  BY <1>2, <1>3, <1>4, <1>5, JobKeeps
<1> QED
  BY <1>3, <1>5, <1>6 DEF e

(* One that throws leaves it owed.                                         *)
LEMMA HandlerFailedKeeps ==
    ASSUME NEW s, ManagerInv(s), s.running, NEW r \in s.todo
    PROVE  LET e == HandlerFailed(s, r) IN
           /\ ManagerInv(e) /\ NoRevival(s, e) /\ Awake(e) /\ SameHolder(s, e)
           /\ e.queue = s.queue /\ e.running = s.running /\ e.fenced = s.fenced
           /\ e.todo = s.todo \ {r} /\ e.failed = s.failed \cup {r}
<1> DEFINE e == HandlerFailed(s, r)
<1>1. s \in Manager /\ s.todo \in SUBSET Target /\ s.failed \cup {r} \in SUBSET Target
  BY DEF ManagerInv, Manager
<1>2. e \in Manager
  BY <1>1 DEF Manager, HandlerFailed
<1>3. /\ SameHolder(s, e) /\ e.queue = s.queue /\ e.running = s.running
      /\ e.fenced = s.fenced /\ e.todo = s.todo \ {r} /\ e.failed = s.failed \cup {r}
  BY <1>1 DEF Manager, HandlerFailed, SameHolder
<1> HIDE DEF e
<1>4. e.fenced \cup Owed(e) = s.fenced \cup Owed(s)
  BY <1>1, <1>3 DEF Owed
<1>5. QuietJob(e) /\ Awake(e)
  BY <1>3 DEF QuietJob, Awake, Free, Revoking
<1>6. ManagerInv(e) /\ NoRevival(s, e)
  BY <1>2, <1>3, <1>4, <1>5, JobKeeps
<1> QED
  BY <1>3, <1>5, <1>6 DEF e

(* A job that has called every handler settles; h is the object just       *)
(* before drainWaiters().                                                  *)
LEMMA JobSettledKeeps ==
    ASSUME NEW s, ManagerInv(s), s.running, s.todo = {}
    PROVE  LET h == [s EXCEPT !.running = FALSE] IN
           /\ ManagerInv(JobSettled(s)) /\ NoRevival(s, JobSettled(s)) /\ Awake(JobSettled(s))
           /\ Moves(h, JobSettled(s)) /\ SameHolder(s, h) /\ Owed(h) = Owed(s)
           /\ h \in Manager /\ h.queue = s.queue /\ h.running = FALSE
           /\ h.todo = s.todo /\ h.failed = s.failed /\ h.fenced = s.fenced
<1> DEFINE h == [s EXCEPT !.running = FALSE]
<1>1. s \in Manager /\ h \in Manager
  BY DEF ManagerInv, Manager
<1>2. /\ SameHolder(s, h) /\ h.queue = s.queue /\ h.running = FALSE
      /\ h.fenced = s.fenced /\ h.todo = s.todo /\ h.failed = s.failed
  BY <1>1 DEF Manager, SameHolder
<1>3. JobSettled(s) = IF s.failed = {} THEN DrainWaiters(h) ELSE h
  BY DEF JobSettled
<1> HIDE DEF h
<1>4. h.fenced \cup Owed(h) = s.fenced \cup Owed(s)
  BY <1>2 DEF Owed
<1>5. QuietJob(h)
  BY <1>2 DEF QuietJob
<1>6. ManagerInv(h) /\ NoRevival(s, h)
  BY <1>1, <1>2, <1>4, <1>5, JobKeeps
<1>9. Owed(h) = Owed(s)
  BY <1>2 DEF Owed
<1>7. CASE s.failed = {}
  <2>1. Moves(h, DrainWaiters(h)) /\ Awake(DrainWaiters(h))
    BY <1>6, DrainMoves
  <2> QED
    BY <1>1, <1>2, <1>3, <1>6, <1>7, <1>9, <2>1 DEF Moves, Advances, NoRevival, h
<1>8. CASE s.failed # {}
  <2>1. Moves(h, h)
    BY <1>6, FieldsMove
  <2>2. Awake(h)
    BY <1>2, <1>8 DEF Awake, Free
  <2> QED
    BY <1>1, <1>2, <1>3, <1>6, <1>8, <1>9, <2>1, <2>2 DEF h
<1> QED
  BY <1>7, <1>8

(* The number of unsettled jobs.                                           *)
LEMMA JobsAheadType ==
    ASSUME NEW s \in Manager
    PROVE  /\ JobsAhead(s) \in Nat
           /\ Len(s.queue) \in Nat
           /\ s.running => JobsAhead(s) = Len(s.queue) + 1
           /\ ~s.running => JobsAhead(s) = Len(s.queue)
<1>1. Len(s.queue) \in Nat /\ s.running \in BOOLEAN
  BY DEF Manager
<1>2. CASE s.running
  BY <1>1, <1>2 DEF JobsAhead
<1>3. CASE ~s.running
  BY <1>1, <1>3 DEF JobsAhead
<1> QED
  BY <1>1, <1>2, <1>3

(* Only a job that succeeds lets a client enter, and then everything owed  *)
(* has been fenced: the object was free but for the job itself.            *)
LEMMA JobSettledOwner ==
    ASSUME NEW s, ManagerInv(s), s.running, s.todo = {}
    PROVE  LET h == [s EXCEPT !.running = FALSE] IN
           /\ OwnerStep(h, JobSettled(s)) /\ JobSettled(s).human = s.human
           /\ h.lease = s.lease /\ h.issued = s.issued /\ h.waiters = s.waiters
<1> DEFINE h == [s EXCEPT !.running = FALSE]
<1>1. s \in Manager /\ h \in Manager
  BY DEF ManagerInv, Manager
<1>2. /\ SameHolder(s, h) /\ h.queue = s.queue /\ h.running = FALSE /\ h.waiters = s.waiters
      /\ h.fenced = s.fenced /\ h.todo = s.todo /\ h.failed = s.failed
  BY <1>1 DEF Manager, SameHolder
<1>3. JobSettled(s) = IF s.failed = {} THEN DrainWaiters(h) ELSE h
  BY DEF JobSettled
<1> HIDE DEF h
<1>4. h.fenced \cup Owed(h) = s.fenced \cup Owed(s)
  BY <1>2 DEF Owed
<1>5. QuietJob(h)
  BY <1>2 DEF QuietJob
<1>6. ManagerInv(h)
  BY <1>1, <1>2, <1>4, <1>5, JobKeeps
<1>7. OwnerStep(h, JobSettled(s)) /\ JobSettled(s).human = h.human
  <2>1. OwnerStep(h, h)
    BY DEF OwnerStep, Stayed
  <2> QED
    BY <1>3, <1>6, <2>1, DrainOwner
<1> QED
  BY <1>2, <1>7 DEF SameHolder, h
=============================================================================
