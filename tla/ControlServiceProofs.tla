------------------------ MODULE ControlServiceProofs ------------------------
(***************************************************************************)
(* Proofs about module ControlService, for every number of requests,       *)
(* gateways and clients, and every mix of kinds of request.                *)
(***************************************************************************)
EXTENDS ControlService, LeaseManagerProofs

(***************************************************************************)
(* The inductive invariant.  Publications registered in an old epoch exist *)
(* only during an epoch transition, and then the very job the transition   *)
(* awaits has still to call the handler with a target that clears them.    *)
(* A publication is not registered in an epoch before that of its call.    *)
(***************************************************************************)
CallOK(call) ==
    /\ call \in Call
    /\ call.phase # "idle" => call.from # 0
    /\ call.phase = "observing" => call.ahead > 0

\* A tool call runs under a proof that was granted.
ProofsIssued ==
    \A r \in Slot : request[r].phase \in {"running", "spawned"} =>
        request[r].proof \in lm.issued

NthJob(s, n) ==
    IF s.running THEN IF n = 1 THEN s.todo ELSE s.queue[n - 1] ELSE s.queue[n]

Purges(s, target) == target = WithoutProof \/ target.epoch # s.epoch

AllCurrent == \A v \in previews : v.at = lm.epoch

Cleared == Settled => AllCurrent

InOrder == \A v \in previews : v.of <= v.at

PurgeAhead ==
    gateway.resetting > 0 =>
        /\ gateway.resetting <= JobsAhead(lm)
        /\ \/ AllCurrent
           \/ \E target \in NthJob(lm, gateway.resetting) : Purges(lm, target)

IInv ==
    /\ TypeOK
    /\ ManagerInv(lm)
    /\ Awake(lm)
    /\ \A r \in Slot : CallOK(request[r])
    /\ ProofsIssued
    /\ Cleared
    /\ InOrder
    /\ PurgeAhead
    /\ "exec" \notin LosesResponse => NoOrphanProcess

(* It holds initially.                                                     *)
LEMMA InitInv == Init => IInv
<1> SUFFICES ASSUME Init PROVE IInv
  OBVIOUS
<1>1. lm = NewManager /\ lm \in Manager /\ ManagerInv(lm) /\ Awake(lm)
  BY NewManagerKeeps DEF Init
<1>5. Idle \in Call /\ Idle.phase = "idle"
  BY BoundsAssumption DEF Idle, Call, Kinds, Phase, NoProof, LeaseProof
<1>6. (\A r \in Slot : CallOK(request[r])) /\ ProofsIssued
  BY <1>5 DEF Init, CallOK, ProofsIssued
<1>7. gateway \in Gateway /\ gateway.resetting = 0
  BY BoundsAssumption DEF Init, Gateway
<1>8. TypeOK
  BY <1>1, <1>5, <1>7, BoundsAssumption DEF Init, TypeOK
<1>9. Cleared /\ InOrder /\ PurgeAhead /\ NoOrphanProcess
  BY <1>7 DEF Init, Cleared, AllCurrent, InOrder, PurgeAhead, NoOrphanProcess
<1> QED
  BY <1>1, <1>6, <1>8, <1>9 DEF IInv

-----------------------------------------------------------------------------
(* The two halves of the invariant.                                        *)

(* A method keeps the publications in order: the epoch is the same, and    *)
(* the job a transition awaits keeps its place and its targets.            *)
LEMMA PublicationsKept ==
    ASSUME IInv, Moves(lm, lm'), gateway'.resetting = gateway.resetting,
           \A v \in previews' : v \in previews \/ (v.at = lm.epoch /\ v.of <= v.at)
    PROVE  (Cleared /\ InOrder /\ PurgeAhead)'
<1>1. lm \in Manager /\ lm' \in Manager /\ Extends(lm, lm') /\ lm'.epoch = lm.epoch
  BY DEF IInv, ManagerInv, Moves, Advances
<1>2. AllCurrent => AllCurrent'
  BY <1>1 DEF AllCurrent
<1>3. Cleared'
  BY <1>2 DEF IInv, Cleared, Settled, AllCurrent
<1>4. ASSUME gateway.resetting > 0
      PROVE  gateway.resetting <= JobsAhead(lm')
             /\ NthJob(lm', gateway.resetting) = NthJob(lm, gateway.resetting)
  <2>1. gateway.resetting \in Nat /\ gateway.resetting <= JobsAhead(lm)
    BY <1>4 DEF IInv, PurgeAhead, TypeOK, Gateway
  <2>2. /\ lm'.running = lm.running /\ lm'.todo = lm.todo
        /\ Len(lm.queue) <= Len(lm'.queue)
        /\ \A i \in 1..Len(lm.queue) : lm'.queue[i] = lm.queue[i]
    BY <1>1 DEF Extends
  <2>3. CASE lm.running
    <3>1. gateway.resetting = 1 \/ gateway.resetting - 1 \in 1..Len(lm.queue)
      BY <1>1, <1>4, <2>1, <2>3, JobsAheadType
    <3>2. lm'.running /\ lm'.todo = lm.todo
          /\ (gateway.resetting # 1 =>
                lm'.queue[gateway.resetting - 1] = lm.queue[gateway.resetting - 1])
      BY <2>2, <2>3, <3>1
    <3>3. gateway.resetting <= JobsAhead(lm')
      BY <1>1, <2>1, <2>2, <2>3, <3>2, JobsAheadType
    <3> QED
      BY <2>3, <3>2, <3>3 DEF NthJob
  <2>4. CASE ~lm.running
    <3>1. gateway.resetting \in 1..Len(lm.queue)
      BY <1>1, <1>4, <2>1, <2>4, JobsAheadType
    <3> QED
      BY <1>1, <2>1, <2>2, <2>4, <3>1, JobsAheadType DEF NthJob
  <2> QED
    BY <2>3, <2>4
<1>5. PurgeAhead'
  BY <1>1, <1>2, <1>4 DEF IInv, PurgeAhead, Purges
<1>6. InOrder'
  BY DEF IInv, InOrder
<1> QED
  BY <1>3, <1>5, <1>6

(* The lease that ends is owed, and what is owed stays owed: a process     *)
(* that was accounted for still is, unless its call ends without a check.  *)
LEMMA ProcessesKept ==
    ASSUME NoOrphanProcess, lm \in Manager, lm' \in Manager,
           LeaseTargets(lm) \subseteq LeaseTargets(lm') \cup Owed(lm'),
           Owed(lm) \subseteq Owed(lm'),
           \A p \in live' : \/ p \in live
                            \/ \E r \in Slot : InPhase(r, "spawned")' /\ request'[r].proof = p,
           \A r \in Slot : InPhase(r, "spawned") =>
               \/ InPhase(r, "spawned")' /\ request'[r].proof = request[r].proof
               \/ request[r].proof \in LeaseTargets(lm') \cup Owed(lm')
    PROVE  NoOrphanProcess'
<1> SUFFICES ASSUME NEW p \in live'
             PROVE  \/ Holds(lm', p)
                    \/ p \in Owed(lm')
                    \/ \E r \in Slot : InPhase(r, "spawned")' /\ request'[r].proof = p
  BY DEF NoOrphanProcess
<1>1. \A q : Holds(lm, q) => q \in LeaseTargets(lm)
  BY DEF Holds, LeaseTargets
<1>2. \A q : q \in LeaseTargets(lm') => Holds(lm', q)
  BY DEF Holds, LeaseTargets
<1>3. CASE p \notin live
  BY <1>3
<1>4. CASE p \in live
  <2>1. CASE Holds(lm, p) \/ p \in Owed(lm)
    BY <1>1, <1>2, <2>1
  <2>2. CASE \E r \in Slot : InPhase(r, "spawned") /\ request[r].proof = p
    BY <1>2, <2>2
  <2> QED
    BY <1>4, <2>1, <2>2 DEF NoOrphanProcess
<1> QED
  BY <1>3, <1>4

(* A step that changes no request and no process.                          *)
LEMMA MethodStep ==
    ASSUME IInv, Moves(lm, lm'), Awake(lm'), sender' \in 1..MaxGateway,
           UNCHANGED <<gateway, request, live, previews>>
    PROVE  IInv'
<1>1. lm \in Manager /\ lm' \in Manager /\ ManagerInv(lm')
      /\ LeaseTargets(lm) \subseteq LeaseTargets(lm') \cup Owed(lm')
      /\ Owed(lm) \subseteq Owed(lm')
  BY OwedGrows DEF IInv, ManagerInv, Moves, Advances, Handed
<1>2. (Cleared /\ InOrder /\ PurgeAhead)'
  BY PublicationsKept
<1>3. NoOrphanProcess => NoOrphanProcess'
  <2>1. \A r \in Slot : InPhase(r, "spawned") =>
            InPhase(r, "spawned")' /\ request'[r].proof = request[r].proof
    BY DEF InPhase
  <2> QED
    BY <1>1, <2>1, ProcessesKept
<1>4. ProofsIssued'
  BY DEF IInv, ProofsIssued, Moves, Advances, NoRevival
<1> QED
  BY <1>1, <1>2, <1>3, <1>4 DEF IInv, TypeOK

(* A step of one request.                                                  *)
LEMMA RequestStep ==
    ASSUME IInv, Moves(lm, lm'), Awake(lm'), sender' = sender,
           gateway' \in Gateway, gateway'.resetting = gateway.resetting,
           NEW r \in Slot, NEW call, CallOK(call),
           call.phase \in {"running", "spawned"} => call.proof \in lm'.issued,
           request' = [request EXCEPT ![r] = call],
           live' \subseteq LeaseProof,
           \A p \in live' : p \in live \/ (call.phase = "spawned" /\ call.proof = p),
           \/ "exec" \in LosesResponse
           \/ request[r].phase # "spawned"
           \/ request[r].proof \in LeaseTargets(lm') \cup Owed(lm'),
           previews' \subseteq Publication,
           \A v \in previews' : v \in previews \/ (v.at = lm.epoch /\ v.of <= v.at)
    PROVE  IInv'
<1>1. lm \in Manager /\ lm' \in Manager /\ ManagerInv(lm')
      /\ LeaseTargets(lm) \subseteq LeaseTargets(lm') \cup Owed(lm')
      /\ Owed(lm) \subseteq Owed(lm')
  BY OwedGrows DEF IInv, ManagerInv, Moves, Advances, Handed
<1>2. (Cleared /\ InOrder /\ PurgeAhead)'
  BY PublicationsKept
<1>3. request \in [Slot -> Call] /\ request'[r] = call
      /\ \A q \in Slot : q # r => request'[q] = request[q]
  BY DEF IInv, TypeOK
<1>4. \A q \in Slot : CallOK(request'[q])
  BY <1>3 DEF IInv
<1>5. request' \in [Slot -> Call]
  BY <1>3 DEF CallOK
<1>6. TypeOK'
  BY <1>1, <1>5 DEF IInv, TypeOK
<1>7. ASSUME "exec" \notin LosesResponse
      PROVE  NoOrphanProcess'
  <2>1. \A p \in live' : \/ p \in live
                         \/ \E q \in Slot : InPhase(q, "spawned")' /\ request'[q].proof = p
    BY <1>3 DEF InPhase
  <2>2. \A q \in Slot : InPhase(q, "spawned") =>
            \/ InPhase(q, "spawned")' /\ request'[q].proof = request[q].proof
            \/ request[q].proof \in LeaseTargets(lm') \cup Owed(lm')
    BY <1>3, <1>7 DEF InPhase
  <2>3. NoOrphanProcess
    BY <1>7 DEF IInv
  <2> QED
    BY <1>1, <2>1, <2>2, <2>3, ProcessesKept
<1>8. ProofsIssued'
  BY <1>3 DEF IInv, ProofsIssued, Moves, Advances, NoRevival
<1> QED
  BY <1>1, <1>2, <1>4, <1>6, <1>7, <1>8 DEF IInv

(* A request that ends, or goes on to another phase, keeping the proof.    *)
LEMMA CallFields ==
    ASSUME NEW call, CallOK(call)
    PROVE  /\ CallOK(Idle) /\ Idle.phase = "idle"
           /\ \A phase \in Phase \ {"idle", "observing"} :
                 call.phase # "idle" =>
                   /\ CallOK([call EXCEPT !.phase = phase])
                   /\ [call EXCEPT !.phase = phase].phase = phase
                   /\ [call EXCEPT !.phase = phase].proof = call.proof
<1>1. Idle \in Call /\ Idle.phase = "idle"
  BY BoundsAssumption DEF Idle, Call, Kinds, Phase, NoProof, LeaseProof
<1> QED
  BY <1>1 DEF CallOK, Call

(* A request that is answered.                                             *)
LEMMA DoneStep ==
    ASSUME IInv, Moves(lm, lm'), Awake(lm'), NEW r \in Slot, Done(r),
           UNCHANGED <<sender, gateway, live>>,
           \/ "exec" \in LosesResponse
           \/ request[r].phase # "spawned"
           \/ request[r].proof \in LeaseTargets(lm') \cup Owed(lm'),
           previews' \subseteq Publication,
           \A v \in previews' : v \in previews \/ (v.at = lm.epoch /\ v.of <= v.at)
    PROVE  IInv'
<1>1. CallOK(Idle) /\ Idle.phase = "idle"
  BY CallFields DEF IInv
<1>2. gateway \in Gateway /\ live \subseteq LeaseProof
  BY DEF IInv, TypeOK
<1>3. request' = [request EXCEPT ![r] = Idle]
  BY DEF Done
<1> QED
  BY <1>1, <1>2, <1>3, RequestStep

(* A request that goes on.                                                 *)
LEMMA GoOnStep ==
    ASSUME IInv, Moves(lm, lm'), Awake(lm'), NEW r \in Slot, NEW call, CallOK(call),
           call.phase \in {"running", "spawned"} => call.proof \in lm'.issued,
           request' = [request EXCEPT ![r] = call], request[r].phase # "spawned",
           UNCHANGED <<sender, gateway, live, previews>>
    PROVE  IInv'
<1>1. gateway \in Gateway /\ live \subseteq LeaseProof /\ previews \subseteq Publication
  BY DEF IInv, TypeOK
<1> QED
  BY <1>1, RequestStep

(* The routes of the lease and of human control.                           *)
LEMMA OwnershipRoute ==
    ASSUME IInv, NEW r \in Slot,
           \/ \E c \in Client, d \in Duration : AcquireLease(r, c, d)
           \/ \E p \in lm.issued : ReleaseLease(r, p)
           \/ TakeHumanControl(r) \/ ResumeTakeover(r) \/ ReleaseHumanControl(r)
    PROVE  IInv'
<1>1. /\ ManagerInv(lm) /\ Awake(lm) /\ lm \in Manager /\ lm.issued \subseteq LeaseProof
      /\ CallOK(request[r]) /\ request[r] \in Call /\ TypeOK /\ previews \subseteq Publication
  BY DEF IInv, ManagerInv, Manager, CallOK, TypeOK
<1>2. Moves(lm, lm)
  BY <1>1, FieldsMove
<1>3. {} \in SUBSET Target
  OBVIOUS
<1>4. ASSUME lm' = IF lm.failed # {} THEN EnqueueRevocations(lm, {}) ELSE lm
      PROVE  Moves(lm, lm') /\ Awake(lm')
  BY <1>1, <1>2, <1>3, <1>4, EnqueueMoves
<1>5. ASSUME Done(r), previews' = previews, UNCHANGED <<sender, gateway, live>>,
             request[r].phase # "spawned", Moves(lm, lm'), Awake(lm')
      PROVE  IInv'
  BY <1>1, <1>5, DoneStep
<1>6. ASSUME NEW c \in Client, NEW d \in Duration, AcquireLease(r, c, d)
      PROVE  IInv'
  BY <1>1, <1>5, <1>6, AcquiredMoves DEF AcquireLease, Route, InPhase
<1>7. ASSUME NEW p \in lm.issued, ReleaseLease(r, p)
      PROVE  IInv'
  BY <1>1, <1>5, <1>7, ReleasedMoves DEF ReleaseLease, Route, InPhase
<1>8. CASE ReleaseHumanControl(r)
  BY <1>1, <1>5, <1>8, HumanReleasedMoves DEF ReleaseHumanControl, Route, InPhase
<1>9. CASE ResumeTakeover(r)
  BY <1>4, <1>5, <1>9 DEF ResumeTakeover, InPhase
<1>10. CASE TakeHumanControl(r)
  <2>1. request[r].phase = "routed" /\ UNCHANGED <<sender, gateway, live, previews>>
    BY <1>10 DEF TakeHumanControl, Route, InPhase
  <2>2. CASE ~lm.human
    <3>1. lm' = HumanTaken(lm) /\ Done(r)
      BY <1>10, <2>2 DEF TakeHumanControl
    <3> QED
      BY <1>1, <1>5, <2>1, <3>1, HumanTakenMoves
  <2>3. CASE lm.human /\ Revoking(lm)
    <3> DEFINE call == [request[r] EXCEPT !.phase = "awaiting", !.ahead = JobsAhead(lm)]
    <3>1. lm' = lm /\ request' = [request EXCEPT ![r] = call]
      BY <1>1, <1>10, <2>3 DEF TakeHumanControl, TypeOK
    <3>2. CallOK(call) /\ call.phase = "awaiting"
      BY <1>1, <2>1, JobsAheadType DEF CallOK, Call, Phase
    <3> HIDE DEF call
    <3> QED
      BY <1>1, <1>2, <2>1, <3>1, <3>2, GoOnStep
  <2>4. CASE lm.human /\ ~Revoking(lm)
    BY <1>4, <1>5, <1>10, <2>1, <2>4 DEF TakeHumanControl
  <2> QED
    BY <2>2, <2>3, <2>4
<1> QED
  BY <1>6, <1>7, <1>8, <1>9, <1>10

(* The requests.                                                           *)
LEMMA ServeStep ==
    ASSUME IInv, NEW r \in Slot, Serve(r)
    PROVE  IInv'
<1>1. /\ ManagerInv(lm) /\ Awake(lm) /\ lm \in Manager /\ lm.issued \subseteq LeaseProof
      /\ CallOK(request[r]) /\ request[r] \in Call /\ TypeOK
  BY DEF IInv, ManagerInv, Manager, CallOK
<1>2. Moves(lm, lm)
  BY <1>1, FieldsMove
<1>3. CallOK(Idle) /\ Idle.phase = "idle"
  BY <1>1, CallFields
<1>4. CASE Arrive(r)
  <2>1. PICK call : /\ request' = [request EXCEPT ![r] = call]
                    /\ \/ call = Idle
                       \/ call = [request[r] EXCEPT !.phase = "routed"]
                       \/ /\ call = [request[r] EXCEPT !.phase = "observing",
                                                       !.ahead = ResetsAhead(gateway')]
                          /\ ResetsAhead(gateway') > 0
    <3>1. CASE gateway.broken
      BY <1>4, <3>1 DEF Arrive, Done
    <3>2. CASE ~gateway.broken /\ ResetsAhead(gateway') > 0
      <4> DEFINE call == [request[r] EXCEPT !.phase = "observing",
                                            !.ahead = ResetsAhead(gateway')]
      <4>1. request' = [request EXCEPT ![r] = call]
        BY <1>1, <1>4, <3>2 DEF Arrive, TypeOK
      <4> QED
        BY <3>2, <4>1
    <3>3. CASE ~gateway.broken /\ ~(ResetsAhead(gateway') > 0)
      BY <1>1, <1>4, <3>3 DEF Arrive, GoTo, TypeOK
    <3> QED
      BY <3>1, <3>2, <3>3
  <2>2. gateway' \in Gateway /\ gateway'.resetting = gateway.resetting
    <3>1. gateway \in Gateway /\ request[r].from \in 0..MaxGateway
      BY <1>1 DEF TypeOK, Call
    <3>2. gateway' = EpochObserved(gateway, request[r].from)
      BY <1>4 DEF Arrive
    <3>3. gateway.resets \in Nat /\ gateway.resets + 1 \in Nat
      BY <3>1 DEF Gateway
    <3> QED
      BY <3>1, <3>2, <3>3 DEF EpochObserved, Gateway
  <2>3. ResetsAhead(gateway') \in Nat
    BY <2>2 DEF ResetsAhead, Gateway
  <2>4. CallOK(call) /\ call.phase \notin {"running", "spawned"}
    BY <1>1, <1>3, <1>4, <2>1, <2>3 DEF CallOK, Call, Phase, Arrive, InPhase
  <2>5. /\ request[r].phase # "spawned" /\ lm' = lm /\ sender' = sender
        /\ live' = live /\ previews' = previews
        /\ live' \subseteq LeaseProof /\ previews' \subseteq Publication
    BY <1>1, <1>4 DEF Arrive, InPhase, TypeOK
  <2> QED
    BY <1>1, <1>2, <2>1, <2>2, <2>4, <2>5, RequestStep
<1>5. CASE \/ \E c \in Client, d \in Duration : AcquireLease(r, c, d)
           \/ \E p \in lm.issued : ReleaseLease(r, p)
           \/ TakeHumanControl(r) \/ ResumeTakeover(r) \/ ReleaseHumanControl(r)
  BY <1>5, OwnershipRoute
<1>6. ASSUME NEW p \in lm.issued, Dispatch(r, p)
      PROVE  IInv'
  <2>1. /\ lm' = Verified(lm, p, TRUE) /\ UNCHANGED <<sender, gateway, live, previews>>
        /\ request[r].phase = "routed"
    BY <1>6 DEF Dispatch, Route, InPhase
  <2>2. Moves(lm, lm') /\ Awake(lm')
    BY <1>1, <2>1, VerifiedMoves
  <2>3. CASE Holds(lm', p)
    <3> DEFINE call == [request[r] EXCEPT !.phase = "running", !.proof = p]
    <3>1. request' = [request EXCEPT ![r] = call]
      BY <1>1, <1>6, <2>3 DEF Dispatch, TypeOK
    <3>2. CallOK(call) /\ call.proof = p /\ p \in lm'.issued
      BY <1>1, <2>1, <2>2 DEF CallOK, Call, Phase, Moves, Advances, NoRevival
    <3> HIDE DEF call
    <3> QED
      BY <2>1, <2>2, <3>1, <3>2, GoOnStep
  <2>4. CASE ~Holds(lm', p)
    <3>1. Done(r)
      BY <1>6, <2>4 DEF Dispatch
    <3> QED
      BY <1>1, <2>1, <2>2, <3>1, DoneStep DEF TypeOK
  <2> QED
    BY <2>3, <2>4
<1>7. CASE Spawn(r)
  <2> DEFINE call == [request[r] EXCEPT !.phase = "spawned"]
  <2>1. /\ request' = [request EXCEPT ![r] = call] /\ live' = live \cup {request[r].proof}
        /\ request[r].phase = "running" /\ UNCHANGED <<lm, sender, gateway, previews>>
    BY <1>1, <1>7 DEF Spawn, GoTo, InPhase, TypeOK
  <2>2. /\ CallOK(call) /\ call.phase = "spawned" /\ call.proof = request[r].proof
        /\ call.proof \in lm'.issued
    BY <1>1, <2>1, CallFields DEF Phase, IInv, ProofsIssued
  <2>3. /\ gateway \in Gateway /\ previews \subseteq Publication
        /\ live \cup {request[r].proof} \subseteq LeaseProof
    BY <1>1 DEF TypeOK, Call
  <2> HIDE DEF call
  <2> QED
    BY <1>1, <1>2, <2>1, <2>2, <2>3, RequestStep
<1>8. CASE RunnerRefuses(r)
  BY <1>1, <1>2, <1>8, DoneStep DEF RunnerRefuses, InPhase, TypeOK
<1>9. CASE Publish(r)
  <2> DEFINE v == [of |-> request[r].proof.epoch, at |-> lm.epoch]
  <2>1. /\ Done(r) /\ previews' = previews \cup {v} /\ UNCHANGED <<lm, sender, gateway, live>>
        /\ request[r].phase = "running"
    BY <1>9 DEF Publish, InPhase
  <2>2. request[r].proof \in LeaseProof /\ request[r].proof \in lm.issued /\ lm.epoch \in Nat
    BY <1>1, <2>1 DEF Call, Manager, IInv, ProofsIssued
  <2>3. v \in Publication /\ v.at = lm.epoch /\ v.of <= v.at
    BY <1>1, <2>2 DEF Publication, LeaseProof, ManagerInv, Fresh
  <2> HIDE DEF v
  <2> QED
    BY <1>1, <1>2, <2>1, <2>3, DoneStep DEF TypeOK
<1>10. CASE PostCall(r)
  <2> DEFINE e == ExpireIfNeeded(lm)
             p == request[r].proof
  <2>1. /\ lm' = IF Holds(e, p) THEN e ELSE AgentRevokedFor(e, p)
        /\ Done(r) /\ UNCHANGED <<sender, gateway, live, previews>>
    BY <1>10 DEF PostCall
  <2>2. /\ p \in LeaseProof /\ Moves(lm, e) /\ Awake(e) /\ ManagerInv(e)
        /\ p \in e.issued
    BY <1>1, <1>10, ExpireMoves
       DEF Call, Moves, Advances, NoRevival, IInv, ProofsIssued, PostCall, InPhase
  <2> HIDE DEF e, p
  <2>3. CASE Holds(e, p)
    <3>1. p \in LeaseTargets(lm')
      BY <2>1, <2>3 DEF Holds, LeaseTargets
    <3> QED
      BY <1>1, <2>1, <2>2, <2>3, <3>1, DoneStep DEF TypeOK, p
  <2>4. CASE ~Holds(e, p)
    <3>1. Moves(e, lm') /\ Awake(lm') /\ p \in Owed(lm')
      BY <2>1, <2>2, <2>4, AgentRevokedForMoves, RevokedForOwed
    <3>2. Moves(lm, lm')
      BY <1>1, <2>2, <3>1, MovesTransitive
    <3> QED
      BY <1>1, <2>1, <3>1, <3>2, DoneStep DEF TypeOK, p
  <2> QED
    BY <2>3, <2>4
<1>11. CASE LoseResponse(r)
  <2>1. /\ request[r].kind \in LosesResponse
        /\ lm' = IF request[r].kind = "compatExec"
                 THEN AgentRevokedFor(lm, request[r].proof) ELSE lm
        /\ Done(r) /\ UNCHANGED <<sender, gateway, live, previews>>
    BY <1>11 DEF LoseResponse
  <2>2. request[r].proof \in LeaseProof /\ request[r].proof \in lm.issued
    BY <1>1, <1>11 DEF Call, IInv, ProofsIssued, LoseResponse, InPhase
  <2>3. CASE request[r].kind = "compatExec"
    <3>1. Moves(lm, lm') /\ Awake(lm') /\ request[r].proof \in Owed(lm')
      BY <1>1, <2>1, <2>2, <2>3, AgentRevokedForMoves, RevokedForOwed
    <3> QED
      BY <1>1, <2>1, <3>1, DoneStep DEF TypeOK
  <2>4. CASE request[r].kind # "compatExec"
    <3>1. "exec" \in LosesResponse
      BY <2>1, <2>4, KindAssumption
    <3> QED
      BY <1>1, <1>2, <2>1, <2>4, <3>1, DoneStep DEF TypeOK
  <2> QED
    BY <2>3, <2>4
<1> QED
  BY <1>4, <1>5, <1>6, <1>7, <1>8, <1>9, <1>10, <1>11 DEF Serve

(* A new gateway, a new request and the lease timer.                       *)
LEMMA OutsideStep ==
    ASSUME IInv, \/ NewGateway \/ Expire
                 \/ \E r \in Slot, kind \in Kind : Send(r, kind)
    PROVE  IInv'
<1>1. /\ ManagerInv(lm) /\ Awake(lm) /\ lm \in Manager /\ TypeOK
  BY DEF IInv, ManagerInv
<1>2. Moves(lm, lm)
  BY <1>1, FieldsMove
<1>3. CASE NewGateway
  <2>1. sender' \in 1..MaxGateway
    BY <1>1, <1>3, BoundsAssumption DEF NewGateway, TypeOK
  <2>2. lm' = lm /\ UNCHANGED <<gateway, request, live, previews>>
    BY <1>3 DEF NewGateway
  <2> QED
    BY <1>1, <1>2, <2>1, <2>2, MethodStep
<1>4. CASE Expire
  <2> DEFINE l == [lm.lease EXCEPT !.expiresIn = 0]
             e == [lm EXCEPT !.lease = l]
  <2>1. lm.lease # NoLease /\ lm.lease \in Lease
    BY <1>1, <1>4 DEF Expire, Manager
  <2>2. l \in Lease /\ l.epoch = lm.lease.epoch /\ l.generation = lm.lease.generation
        /\ l.backgroundOnly = lm.lease.backgroundOnly
    BY <2>1 DEF Lease
  <2>3. ProofOf(l) = ProofOf(lm.lease)
    BY <2>2 DEF ProofOf
  <2>4. lm' = ExpireIfNeeded(e) /\ UNCHANGED <<sender, gateway, request, live, previews>>
    BY <1>1, <1>4 DEF Expire, Manager
  <2> HIDE DEF l
  <2>5. Moves(lm, e) /\ Awake(e) /\ ManagerInv(e)
    BY <1>1, <2>1, <2>2, <2>3, RetimedMoves DEF Moves, Advances
  <2> HIDE DEF e
  <2>6. Moves(lm, lm') /\ Awake(lm')
    BY <1>1, <2>4, <2>5, ExpireMoves, MovesTransitive
  <2> QED
    BY <1>1, <2>4, <2>6, MethodStep DEF TypeOK
<1>5. CallOK(Idle)
  BY BoundsAssumption DEF CallOK, Idle, Call, Kinds, Phase, NoProof, LeaseProof
<1>6. ASSUME NEW r \in Slot, NEW kind \in Kind, Send(r, kind)
      PROVE  IInv'
  <2> DEFINE call == [Idle EXCEPT !.kind = kind, !.from = sender, !.phase = "sent"]
  <2>1. /\ request' = [request EXCEPT ![r] = call] /\ request[r].phase = "idle"
        /\ UNCHANGED <<lm, sender, gateway, live, previews>>
    BY <1>6 DEF Send
  <2>2. sender \in 0..MaxGateway /\ sender # 0 /\ kind \in Kinds
    BY <1>1, KindAssumption, BoundsAssumption DEF TypeOK
  <2>3. Idle \in Call /\ "sent" \in Phase
    BY <1>5 DEF Phase, CallOK
  <2>4. CallOK(call) /\ call.phase = "sent"
    BY <2>2, <2>3 DEF CallOK, Call
  <2> HIDE DEF call
  <2> QED
    BY <1>1, <1>2, <2>1, <2>4, GoOnStep
<1> QED
  BY <1>3, <1>4, <1>6

(* The beginning of an epoch transition: all publications are stale, and   *)
(* the job it enqueues and awaits has a target that clears them.           *)
LEMMA ResetStep ==
    ASSUME IInv, BeginReset
    PROVE  IInv'
<1> DEFINE T == IF lm.lease = NoLease THEN {WithoutProof} ELSE LeaseTargets(lm)
           h == [lm EXCEPT !.epoch = lm.epoch + 1, !.generation = 0,
                           !.lease = NoLease, !.human = FALSE]
           n == JobsAhead(lm')
<1>1. /\ ManagerInv(lm) /\ Awake(lm) /\ lm \in Manager /\ TypeOK
      /\ lm.epoch \in Nat /\ lm.epoch + 1 \in Nat
      /\ lm.queue \in Seq(SUBSET Target)
  BY DEF IInv, ManagerInv, Manager
<1>2. /\ lm' = EpochReset(lm) /\ gateway.resets > 0
      /\ gateway' = [gateway EXCEPT !.resets = gateway.resets - 1, !.resetting = n]
      /\ UNCHANGED <<sender, request, live, previews>>
  BY DEF BeginReset
<1>3. Advances(lm, lm') /\ Awake(lm') /\ ManagerInv(lm') /\ lm' \in Manager
  BY <1>1, <1>2, EpochResetMoves DEF Advances, ManagerInv
<1>4. lm' = EnqueueRevocations(h, T)
  BY <1>1, <1>2 DEF EpochReset, Manager
<1>5. h.queue = lm.queue /\ h.running = lm.running /\ h.epoch = lm.epoch + 1
      /\ h \in Manager
  BY <1>1 DEF Manager
<1> HIDE DEF h
<1>6. lm'.queue = Append(lm.queue, T) /\ lm'.running = lm.running /\ lm'.epoch = lm.epoch + 1
  BY <1>4, <1>5 DEF EnqueueRevocations, Manager
<1>7. T \in SUBSET Target
  BY <1>1, LeaseTargetsType DEF Target
<1>8. /\ n \in Nat \ {0} /\ NthJob(lm', n) = T
  <2> HIDE DEF T
  <2>1. Len(lm'.queue) = Len(lm.queue) + 1 /\ Len(lm.queue) \in Nat
        /\ lm'.queue[Len(lm.queue) + 1] = T
    BY <1>1, <1>6, <1>7
  <2>2. CASE lm.running
    <3>3. n = Len(lm'.queue) + 1
      BY <1>3, <1>6, <2>2, JobsAheadType
    <3>1. n = Len(lm.queue) + 2
      BY <2>1, <3>3
    <3>2. n # 1 /\ n - 1 = Len(lm.queue) + 1
      BY <2>1, <3>1
    <3> HIDE DEF n
    <3> QED
      BY <1>6, <2>1, <2>2, <3>1, <3>2 DEF NthJob
  <2>3. CASE ~lm.running
    <3>1. n = Len(lm.queue) + 1
      BY <1>3, <1>6, <2>1, <2>3, JobsAheadType
    <3> HIDE DEF n
    <3> QED
      BY <1>6, <2>1, <2>3, <3>1 DEF NthJob
  <2> QED
    BY <2>2, <2>3
<1>9. \E target \in T : Purges(lm', target)
  <2>1. CASE lm.lease = NoLease
    BY <2>1 DEF Purges
  <2>2. CASE lm.lease # NoLease
    <3>1. lm.lease.epoch = lm.epoch
      BY <1>1, <2>2 DEF ManagerInv, CurrentIssued
    <3>2. ProofOf(lm.lease).epoch # lm'.epoch
      BY <1>1, <1>6, <3>1 DEF ProofOf
    <3> QED
      BY <2>2, <3>2 DEF LeaseTargets, Purges
  <2> QED
    BY <2>1, <2>2
<1>10. gateway \in Gateway /\ gateway.resets - 1 \in Nat
  BY <1>1, <1>2 DEF TypeOK, Gateway
<1> HIDE DEF n, T
<1>11. gateway' \in Gateway /\ gateway'.resetting = n
  BY <1>2, <1>8, <1>10 DEF Gateway
<1>12. (Cleared /\ InOrder /\ PurgeAhead)'
  BY <1>2, <1>8, <1>9, <1>11 DEF IInv, Cleared, Settled, InOrder, PurgeAhead, n
<1>13. NoOrphanProcess => NoOrphanProcess'
  <2>1. LeaseTargets(lm) \subseteq LeaseTargets(lm') \cup Owed(lm')
        /\ Owed(lm) \subseteq Owed(lm')
    BY <1>1, <1>3, OwedGrows DEF Advances, Handed
  <2>2. \A r \in Slot : InPhase(r, "spawned") =>
            InPhase(r, "spawned")' /\ request'[r].proof = request[r].proof
    BY <1>2 DEF InPhase
  <2> QED
    BY <1>1, <1>2, <1>3, <2>1, <2>2, ProcessesKept
<1> QED
  BY <1>1, <1>2, <1>3, <1>11, <1>12, <1>13 DEF IInv, TypeOK, ProofsIssued, Advances, NoRevival

(* The beginning of a job moves its targets from the queue to the job.     *)
LEMMA BeginStep ==
    ASSUME IInv, BeginJob
    PROVE  IInv'
<1>1. /\ ManagerInv(lm) /\ lm \in Manager /\ TypeOK /\ ~lm.running /\ lm.queue # <<>>
      /\ lm' = JobBegun(lm) /\ UNCHANGED <<sender, gateway, request, live, previews>>
  BY DEF IInv, ManagerInv, BeginJob
<1>2. /\ ManagerInv(lm') /\ Awake(lm') /\ lm' \in Manager
      /\ SameHolder(lm, lm') /\ Owed(lm) \subseteq Owed(lm')
  BY <1>1, JobBegunKeeps DEF ManagerInv
<1>3. /\ lm'.running = TRUE /\ lm'.todo = lm.failed \cup lm.queue[1]
      /\ Len(lm.queue) \in Nat \ {0} /\ Len(lm'.queue) = Len(lm.queue) - 1
      /\ \A i \in 1..(Len(lm.queue) - 1) : lm'.queue[i] = lm.queue[i + 1]
  BY <1>1, JobBegunFields
<1>4. Cleared' /\ InOrder'
  BY <1>1, <1>2 DEF IInv, Cleared, Settled, AllCurrent, InOrder, SameHolder
<1>5. ASSUME gateway.resetting > 0
      PROVE  /\ gateway.resetting <= JobsAhead(lm')
             /\ NthJob(lm, gateway.resetting) \subseteq NthJob(lm', gateway.resetting)
  <2> DEFINE n == gateway.resetting
  <2>1. n \in Nat \ {0} /\ n <= JobsAhead(lm)
    BY <1>1, <1>5 DEF IInv, PurgeAhead, TypeOK, Gateway
  <2>2. JobsAhead(lm) = Len(lm.queue) /\ JobsAhead(lm') = Len(lm.queue)
    BY <1>1, <1>2, <1>3, JobsAheadType
  <2>3. n # 1 => n - 1 \in 1..(Len(lm.queue) - 1) /\ (n - 1) + 1 = n
    BY <1>3, <2>1, <2>2
  <2>4. n # 1 => lm'.queue[n - 1] = lm.queue[n]
    BY <1>3, <2>3
  <2> QED
    BY <1>1, <1>3, <2>1, <2>2, <2>4 DEF NthJob
<1>6. PurgeAhead'
  BY <1>1, <1>2, <1>5 DEF IInv, PurgeAhead, AllCurrent, Purges, SameHolder
<1>7. NoOrphanProcess => NoOrphanProcess'
  <2>1. LeaseTargets(lm) \subseteq LeaseTargets(lm') \cup Owed(lm')
    BY <1>2 DEF SameHolder, LeaseTargets
  <2>2. \A r \in Slot : InPhase(r, "spawned") =>
            InPhase(r, "spawned")' /\ request'[r].proof = request[r].proof
    BY <1>1 DEF InPhase
  <2> QED
    BY <1>1, <1>2, <2>1, <2>2, ProcessesKept
<1> QED
  BY <1>1, <1>2, <1>4, <1>6, <1>7 DEF IInv, TypeOK, ProofsIssued, SameHolder

(* A handler call.  Only its own target can leave the job the transition   *)
(* awaits, and one that clears publications has cleared them.              *)
LEMMA HandlerStep ==
    ASSUME IInv, NEW target \in lm.todo, HandlerSucceeds(target) \/ HandlerFails(target)
    PROVE  IInv'
<1>1. /\ ManagerInv(lm) /\ lm \in Manager /\ TypeOK /\ lm.running
      /\ AfterHandler(target) /\ UNCHANGED <<sender, gateway, request>>
  BY DEF IInv, ManagerInv, QuietJob, HandlerSucceeds, HandlerFails, AfterHandler
<1>2. /\ ManagerInv(lm') /\ Awake(lm') /\ lm' \in Manager /\ SameHolder(lm, lm')
      /\ lm'.queue = lm.queue /\ lm'.running = lm.running /\ lm'.todo = lm.todo \ {target}
      /\ \/ lm'.failed = lm.failed /\ live' = live \ {target}
         \/ lm'.failed = lm.failed \cup {target} /\ live' = live
  <2>1. CASE HandlerSucceeds(target)
    BY <1>1, <2>1, HandlerSucceededKeeps DEF HandlerSucceeds, ManagerInv
  <2>2. CASE HandlerFails(target)
    BY <1>1, <2>2, HandlerFailedKeeps DEF HandlerFails, ManagerInv
  <2> QED
    BY <2>1, <2>2
<1>3. previews' = IF Purges(lm, target) THEN {} ELSE previews
  BY <1>1 DEF AfterHandler, Purges
<1>4. AllCurrent => AllCurrent'
  BY <1>2, <1>3 DEF AllCurrent, SameHolder
<1>5. Cleared' /\ InOrder'
  BY <1>1, <1>3, <1>4 DEF IInv, Cleared, Settled, InOrder
<1>6. PurgeAhead'
  <2>1. CASE Purges(lm, target)
    BY <1>1, <1>2, <1>3, <2>1 DEF IInv, PurgeAhead, AllCurrent, JobsAhead
  <2>2. CASE ~Purges(lm, target)
    <3>1. \A n : NthJob(lm, n) \subseteq NthJob(lm', n) \cup {target}
      BY <1>2 DEF NthJob
    <3> QED
      BY <1>1, <1>2, <1>4, <2>2, <3>1 DEF IInv, PurgeAhead, JobsAhead, Purges, SameHolder
  <2> QED
    BY <2>1, <2>2
<1>7. ASSUME NoOrphanProcess
      PROVE  NoOrphanProcess'
  <2> SUFFICES ASSUME NEW p \in live'
               PROVE  \/ Holds(lm', p)
                      \/ p \in Owed(lm')
                      \/ \E r \in Slot : InPhase(r, "spawned")' /\ request'[r].proof = p
    BY DEF NoOrphanProcess
  <2>1. p \in live /\ (p \in Owed(lm) => p \in Owed(lm'))
    BY <1>2 DEF Owed
  <2>2. Holds(lm, p) => Holds(lm', p)
    BY <1>2 DEF SameHolder, Holds
  <2> QED
    BY <1>1, <1>7, <2>1, <2>2 DEF NoOrphanProcess, InPhase
<1> QED
  BY <1>1, <1>2, <1>3, <1>5, <1>6, <1>7 DEF IInv, TypeOK, ProofsIssued, SameHolder

(* What the settlement of a job does to the calls that wait.               *)
LEMMA AfterJobCall ==
    ASSUME NEW call, CallOK(call)
    PROVE  /\ CallOK(AfterJob(call))
           /\ call.phase = "spawned" => AfterJob(call) = call
           /\ AfterJob(call).phase \in {"running", "spawned"} => AfterJob(call) = call
<1>1. CallOK(Idle) /\ Idle.phase = "idle"
  BY CallFields
<1>2. call \in Call /\ call.ahead \in Nat
  BY DEF CallOK, Call
<1>3. CASE call.phase = "awaiting" /\ call.ahead > 1
  <2>1. AfterJob(call) = [call EXCEPT !.ahead = call.ahead - 1] /\ call.ahead - 1 \in Nat
    BY <1>2, <1>3 DEF AfterJob
  <2> QED
    BY <1>2, <1>3, <2>1 DEF CallOK, Call
<1>4. CASE call.phase = "awaiting" /\ call.ahead = 1
  <2>1. AfterJob(call) = Idle \/ AfterJob(call) = [call EXCEPT !.ahead = 0]
    BY <1>2, <1>4 DEF AfterJob
  <2> QED
    BY <1>1, <1>2, <1>4, <2>1 DEF CallOK, Call
<1>5. CASE call.phase = "observing" /\ gateway.resetting = 1
  <2> DEFINE phase == IF call.ahead = 1 THEN "routed" ELSE call.phase
  <2>1. \/ AfterJob(call) = Idle
        \/ AfterJob(call) = [call EXCEPT !.ahead = call.ahead - 1, !.phase = phase]
    BY <1>2, <1>5 DEF AfterJob, Call
  <2>2. /\ call.ahead > 0 /\ call.ahead - 1 \in Nat /\ phase \in Phase /\ phase \notin {"running", "spawned"}
        /\ phase = "observing" => call.ahead - 1 > 0
    BY <1>2, <1>5 DEF CallOK, Phase
  <2> HIDE DEF phase
  <2> QED
    BY <1>1, <1>2, <1>5, <2>1, <2>2 DEF CallOK, Call
<1>6. CASE /\ ~(call.phase = "awaiting" /\ call.ahead > 1)
           /\ ~(call.phase = "awaiting" /\ call.ahead = 1)
           /\ ~(call.phase = "observing" /\ gateway.resetting = 1)
  BY <1>6 DEF AfterJob
<1> QED
  BY <1>3, <1>4, <1>5, <1>6

(* The settlement of a job.  When it is the one a transition awaits, no    *)
(* target is left in it: the publications are those of the new epoch.      *)
LEMMA SettleStep ==
    ASSUME IInv, SettleJob
    PROVE  IInv'
<1> DEFINE h == [lm EXCEPT !.running = FALSE]
<1>1. /\ ManagerInv(lm) /\ lm \in Manager /\ TypeOK /\ lm.running /\ lm.todo = {}
      /\ lm' = JobSettled(lm) /\ UNCHANGED <<sender, live, previews>>
      /\ gateway' = GatewayAfterJob /\ request' = [r \in Slot |-> AfterJob(request[r])]
  BY DEF IInv, ManagerInv, SettleJob
<1>2. /\ ManagerInv(lm') /\ Awake(lm') /\ lm' \in Manager
      /\ h \in Manager /\ SameHolder(lm, h) /\ Owed(h) = Owed(lm)
      /\ h.queue = lm.queue /\ ~h.running
      /\ Advances(h, lm') /\ lm'.epoch = h.epoch
  BY <1>1, JobSettledKeeps DEF ManagerInv, Moves
<1> HIDE DEF h
<1>3. /\ lm'.epoch = lm.epoch /\ ~lm'.running
      /\ LeaseTargets(lm) \subseteq LeaseTargets(lm') \cup Owed(lm')
      /\ Owed(lm) \subseteq Owed(lm')
      /\ Len(lm.queue) <= Len(lm'.queue)
      /\ \A i \in 1..Len(lm.queue) : lm'.queue[i] = lm.queue[i]
  BY <1>2, OwedGrows DEF Advances, Handed, Extends, SameHolder, LeaseTargets
<1>4. AllCurrent => AllCurrent'
  BY <1>1, <1>3 DEF AllCurrent
<1>5. gateway \in Gateway /\ (gateway.resetting # 0 => gateway.resetting - 1 \in Nat)
  BY <1>1 DEF TypeOK, Gateway
<1>6. /\ gateway' \in Gateway
      /\ gateway.resetting \in {0, 1} => gateway'.resetting = 0
      /\ gateway.resetting \notin {0, 1} => gateway'.resetting = gateway.resetting - 1
  <2>1. CASE gateway.resetting = 0
    BY <1>1, <1>5, <2>1 DEF GatewayAfterJob
  <2>2. CASE gateway.resetting = 1 /\ lm.failed # {}
    <3>1. gateway' = [gateway EXCEPT !.resets = 0, !.resetting = 0, !.broken = TRUE]
      BY <1>1, <2>2 DEF GatewayAfterJob
    <3> QED
      BY <1>5, <2>2, <3>1 DEF Gateway
  <2>3. CASE gateway.resetting # 0 /\ ~(gateway.resetting = 1 /\ lm.failed # {})
    <3>1. gateway' = [gateway EXCEPT !.resetting = gateway.resetting - 1]
      BY <1>1, <2>3 DEF GatewayAfterJob
    <3> QED
      BY <1>5, <2>3, <3>1 DEF Gateway
  <2> QED
    BY <2>1, <2>2, <2>3
<1>7. gateway.resetting \in {0, 1} => AllCurrent
  <2>1. gateway.resetting = 1 => NthJob(lm, gateway.resetting) = {}
    BY <1>1 DEF NthJob
  <2> QED
    BY <2>1 DEF IInv, PurgeAhead, Cleared, Settled, AllCurrent
<1>8. ASSUME gateway.resetting \notin {0, 1}
      PROVE  /\ gateway'.resetting <= JobsAhead(lm')
             /\ NthJob(lm', gateway'.resetting) = NthJob(lm, gateway.resetting)
  <2> DEFINE n == gateway.resetting
  <2>1. n \in Nat \ {0, 1} /\ n <= JobsAhead(lm)
    BY <1>5, <1>8 DEF IInv, PurgeAhead, Gateway
  <2>2. n - 1 \in 1..Len(lm.queue)
    BY <1>1, <2>1, JobsAheadType
  <2>3. lm'.queue[n - 1] = lm.queue[n - 1] /\ n - 1 <= JobsAhead(lm')
    BY <1>1, <1>2, <1>3, <2>2, JobsAheadType
  <2> QED
    BY <1>1, <1>3, <1>6, <1>8, <2>1, <2>3 DEF NthJob
<1>9. Cleared' /\ InOrder' /\ PurgeAhead'
  <2>1. CASE gateway.resetting \in {0, 1}
    BY <1>1, <1>4, <1>6, <1>7, <2>1 DEF IInv, Cleared, Settled, InOrder, PurgeAhead
  <2>2. CASE gateway.resetting \notin {0, 1}
    <3>1. gateway.resetting > 0 /\ gateway'.resetting # 0
      BY <1>5, <1>6, <2>2 DEF Gateway
    <3> QED
      BY <1>1, <1>3, <1>4, <1>8, <2>2, <3>1
         DEF IInv, Cleared, Settled, InOrder, PurgeAhead, Purges
  <2> QED
    BY <2>1, <2>2
<1>10. \A r \in Slot :
         /\ CallOK(request'[r])
         /\ request[r].phase = "spawned" => request'[r] = request[r]
         /\ request'[r].phase \in {"running", "spawned"} => request'[r] = request[r]
  BY <1>1, AfterJobCall DEF IInv
<1>11. request' \in [Slot -> Call]
  BY <1>1, <1>10 DEF CallOK
<1>12. NoOrphanProcess => NoOrphanProcess'
  BY <1>1, <1>2, <1>3, <1>10, ProcessesKept DEF InPhase
<1>13. ProofsIssued'
  BY <1>2, <1>10 DEF IInv, ProofsIssued, Advances, NoRevival, SameHolder
<1> QED
  BY <1>1, <1>2, <1>6, <1>9, <1>10, <1>11, <1>12, <1>13 DEF IInv, TypeOK

(* Every step keeps the invariant.                                         *)
LEMMA NextStep == IInv /\ [Next]_vars => IInv'
<1> SUFFICES ASSUME IInv, [Next]_vars PROVE IInv'
  OBVIOUS
<1>1. CASE NewGateway \/ Expire \/ \E r \in Slot, kind \in Kind : Send(r, kind)
  BY <1>1, OutsideStep
<1>2. CASE \E r \in Slot : Serve(r)
  BY <1>2, ServeStep
<1>3. CASE BeginReset
  BY <1>3, ResetStep
<1>4. CASE Job
  BY <1>4, BeginStep, HandlerStep, SettleStep DEF Job
<1>5. CASE UNCHANGED vars
  <2>1. Moves(lm, lm) /\ Awake(lm)
    BY FieldsMove DEF IInv
  <2>2. sender \in 1..MaxGateway
    BY DEF IInv, TypeOK
  <2> QED
    BY <1>5, <2>1, <2>2, MethodStep DEF vars
<1> QED
  BY <1>1, <1>2, <1>3, <1>4, <1>5 DEF Next

(* The invariant holds in every behaviour of the specification.            *)
LEMMA Inductive == Spec => []IInv
<1>1. Init => IInv
  BY InitInv
<1>2. IInv /\ [Next]_vars => IInv'
  BY NextStep
<1> QED
  BY <1>1, <1>2, PTL DEF Spec

-----------------------------------------------------------------------------
(* The properties of module ControlService.                                *)

(* The records of the requests, the transition and the publications keep   *)
(* their types, whatever the order of arrivals and settlements.            *)
THEOREM TypeCorrect == Spec => []TypeOK
<1>1. IInv => TypeOK
  BY DEF IInv
<1> QED
  BY <1>1, Inductive, PTL

(* Where only the compatibility route can lose the runner's response, each *)
(* session process is its owner's, or the handler that ends it is owed:    *)
(* the check after the call and revokeAgentControlFor() leave no orphan.   *)
THEOREM NoOrphans ==
    ASSUME "exec" \notin LosesResponse
    PROVE  Spec => []NoOrphanProcess
<1>1. IInv => NoOrphanProcess
  BY DEF IInv
<1> QED
  BY <1>1, Inductive, PTL

(* resetEpoch() is over only after the job it enqueued, and a handler call *)
(* of that job has cleared the publications, even if it threw: what is left *)
(* of an older epoch was registered since, by a call that crossed it.      *)
THEOREM PublicationsRevoked == Spec => []OnlyLateOnesLeft
<1>1. IInv => OnlyLateOnesLeft
  <2> SUFFICES ASSUME IInv, Settled, NEW v \in previews, v.of # lm.epoch
               PROVE  v.of < v.at /\ v.at = lm.epoch
    BY DEF OnlyLateOnesLeft
  <2>1. v.at = lm.epoch /\ v.of <= v.at
    BY DEF IInv, Cleared, AllCurrent, InOrder
  <2>2. v.of \in Nat /\ v.at \in Nat
    BY DEF IInv, TypeOK, Publication
  <2> QED
    BY <2>1, <2>2
<1> QED
  BY <1>1, Inductive, PTL
=============================================================================
