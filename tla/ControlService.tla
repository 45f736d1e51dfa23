--------------------------- MODULE ControlService ---------------------------
(***************************************************************************)
(* The control service of one computer (packages/control/src/server.ts and *)
(* executor.ts) around its LeaseManager: every authenticated request first *)
(* observes the epoch of the gateway that sent it, tool calls run in the   *)
(* isolated command runner while ownership changes, and the revocation     *)
(* handler ends the session processes of a revoked owner.                  *)
(***************************************************************************)
EXTENDS LeaseManager

CONSTANTS
    Slot,             \* requests in progress at the same time
    Kind,             \* the kinds of request that are sent
    LosesResponse,    \* the kinds whose runner response may be lost
    HandlerMayFail,   \* whether a revocation handler may throw
    MaxGateway,       \* bound: gateways started, one after the other
    MaxGeneration     \* bound: no new request at this generation

Kinds == {"acquire", "release", "exec", "compatExec", "publish", "take", "humanRelease"}

ASSUME KindAssumption == Kind \subseteq Kinds /\ LosesResponse \subseteq {"exec", "compatExec"}

ASSUME BoundsAssumption == MaxGateway \in Nat \ {0} /\ MaxGeneration \in Nat

VARIABLES
    lm,         \* the LeaseManager
    sender,     \* the gateway that sends requests now
    gateway,    \* gatewayEpoch and gatewayTransition of the ToolExecutor
    request,    \* the requests in progress
    live,       \* the owners with a running session process in the runner
    previews    \* the publications of the PreviewManager

vars == <<lm, sender, gateway, request, live, previews>>

(***************************************************************************)
(* gatewayTransition is a chain of resetEpoch() calls: resets have not     *)
(* begun, resetting counts the revocation jobs to settle until the one in  *)
(* execution ends (0: there is none), and broken says that one rejected:   *)
(* the rejected promise then stays in place.                               *)
(***************************************************************************)
Gateway == [epoch : 0..MaxGateway, resets : Nat, resetting : Nat, broken : BOOLEAN]

Phase == {"idle", "sent", "observing", "routed", "running", "spawned", "awaiting"}

NoProof == [epoch |-> 0, generation |-> 0]

\* ahead counts the resets ("observing") or the jobs ("awaiting") to wait for.
Call == [kind : Kinds, from : 0..MaxGateway, phase : Phase, proof : LeaseProof, ahead : Nat]

\* of: the epoch of the proof the call was admitted with; at: the epoch in
\* which the publication was registered (history).
Publication == [of : Nat, at : Nat]

TypeOK ==
    /\ lm \in Manager
    /\ sender \in 1..MaxGateway
    /\ gateway \in Gateway
    /\ request \in [Slot -> Call]
    /\ live \subseteq LeaseProof
    /\ previews \subseteq Publication

Idle == [kind |-> "acquire", from |-> 0, phase |-> "idle", proof |-> NoProof, ahead |-> 0]

Init ==
    /\ lm = NewManager
    /\ sender = 1
    /\ gateway = [epoch |-> 0, resets |-> 0, resetting |-> 0, broken |-> FALSE]
    /\ request = [r \in Slot |-> Idle]
    /\ live = {}
    /\ previews = {}

-----------------------------------------------------------------------------
(* A request arrives with the epoch header of the gateway that sent it,    *)
(* possibly after a newer gateway has taken over.                          *)

NewGateway ==
    /\ sender < MaxGateway
    /\ sender' = sender + 1
    /\ UNCHANGED <<lm, gateway, request, live, previews>>

Send(r, kind) ==
    /\ request[r].phase = "idle"
    /\ lm.generation < MaxGeneration
    /\ request' = [request EXCEPT ![r] =
           [Idle EXCEPT !.kind = kind, !.from = sender, !.phase = "sent"]]
    /\ UNCHANGED <<lm, sender, gateway, live, previews>>

InPhase(r, phase) == request[r].phase = phase

GoTo(r, phase) == request' = [request EXCEPT ![r].phase = phase]

Done(r) == request' = [request EXCEPT ![r] = Idle]

ResetsAhead(g) == g.resets + (IF g.resetting > 0 THEN 1 ELSE 0)

EpochObserved(g, epoch) ==
    IF epoch = g.epoch THEN g
    ELSE [g EXCEPT !.epoch = epoch,
                   !.resets = IF g.epoch # 0 /\ ~g.broken THEN @ + 1 ELSE @]

\* observeGatewayEpoch(): an error of the transition is the request's answer.
Arrive(r) ==
    /\ InPhase(r, "sent")
    /\ gateway' = EpochObserved(gateway, request[r].from)
    /\ CASE gateway.broken -> Done(r)
         [] ~gateway.broken /\ ResetsAhead(gateway') > 0 ->
                request' = [request EXCEPT ![r].phase = "observing",
                                           ![r].ahead = ResetsAhead(gateway')]
         [] OTHER -> GoTo(r, "routed")
    /\ UNCHANGED <<lm, sender, live, previews>>

BeginReset ==
    /\ gateway.resets > 0
    /\ gateway.resetting = 0
    /\ lm' = EpochReset(lm)
    /\ gateway' = [gateway EXCEPT !.resets = @ - 1, !.resetting = JobsAhead(lm')]
    /\ UNCHANGED <<sender, request, live, previews>>

-----------------------------------------------------------------------------
(* The routes.                                                             *)

Route(r, kind) ==
    /\ InPhase(r, "routed")
    /\ request[r].kind = kind
    /\ UNCHANGED <<sender, gateway, live>>

AcquireLease(r, c, d) ==
    /\ Route(r, "acquire")
    /\ lm' = Acquired(lm, c, d)
    /\ Done(r)
    /\ UNCHANGED previews

ReleaseLease(r, p) ==
    /\ Route(r, "release")
    /\ lm' = Released(lm, p)
    /\ Done(r)
    /\ UNCHANGED previews

\* executeCall() and compatibilityOperation() verify, then call out.
Dispatch(r, p) ==
    /\ \E kind \in {"exec", "compatExec", "publish"} : Route(r, kind)
    /\ lm' = Verified(lm, p, TRUE)
    /\ IF Holds(lm', p)
       THEN request' = [request EXCEPT ![r].phase = "running", ![r].proof = p]
       ELSE Done(r)
    /\ UNCHANGED previews

Spawn(r) ==
    /\ InPhase(r, "running")
    /\ request[r].kind \in {"exec", "compatExec"}
    /\ live' = live \cup {request[r].proof}
    /\ GoTo(r, "spawned")
    /\ UNCHANGED <<lm, sender, gateway, previews>>

\* The runner refuses (no capacity, no such directory): nothing was started.
RunnerRefuses(r) ==
    /\ InPhase(r, "running")
    /\ Done(r)
    /\ UNCHANGED <<lm, sender, gateway, live, previews>>

PostCall_Bug(r) ==
    /\ InPhase(r, "spawned")
    /\ lm' = ExpireIfNeeded(lm)
    /\ Done(r)
    /\ UNCHANGED <<sender, gateway, live, previews>>

\* The check after the call: a result that crossed an ownership change is
\* discarded, and what the call started is fenced under its own proof.
PostCall(r) ==
    LET s == ExpireIfNeeded(lm) IN
    /\ InPhase(r, "spawned")
    /\ lm' = IF Holds(s, request[r].proof) THEN s ELSE AgentRevokedFor(s, request[r].proof)
    /\ Done(r)
    /\ UNCHANGED <<sender, gateway, live, previews>>

\* Only the compatibility route treats a lost response as ambiguous.
LoseResponse(r) ==
    /\ InPhase(r, "spawned")
    /\ request[r].kind \in LosesResponse
    /\ lm' = IF request[r].kind = "compatExec"
             THEN AgentRevokedFor(lm, request[r].proof)
             ELSE lm
    /\ Done(r)
    /\ UNCHANGED <<sender, gateway, live, previews>>

\* publish() registers the port once the listeners are known, and nothing
\* checks the proof again after that await.  (With openInBrowser the call is
\* checked after it, and takes its publication back: that is not modelled.)
Publish(r) ==
    /\ InPhase(r, "running")
    /\ request[r].kind = "publish"
    /\ previews' = previews \cup {[of |-> request[r].proof.epoch, at |-> lm.epoch]}
    /\ Done(r)
    /\ UNCHANGED <<lm, sender, gateway, live>>

TakeHumanControl(r) ==
    /\ Route(r, "take")
    /\ CASE ~lm.human -> lm' = HumanTaken(lm) /\ Done(r)
         [] lm.human /\ Revoking(lm) ->
                /\ request' = [request EXCEPT ![r].phase = "awaiting",
                                              ![r].ahead = JobsAhead(lm)]
                /\ UNCHANGED lm
         [] OTHER -> /\ lm' = IF lm.failed # {} THEN EnqueueRevocations(lm, {}) ELSE lm
                     /\ Done(r)
    /\ UNCHANGED previews

\* The takeover that waited for the jobs there were (ahead = 0: it need not).
ResumeTakeover(r) ==
    /\ InPhase(r, "awaiting")
    /\ request[r].ahead = 0
    /\ lm' = IF lm.failed # {} THEN EnqueueRevocations(lm, {}) ELSE lm
    /\ Done(r)
    /\ UNCHANGED <<sender, gateway, live, previews>>

ReleaseHumanControl(r) ==
    /\ Route(r, "humanRelease")
    /\ lm' = HumanReleased(lm)
    /\ Done(r)
    /\ UNCHANGED previews

-----------------------------------------------------------------------------
(* The lease timer and the revocation jobs with the executor's handler.    *)

Expire ==
    /\ lm.lease # NoLease
    /\ lm' = ExpireIfNeeded([lm EXCEPT !.lease = [@ EXCEPT !.expiresIn = 0]])
    /\ UNCHANGED <<sender, gateway, request, live, previews>>

BeginJob ==
    /\ ~lm.running
    /\ lm.queue # <<>>
    /\ lm' = JobBegun(lm)
    /\ UNCHANGED <<sender, gateway, request, live, previews>>

AfterHandler_Bug(target) ==
    /\ previews' = IF target = WithoutProof THEN {} ELSE previews
    /\ UNCHANGED <<sender, gateway, request>>

\* The handler's finally clause, with or without an error.
AfterHandler(target) ==
    /\ previews' = IF target = WithoutProof \/ target.epoch # lm.epoch THEN {} ELSE previews
    /\ UNCHANGED <<sender, gateway, request>>

HandlerSucceeds(target) ==
    /\ lm' = HandlerSucceeded(lm, target)
    /\ live' = live \ {target}
    /\ AfterHandler(target)

HandlerFails(target) ==
    /\ HandlerMayFail
    /\ lm' = HandlerFailed(lm, target)
    /\ AfterHandler(target)
    /\ UNCHANGED live

\* What the settlement of the job does to the calls that await it, or the
\* epoch reset that does.
AfterJob(call) ==
    CASE call.phase = "awaiting" /\ call.ahead > 1 -> [call EXCEPT !.ahead = @ - 1]
      [] call.phase = "awaiting" /\ call.ahead = 1 ->
            IF lm.failed = {} THEN [call EXCEPT !.ahead = 0] ELSE Idle
      [] call.phase = "observing" /\ gateway.resetting = 1 ->
            IF lm.failed # {} THEN Idle
            ELSE [call EXCEPT !.ahead = @ - 1,
                              !.phase = IF call.ahead = 1 THEN "routed" ELSE @]
      [] OTHER -> call

GatewayAfterJob ==
    CASE gateway.resetting = 0 -> gateway
      [] gateway.resetting = 1 /\ lm.failed # {} ->
            [gateway EXCEPT !.resets = 0, !.resetting = 0, !.broken = TRUE]
      [] OTHER -> [gateway EXCEPT !.resetting = @ - 1]

SettleJob ==
    /\ lm.running
    /\ lm.todo = {}
    /\ lm' = JobSettled(lm)
    /\ gateway' = GatewayAfterJob
    /\ request' = [r \in Slot |-> AfterJob(request[r])]
    /\ UNCHANGED <<sender, live, previews>>

-----------------------------------------------------------------------------
Job == BeginJob \/ SettleJob \/ \E t \in lm.todo : HandlerSucceeds(t) \/ HandlerFails(t)

\* What the process does with a request it has received, whatever others do.
Serve(r) ==
    \/ Arrive(r)
    \/ \E c \in Client, d \in Duration : AcquireLease(r, c, d)
    \/ \E p \in lm.issued : ReleaseLease(r, p) \/ Dispatch(r, p)
    \/ TakeHumanControl(r) \/ ResumeTakeover(r) \/ ReleaseHumanControl(r)
    \/ Spawn(r) \/ RunnerRefuses(r) \/ PostCall(r) \/ LoseResponse(r) \/ Publish(r)

Next ==
    \/ NewGateway
    \/ \E r \in Slot : (\E kind \in Kind : Send(r, kind)) \/ Serve(r)
    \/ BeginReset
    \/ Expire
    \/ Job

Spec == Init /\ [][Next]_vars

-----------------------------------------------------------------------------
(* A session process is left running only for the current owner, for one   *)
(* whose fencing is owed, or while the call that started it has still to   *)
(* make its check.                                                         *)
NoOrphanProcess ==
    \A p \in live :
        \/ Holds(lm, p)
        \/ p \in Owed(lm)
        \/ \E r \in Slot : InPhase(r, "spawned") /\ request[r].proof = p

Settled == gateway.resetting = 0

(* An epoch transition revokes every capability that was registered before *)
(* it, whether its fence failed or not: when it is over, a publication of  *)
(* an older epoch is left only of a call that crossed the transition, and  *)
(* the next transition revokes that one too.                               *)
OnlyLateOnesLeft ==
    Settled => \A v \in previews :
        v.of = lm.epoch \/ (v.of < v.at /\ v.at = lm.epoch)

(* Epoch changes revoke every capability, even if fencing fails            *)
(* (executor.ts:211): none of an older epoch is left when one is over.     *)
NoStalePublication == Settled => \A v \in previews : v.of = lm.epoch
=============================================================================
