---------------------------- MODULE ViewerControl ----------------------------
(***************************************************************************)
(* Human control of one computer as the gateway sees it                    *)
(* (packages/gateway/src/server.ts): viewer sessions, their WebSockets,    *)
(* the queue of control transitions, and the release of abandoned control  *)
(* after a grace period.  The fence itself, which keeps agents away, is at *)
(* the computer's control service; each transition changes it by a request *)
(* whose answer may be lost.                                               *)
(***************************************************************************)
EXTENDS Naturals, Sequences

CONSTANTS
    Session,        \* viewer sessions, each opened at most once
    Socket,         \* WebSocket connections; one is taken again once closed
    NoSession,
    LosesAnswer,    \* the requests whose answer may be lost
    MaxQueue        \* bound: no request at this many transitions, no timer beyond

Requests == {"take", "release", "operator", "abandoned", "restore"}

ASSUME ViewerAssumption ==
    /\ NoSession \notin Session
    /\ LosesAnswer \subseteq Requests
    /\ MaxQueue \in Nat

VARIABLES
    gw,            \* the gateway's sessions, sockets and timers
    transitions,   \* the control transitions, the first of them in execution
    human,         \* whether the control service is under human control
    late,          \* requests the control service has yet to execute
    mishap         \* history: why the fence may be up without an owner

vars == <<gw, transitions, human, late, mishap>>

(***************************************************************************)
(* A session ends 12 h after its last use ("expired") or when its          *)
(* credential is revoked, and leaves the gateway's map when it is pruned   *)
(* ("deleted").                                                            *)
(***************************************************************************)
SessionState ==
    [status : {"unopened", "valid", "expired", "revoked", "deleted"}, controlling : BOOLEAN]

(***************************************************************************)
(* A socket waits for the transitions, connects to the viewer and is then  *)
(* piped ("ready").  A destroyed or refused socket has still to be closed. *)
(***************************************************************************)
SocketState ==
    [state : {"none", "waiting", "connecting", "ready", "destroyed"},
     of : Session \cup {NoSession}, controlling : BOOLEAN, paused : BOOLEAN]

Gateway ==
    [session : [Session -> SessionState], socket : [Socket -> SocketState],
     timers : SUBSET Session]

Transition ==
    [kind : {"take", "release", "operator", "abandoned"}, session : Session \cup {NoSession},
     phase : {"queued", "calling", "succeeded", "failed", "settling"},
     call : {"take", "release"}]

TypeOK ==
    /\ gw \in Gateway
    /\ transitions \in Seq(Transition)
    /\ human \in BOOLEAN
    /\ late \subseteq {"take", "release"}
    /\ mishap \in BOOLEAN
    /\ \A k \in Socket : gw.socket[k].state = "none" <=> gw.socket[k].of = NoSession
    /\ gw.timers \subseteq {s \in Session : gw.session[s].controlling}

NoSocket == [state |-> "none", of |-> NoSession, controlling |-> FALSE, paused |-> FALSE]

Init ==
    /\ gw = [session |-> [s \in Session |-> [status |-> "unopened", controlling |-> FALSE]],
             socket |-> [k \in Socket |-> NoSocket],
             timers |-> {}]
    /\ transitions = <<>>
    /\ human = FALSE
    /\ late = {}
    /\ mishap = FALSE

-----------------------------------------------------------------------------
(* What the methods of the gateway do to its state.                        *)

\* validViewSession(), after its prune.
Valid(g, s) == g.session[s].status = "valid"

\* The session is in the map and the route still accepts its credential.
Accepted(g, s) == g.session[s].status \in {"valid", "expired"}

Controls(g, s) == g.session[s].controlling

HasControllingSocket(g, s) ==
    \E k \in Socket : /\ g.socket[k].of = s
                      /\ g.socket[k].controlling
                      /\ g.socket[k].state # "destroyed"

Disarmed(g, s) == [g EXCEPT !.timers = @ \ {s}]

Armed(g, s) ==
    IF HasControllingSocket(g, s) THEN Disarmed(g, s) ELSE [g EXCEPT !.timers = @ \cup {s}]

\* Definitions named ..._Bug are mutated forms of the definition they precede: the
\* properties are checked to notice the difference.
Destroyed_Bug(g, K) == g

\* closeViewerSockets(); the close events come later.
Destroyed(g, K) ==
    [g EXCEPT !.socket = [k \in Socket |->
        IF k \in K /\ @[k].state # "none" THEN [@[k] EXCEPT !.state = "destroyed", !.paused = TRUE] ELSE @[k]]]

SocketsOf(g, S) == {k \in Socket : g.socket[k].of \in S}

Pruned_Bug(g) ==
    LET ended == {s \in Session : g.session[s].status \in {"expired", "revoked"}}
    IN  [Destroyed(g, SocketsOf(g, ended)) EXCEPT
            !.session = [s \in Session |->
                IF s \in ended THEN [status |-> "deleted", controlling |-> FALSE] ELSE @[s]],
            !.timers = @ \ ended]

(***************************************************************************)
(* pruneExpired(): a controlling session that has expired stays, without   *)
(* its sockets, until its control is released.                             *)
(***************************************************************************)
Pruned(g) ==
    LET ended == {s \in Session : g.session[s].status \in {"expired", "revoked"}}
        kept  == {s \in ended : Controls(g, s) /\ Accepted(g, s)}
        h     == Destroyed(g, SocketsOf(g, ended))
    IN  [h EXCEPT !.session = [s \in Session |->
                      IF s \in ended \ kept
                      THEN [status |-> "deleted", controlling |-> FALSE] ELSE @[s]],
                  !.timers = (@ \ ended) \cup kept]

SetController_Bug(g, c) ==
    LET owner  == IF c = NoSession THEN {} ELSE {s \in {c} : g.session[s].status # "deleted"}
        losers == {s \in Session \ owner : Controls(g, s)}
        h      == Destroyed(g, {k \in SocketsOf(g, losers) : g.socket[k].controlling})
    IN  [h EXCEPT !.session = [s \in Session |-> [@[s] EXCEPT !.controlling = s \in owner]],
                  !.timers = @ \cup {s \in owner : ~HasControllingSocket(h, s)}]

(***************************************************************************)
(* setControllingSession(): the controlling sockets of the previous owner  *)
(* are destroyed, and the new owner has the grace period to connect.       *)
(***************************************************************************)
SetController(g, c) ==
    LET owner  == IF c = NoSession THEN {} ELSE {s \in {c} : g.session[s].status # "deleted"}
        losers == {s \in Session \ owner : Controls(g, s)}
        h      == Destroyed(g, {k \in SocketsOf(g, losers) : g.socket[k].controlling})
    IN  [h EXCEPT !.session = [s \in Session |-> [@[s] EXCEPT !.controlling = s \in owner]],
                  !.timers = {s \in owner : ~HasControllingSocket(h, s)}]

SetPaused(g, K, paused) ==
    [g EXCEPT !.socket = [k \in Socket |->
        IF k \in K THEN [@[k] EXCEPT !.paused = paused] ELSE @[k]]]

\* A transition begins: no input of a controlling viewer is forwarded.
Pause(g) == SetPaused(g, {k \in Socket : g.socket[k].controlling}, TRUE)

\* It is over: the owner's sockets go on.
Resume(g) ==
    SetPaused(g, {k \in Socket : /\ g.socket[k].controlling
                                 /\ g.socket[k].state = "ready"
                                 /\ Controls(g, g.socket[k].of)}, FALSE)

-----------------------------------------------------------------------------
(* Sessions.                                                               *)

\* A ticket is exchanged for a session.
Open(s) ==
    /\ gw.session[s].status = "unopened"
    /\ gw' = [gw EXCEPT !.session[s].status = "valid"]
    /\ UNCHANGED <<transitions, human, late, mishap>>

InExecution == transitions # <<>> /\ Head(transitions).phase # "queued"

\* 12 h without a request.  A take or release in execution began with one.
Expire(s) ==
    /\ Valid(gw, s)
    /\ InExecution => Head(transitions).session # s \/ Head(transitions).kind = "abandoned"
    /\ gw' = [gw EXCEPT !.session[s].status = "expired"]
    /\ UNCHANGED <<transitions, human, late, mishap>>

\* The routes no longer accept the credential the session was opened with.
Revoke(s) ==
    /\ Accepted(gw, s)
    /\ gw' = [gw EXCEPT !.session[s].status = "revoked"]
    /\ mishap' = (mishap \/ human \/ InExecution)
    /\ UNCHANGED <<transitions, human, late>>

\* maintainRuntimeState(), and the prune in every request of a session.
Prune ==
    /\ gw' = Pruned(gw)
    /\ UNCHANGED <<transitions, human, late, mishap>>

-----------------------------------------------------------------------------
(* The queue of transitions (serializeControlTransition).                  *)

Queued(kind, s) ==
    [kind |-> kind, session |-> s, phase |-> "queued",
     call |-> IF kind = "take" THEN "take" ELSE "release"]

Request(s, kind) ==
    /\ Len(transitions) < MaxQueue
    /\ Valid(gw, s)
    /\ gw' = Pruned(gw)
    /\ transitions' = Append(transitions, Queued(kind, s))
    /\ UNCHANGED <<human, late, mishap>>

OperatorRelease ==
    /\ Len(transitions) < MaxQueue
    /\ transitions' = Append(transitions, Queued("operator", NoSession))
    /\ UNCHANGED <<gw, human, late, mishap>>

\* The grace period of an abandoned session has passed.
GraceOver(s) ==
    /\ s \in gw.timers
    /\ Len(transitions) <= MaxQueue
    /\ gw' = Disarmed(gw, s)
    /\ transitions' = Append(transitions, Queued("abandoned", s))
    /\ UNCHANGED <<human, late, mishap>>

Current(kinds, phase) ==
    /\ transitions # <<>>
    /\ Head(transitions).kind \in kinds
    /\ Head(transitions).phase = phase

Enter(phase) == transitions' = [transitions EXCEPT ![1].phase = phase]

\* The response is gone: the client no longer waits.
Abort ==
    /\ Current({"take", "release", "operator"}, "queued")
    /\ gw' = Pause(gw)
    /\ Enter("settling")
    /\ UNCHANGED <<human, late, mishap>>

\* One session controls the computer, and only it releases it.
MayTransition(g, t) ==
    /\ Valid(g, t.session)
    /\ IF t.kind = "take"
       THEN \A s \in Session : Controls(g, s) => s = t.session
       ELSE Controls(g, t.session)

BeginRequest ==
    LET g == Pruned(Pause(gw)) IN
    /\ Current({"take", "release"}, "queued")
    /\ gw' = g
    /\ Enter(IF MayTransition(g, Head(transitions)) THEN "calling" ELSE "settling")
    /\ UNCHANGED <<human, late, mishap>>

BeginOperator ==
    /\ Current({"operator"}, "queued")
    /\ gw' = Pause(gw)
    /\ Enter("calling")
    /\ UNCHANGED <<human, late, mishap>>

\* releaseAbandonedControl() up to its request.
BeginAbandoned ==
    LET g == Pause(gw)
        s == Head(transitions).session
    IN
    /\ Current({"abandoned"}, "queued")
    /\ CASE ~Controls(g, s) \/ HasControllingSocket(g, s) ->
                gw' = g /\ Enter("settling")
         [] Controls(g, s) /\ ~HasControllingSocket(g, s) /\ ~Accepted(g, s) ->
                gw' = SetController(g, NoSession) /\ Enter("settling")
         [] OTHER -> gw' = g /\ Enter("calling")
    /\ UNCHANGED <<human, late, mishap>>

-----------------------------------------------------------------------------
(* The request to the control service.                                     *)

Calling(call) ==
    /\ transitions # <<>>
    /\ Head(transitions).phase = "calling"
    /\ Head(transitions).call = call

RequestOf(t) == IF t.kind = "abandoned" /\ t.call = "take" THEN "restore" ELSE t.kind

\* The fence is down: whatever happened to it is history.
SetHuman(value, mistake) ==
    /\ human' = value
    /\ mishap' = IF value THEN mishap \/ mistake ELSE FALSE

Take ==
    /\ Calling("take")
    /\ SetHuman(TRUE, FALSE)
    /\ Enter("succeeded")
    /\ UNCHANGED <<gw, late>>

\* The service takes control and answers that the agent could not be fenced.
TakeFails ==
    /\ Calling("take")
    /\ SetHuman(TRUE, TRUE)
    /\ Enter("failed")
    /\ UNCHANGED <<gw, late>>

Release ==
    /\ Calling("release")
    /\ SetHuman(FALSE, FALSE)
    /\ Enter("succeeded")
    /\ UNCHANGED <<gw, late>>

\* The request does not reach the service.
Unreachable ==
    /\ \E call \in {"take", "release"} : Calling(call)
    /\ mishap' = (mishap \/ (human /\ RequestOf(Head(transitions)) = "restore"))
    /\ Enter("failed")
    /\ UNCHANGED <<gw, human, late>>

\* The gateway gives up; the service has executed the request, or will.
AnswerLost(call) ==
    /\ Calling(call)
    /\ RequestOf(Head(transitions)) \in LosesAnswer
    /\ \/ SetHuman(call = "take", TRUE) /\ UNCHANGED late
       \/ /\ late' = late \cup {call}
          /\ mishap' = (mishap \/ call = "take")
          /\ UNCHANGED human
    /\ Enter("failed")
    /\ UNCHANGED gw

ExecuteLate(call) ==
    /\ call \in late
    /\ late' = late \ {call}
    /\ SetHuman(call = "take", TRUE)
    /\ UNCHANGED <<gw, transitions>>

-----------------------------------------------------------------------------
(* The answer.                                                             *)

Answered ==
    LET t == Head(transitions) IN
    /\ Current({"take", "release", "operator"}, "succeeded")
    /\ gw' = SetController(gw, IF t.kind = "take" THEN t.session ELSE NoSession)
    /\ Enter("settling")
    /\ UNCHANGED <<human, late, mishap>>

Refused ==
    /\ Current({"take", "release", "operator"}, "failed")
    /\ Enter("settling")
    /\ UNCHANGED <<gw, human, late, mishap>>

\* releaseAbandonedControl() after its release.  A viewer that has connected
\* again keeps control, once the fence is restored.
Released_Bug(t) ==
    IF Controls(gw, t.session) /\ HasControllingSocket(gw, t.session)
    THEN Enter("settling") /\ UNCHANGED gw
    ELSE Enter("settling") /\ gw' = SetController(gw, NoSession)

Released(t) ==
    LET s         == t.session
        connected == HasControllingSocket(gw, s)
    IN
    CASE ~Controls(gw, s) -> Enter("settling") /\ UNCHANGED gw
      [] Controls(gw, s) /\ connected /\ Accepted(gw, s) ->
            /\ transitions' = [transitions EXCEPT ![1].phase = "calling", ![1].call = "take"]
            /\ UNCHANGED gw
      [] Controls(gw, s) /\ ~connected /\ t.phase = "failed" ->
            Enter("settling") /\ gw' = Armed(gw, s)
      [] OTHER -> Enter("settling") /\ gw' = SetController(gw, NoSession)

AbandonedReleased ==
    /\ \E phase \in {"succeeded", "failed"} : Current({"abandoned"}, phase)
    /\ Head(transitions).call = "release"
    /\ Released(Head(transitions))
    /\ UNCHANGED <<human, late, mishap>>

AbandonedRestored ==
    LET t == Head(transitions)
        s == t.session
    IN
    /\ \E phase \in {"succeeded", "failed"} : Current({"abandoned"}, phase)
    /\ t.call = "take"
    /\ gw' = CASE t.phase = "failed" \/ ~Controls(gw, s) -> SetController(gw, NoSession)
               [] t.phase = "succeeded" /\ Controls(gw, s) /\ HasControllingSocket(gw, s) -> gw
               [] OTHER -> Armed(gw, s)
    /\ Enter("settling")
    /\ UNCHANGED <<human, late, mishap>>

Settle ==
    /\ transitions # <<>>
    /\ Head(transitions).phase = "settling"
    /\ gw' = Resume(gw)
    /\ transitions' = Tail(transitions)
    /\ UNCHANGED <<human, late, mishap>>

-----------------------------------------------------------------------------
(* Viewer sockets.                                                         *)

\* upgrade(): the socket counts from now on, and is paused.
Upgrade(k, s) ==
    LET g == Pruned(gw) IN
    /\ gw.socket[k].state = "none"
    /\ Valid(gw, s)
    /\ gw' = [IF Controls(g, s) THEN Disarmed(g, s) ELSE g EXCEPT !.socket[k] =
                 [state |-> "waiting", of |-> s, controlling |-> Controls(g, s), paused |-> TRUE]]
    /\ UNCHANGED <<transitions, human, late, mishap>>

InState(k, state) == gw.socket[k].state = state

\* connectViewerAfterTransitions(): the viewer port is chosen by ownership.
Connect(k) ==
    LET g == Pruned(gw)
        s == gw.socket[k].of
    IN
    /\ InState(k, "waiting")
    /\ transitions = <<>>
    /\ gw' = IF Valid(g, s)
             THEN [g EXCEPT !.socket[k].state = "connecting",
                            !.socket[k].controlling = Controls(g, s)]
             ELSE g
    /\ UNCHANGED <<transitions, human, late, mishap>>

\* The viewer has accepted the connection: ownership is looked at again.
Connected(k) ==
    LET g == Pruned(gw)
        s == gw.socket[k].of
    IN
    /\ InState(k, "connecting")
    /\ transitions = <<>>
    /\ gw' = CASE ~Valid(g, s) -> g
               [] Valid(g, s) /\ Controls(g, s) # g.socket[k].controlling -> Destroyed(g, {k})
               [] OTHER -> [g EXCEPT !.socket[k].state = "ready", !.socket[k].paused = FALSE]
    /\ UNCHANGED <<transitions, human, late, mishap>>

Close_Bug(k) ==
    LET s == gw.socket[k].of
        g == IF gw.socket[k].controlling /\ Controls(gw, s) THEN Armed(gw, s) ELSE gw
    IN
    /\ ~InState(k, "none")
    /\ gw' = [g EXCEPT !.socket[k] = NoSocket]
    /\ UNCHANGED <<transitions, human, late, mishap>>

\* The close event, of the viewer's end, of an error or of a destroyed socket.
Close(k) ==
    LET s == gw.socket[k].of
        g == [gw EXCEPT !.socket[k] = NoSocket]
    IN
    /\ ~InState(k, "none")
    /\ gw' = IF gw.socket[k].controlling /\ Controls(g, s) THEN Armed(g, s) ELSE g
    /\ UNCHANGED <<transitions, human, late, mishap>>

-----------------------------------------------------------------------------
Begin == Abort \/ BeginRequest \/ BeginOperator \/ BeginAbandoned

Serve == Take \/ TakeFails \/ Release \/ Unreachable \/ \E call \in {"take", "release"} : AnswerLost(call)

Continue == Answered \/ Refused \/ AbandonedReleased \/ AbandonedRestored \/ Settle

Next ==
    \/ \E s \in Session :
          \/ Open(s) \/ Expire(s) \/ Revoke(s) \/ GraceOver(s)
          \/ \E kind \in {"take", "release"} : Request(s, kind)
          \/ \E k \in Socket : Upgrade(k, s)
    \/ Prune \/ OperatorRelease
    \/ Begin \/ Serve \/ Continue
    \/ \E call \in late : ExecuteLate(call)
    \/ \E k \in Socket : Connect(k) \/ Connected(k) \/ Close(k)

Spec == Init /\ [][Next]_vars

-----------------------------------------------------------------------------
\* The viewer's input reaches the desktop.
Forwards(k) ==
    gw.socket[k].state = "ready" /\ gw.socket[k].controlling /\ ~gw.socket[k].paused

(* The input of a controlling viewer is forwarded only while the fence is  *)
(* up, also when it connects again during an automatic release             *)
(* (docs/daily-driver.md:38).                                              *)
InputFenced == \A k \in Socket : Forwards(k) => human

(* A viewer forwards input only as long as its session is the owner.       *)
InputOfOwner == \A k \in Socket : Forwards(k) => Controls(gw, gw.socket[k].of)

Releasing(s) ==
    \E i \in 1..Len(transitions) : transitions[i].kind = "abandoned" /\ transitions[i].session = s

(* An owner without a viewer is on its way out: its grace period runs, its *)
(* release is queued, or the close event of its viewer is still to come.   *)
AbandonmentNoticed ==
    \A s \in Session : Controls(gw, s) =>
        \/ HasControllingSocket(gw, s)
        \/ s \in gw.timers
        \/ Releasing(s)
        \/ \E k \in SocketsOf(gw, {s}) : gw.socket[k].controlling /\ InState(k, "destroyed")

(* Agents are kept away only for an owner or a transition, unless a        *)
(* request for the fence failed or was lost, or the owner's credential was *)
(* revoked.                                                                *)
NoStrandedFence ==
    human => mishap \/ transitions # <<>> \/ \E s \in Session : Controls(gw, s)

=============================================================================
