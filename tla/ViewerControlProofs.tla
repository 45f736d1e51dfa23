-------------------------- MODULE ViewerControlProofs --------------------------
(***************************************************************************)
(* Proofs about module ViewerControl, for every number of sessions and     *)
(* sockets and every bound on the queue of transitions.                    *)
(***************************************************************************)
EXTENDS ViewerControl, TLAPS

(***************************************************************************)
(* The gateway's own state: who is not in the map controls nothing, and    *)
(* input is forwarded only for the owner.                                  *)
(***************************************************************************)
ForwardsIn(g, k) == g.socket[k].state = "ready" /\ g.socket[k].controlling /\ ~g.socket[k].paused

GatewayInv(g) ==
    /\ g \in Gateway
    /\ \A k \in Socket : g.socket[k].state = "none" <=> g.socket[k].of = NoSession
    /\ g.timers \subseteq {s \in Session : Controls(g, s)}
    /\ \A s \in Session : Controls(g, s) => g.session[s].status # "deleted"
    /\ \A k \in Socket : ForwardsIn(g, k) => Controls(g, g.socket[k].of)

(***************************************************************************)
(* An owner without a viewer is noticed: the sessions of R have a release  *)
(* that is queued or in execution, and has not been given up.              *)
(***************************************************************************)
DestroyedSocket(g, s) ==
    \E k \in Socket : /\ g.socket[k].of = s
                      /\ g.socket[k].controlling
                      /\ g.socket[k].state = "destroyed"

Noticed(g, R) ==
    \A s \in Session : Controls(g, s) =>
        HasControllingSocket(g, s) \/ s \in g.timers \/ s \in R \/ DestroyedSocket(g, s)

ReleasingNow(T) ==
    {T[i].session : i \in {j \in 1..Len(T) : T[j].kind = "abandoned" /\ T[j].phase # "settling"}}

(***************************************************************************)
(* The queue: only its first transition is in execution, and what it asks  *)
(* the control service for goes with its kind, except that the release of  *)
(* an abandoned control may be followed by a take.                         *)
(***************************************************************************)
CallOf(t) == IF t.kind = "take" THEN "take" ELSE "release"

QueueInv(T) ==
    /\ T \in Seq(Transition)
    /\ \A i \in 1..Len(T) :
           /\ i > 1 => T[i].phase = "queued"
           /\ T[i].kind # "abandoned" \/ T[i].phase = "queued" => T[i].call = CallOf(T[i])
           /\ T[i].kind # "operator" => T[i].session \in Session

IInv ==
    /\ GatewayInv(gw)
    /\ QueueInv(transitions)
    /\ human \in BOOLEAN /\ mishap \in BOOLEAN /\ late \subseteq {"take", "release"}
    /\ Noticed(gw, ReleasingNow(transitions))

(***************************************************************************)
(* The fence, where no answer of a release is lost.  In execution no       *)
(* viewer forwards input, and the fence is down under an owner only after  *)
(* its release, and before the take that restores it has succeeded.        *)
(***************************************************************************)
AllPaused(g) == \A k \in Socket : g.socket[k].controlling => g.socket[k].paused

Executing(kinds, phases, call) ==
    /\ transitions # <<>>
    /\ transitions[1].kind \in kinds
    /\ transitions[1].phase \in phases
    /\ transitions[1].call = call

Anything == {"take", "release", "operator", "abandoned"}

Lowered ==
    \/ Executing(Anything, {"succeeded"}, "release")
    \/ Executing({"abandoned"}, {"calling", "failed"}, "take")

OneOwner(g) == \A s, r \in Session : Controls(g, s) /\ Controls(g, r) => s = r

OnlyOwner(g, s) == \A r \in Session : Controls(g, r) => r = s

FenceInv ==
    /\ late \subseteq {"take"}
    /\ OneOwner(gw)
    /\ InExecution => AllPaused(gw)
    /\ ~Lowered => \A s \in Session : Controls(gw, s) => human
    /\ Executing(Anything, {"succeeded"}, "take") => human
    /\ \A call \in {"take", "release"} :
           Executing({"take", "abandoned"}, {"calling", "succeeded", "failed"}, call) =>
               OnlyOwner(gw, transitions[1].session)

(***************************************************************************)
(* Why the fence is up, where nothing went wrong with it.                  *)
(***************************************************************************)
Mistaken == human => mishap

ReasonInv ==
    /\ human => mishap \/ (\E s \in Session : Controls(gw, s)) \/ Executing({"take"}, {"succeeded"}, "take")
    /\ \A s \in Session : Controls(gw, s) /\ ~Accepted(gw, s) => Mistaken
    /\ Executing({"take"}, {"calling", "succeeded"}, "take") =>
           mishap \/ Valid(gw, transitions[1].session)
    /\ Executing({"abandoned"}, {"calling", "succeeded"}, "take") =>
           mishap \/ (Controls(gw, transitions[1].session) /\ Accepted(gw, transitions[1].session))
    /\ Executing(Anything, {"succeeded"}, "release") => Mistaken
    /\ Executing({"abandoned"}, {"failed"}, "take") => Mistaken
-----------------------------------------------------------------------------
(* What the methods of the gateway do to its state.                        *)

\* The invariant is kept, an owner without a viewer stays noticed, and no socket
\* of a controlling viewer goes on.
Good(g, e) ==
    /\ GatewayInv(e)
    /\ \A R \in SUBSET Session : Noticed(g, R) => Noticed(e, R)
    /\ AllPaused(g) => AllPaused(e)

SameSessions(g, e) == e.session = g.session /\ e.timers = g.timers

(* Only the sockets change.                                                *)
LEMMA SocketsOnly ==
    ASSUME NEW g \in Gateway, NEW f \in [Socket -> SocketState]
    PROVE  LET e == [g EXCEPT !.socket = f] IN
           e \in Gateway /\ e.socket = f /\ SameSessions(g, e)
BY DEF Gateway, SameSessions

(* closeViewerSockets().                                                   *)
LEMMA DestroyedFields ==
    ASSUME NEW g \in Gateway, NEW K
    PROVE  LET e == Destroyed(g, K) IN
           /\ e \in Gateway /\ SameSessions(g, e)
           /\ \A k \in Socket :
                  IF k \in K /\ g.socket[k].state # "none"
                  THEN /\ e.socket[k].state = "destroyed" /\ e.socket[k].paused
                       /\ e.socket[k].of = g.socket[k].of
                       /\ e.socket[k].controlling = g.socket[k].controlling
                  ELSE e.socket[k] = g.socket[k]
<1> DEFINE f == [k \in Socket |-> IF k \in K /\ g.socket[k].state # "none"
                     THEN [g.socket[k] EXCEPT !.state = "destroyed", !.paused = TRUE]
                     ELSE g.socket[k]]
<1>1. \A k \in Socket : g.socket[k] \in SocketState
  BY DEF Gateway
<1>2. f \in [Socket -> SocketState]
  BY <1>1 DEF SocketState
<1>3. \A k \in Socket :
          IF k \in K /\ g.socket[k].state # "none"
          THEN /\ f[k].state = "destroyed" /\ f[k].paused /\ f[k].of = g.socket[k].of
               /\ f[k].controlling = g.socket[k].controlling
          ELSE f[k] = g.socket[k]
  BY <1>1 DEF SocketState
<1>4. Destroyed(g, K) = [g EXCEPT !.socket = f]
  BY DEF Destroyed
<1> HIDE DEF f
<1> QED
  BY <1>2, <1>3, <1>4, SocketsOnly

(* Destroyed sockets are still to be closed.                               *)
LEMMA DestroyedGood ==
    ASSUME NEW g, GatewayInv(g), NEW K
    PROVE  Good(g, Destroyed(g, K)) /\ SameSessions(g, Destroyed(g, K))
<1> DEFINE e == Destroyed(g, K)
<1>1. /\ e \in Gateway /\ SameSessions(g, e)
      /\ \A k \in Socket :
             IF k \in K /\ g.socket[k].state # "none"
             THEN /\ e.socket[k].state = "destroyed" /\ e.socket[k].paused
                  /\ e.socket[k].of = g.socket[k].of
                  /\ e.socket[k].controlling = g.socket[k].controlling
             ELSE e.socket[k] = g.socket[k]
  BY DestroyedFields DEF GatewayInv
<1> HIDE DEF e
<1>2. GatewayInv(e)
  BY <1>1 DEF GatewayInv, SameSessions, Controls, ForwardsIn
<1>3. ASSUME NEW R \in SUBSET Session, Noticed(g, R) PROVE Noticed(e, R)
  <2> SUFFICES ASSUME NEW s \in Session, Controls(e, s)
               PROVE  HasControllingSocket(e, s) \/ s \in e.timers \/ s \in R \/ DestroyedSocket(e, s)
    BY DEF Noticed
  <2>1. Controls(g, s) /\ e.timers = g.timers
    BY <1>1 DEF SameSessions, Controls
  <2>2. CASE \E k \in Socket : g.socket[k].of = s /\ g.socket[k].controlling
    BY <1>1, <2>2 DEF HasControllingSocket, DestroyedSocket
  <2> QED
    BY <1>3, <2>1, <2>2 DEF Noticed, HasControllingSocket, DestroyedSocket
<1>4. AllPaused(g) => AllPaused(e)
  BY <1>1 DEF AllPaused
<1> QED
  BY <1>1, <1>2, <1>3, <1>4 DEF Good, e

(* pruneExpired(): what it leaves of the sessions.                         *)
LEMMA PrunedSessions ==
    ASSUME NEW g, GatewayInv(g)
    PROVE  LET e == Pruned(g)
               ended == {s \in Session : g.session[s].status \in {"expired", "revoked"}}
               kept  == {s \in ended : Controls(g, s) /\ Accepted(g, s)}
           IN  /\ e \in Gateway
               /\ e.timers = (g.timers \ ended) \cup kept
               /\ e.socket = Destroyed(g, SocketsOf(g, ended)).socket
               /\ \A s \in Session : IF s \in ended \ kept
                                     THEN e.session[s] = [status |-> "deleted", controlling |-> FALSE]
                                     ELSE e.session[s] = g.session[s]
<1> DEFINE e == Pruned(g)
           ended == {s \in Session : g.session[s].status \in {"expired", "revoked"}}
           kept  == {s \in ended : Controls(g, s) /\ Accepted(g, s)}
           h == Destroyed(g, SocketsOf(g, ended))
           f == [s \in Session |-> IF s \in ended \ kept
                     THEN [status |-> "deleted", controlling |-> FALSE] ELSE g.session[s]]
           t == (g.timers \ ended) \cup kept
<1>1. h \in Gateway /\ h.session = g.session /\ h.timers = g.timers
  BY DestroyedFields DEF GatewayInv, SameSessions
<1>2. f \in [Session -> SessionState] /\ t \in SUBSET Session
  <2>1. g \in Gateway
    BY DEF GatewayInv
  <2> QED
    BY <2>1 DEF Gateway, SessionState
<1> HIDE DEF h
<1>3. e = [h EXCEPT !.session = f, !.timers = t]
  BY <1>1 DEF Pruned, h, Gateway
<1> DEFINE D(s) == s \in ended \ kept
<1>5. \A s \in Session : IF D(s) THEN f[s] = [status |-> "deleted", controlling |-> FALSE]
                         ELSE f[s] = g.session[s]
  OBVIOUS
<1> HIDE DEF f, t, e, D
<1>4. e \in Gateway /\ e.session = f /\ e.timers = t /\ e.socket = h.socket
  BY <1>1, <1>2, <1>3 DEF Gateway
<1> QED
  BY <1>4, <1>5 DEF h, t, e, D

\* A session keeps its control unless it was revoked, and none gains it.
Keeps(g, e) ==
    \A s \in Session :
        /\ Controls(e, s) => Controls(g, s)
        /\ Controls(g, s) /\ Accepted(g, s) => Controls(e, s) /\ Accepted(e, s)
        /\ Valid(g, s) => Valid(e, s)

(* pruneExpired(): the sockets of the session that it keeps are gone, and  *)
(* its grace period runs.                                                  *)
LEMMA PrunedGood ==
    ASSUME NEW g, GatewayInv(g)
    PROVE  LET e == Pruned(g) IN
           /\ Good(g, e) /\ Keeps(g, e)
           /\ \A s \in Session : Valid(e, s) => Valid(g, s)
           /\ \A k \in Socket :
                 /\ g.socket[k].of = e.socket[k].of
                 /\ g.socket[k].controlling = e.socket[k].controlling
                 /\ g.socket[k].state = "none" => e.socket[k].state = "none"
                 /\ Valid(g, g.socket[k].of) => e.socket[k] = g.socket[k]
<1> DEFINE ended == {s \in Session : g.session[s].status \in {"expired", "revoked"}}
           kept  == {s \in ended : Controls(g, s) /\ Accepted(g, s)}
           e == Pruned(g)
           h == Destroyed(g, SocketsOf(g, ended))
<1>1. /\ e \in Gateway /\ e.timers = (g.timers \ ended) \cup kept /\ e.socket = h.socket
      /\ \A s \in Session : IF s \in ended \ kept
                            THEN e.session[s] = [status |-> "deleted", controlling |-> FALSE]
                            ELSE e.session[s] = g.session[s]
  BY PrunedSessions
<1>2. \A k \in Socket :
          IF k \in SocketsOf(g, ended) /\ g.socket[k].state # "none"
          THEN /\ h.socket[k].state = "destroyed" /\ h.socket[k].paused
               /\ h.socket[k].of = g.socket[k].of
               /\ h.socket[k].controlling = g.socket[k].controlling
          ELSE h.socket[k] = g.socket[k]
  BY DestroyedFields DEF GatewayInv
<1> HIDE DEF e, h
<1>3. \A k \in Socket :
          IF g.socket[k].of \in ended
          THEN /\ e.socket[k].state = "destroyed" /\ e.socket[k].paused
               /\ e.socket[k].of = g.socket[k].of
               /\ e.socket[k].controlling = g.socket[k].controlling
          ELSE e.socket[k] = g.socket[k]
  <2>1. \A k \in Socket : g.socket[k].of \in ended => g.socket[k].state # "none"
    BY ViewerAssumption DEF GatewayInv
  <2> QED
    BY <1>1, <1>2, <2>1 DEF SocketsOf
<1>4. \A s \in Session : s \in kept => Controls(g, s) /\ Accepted(g, s) /\ s \in ended
  OBVIOUS
<1>6. \A s \in Session : s \in ended <=> g.session[s].status \in {"expired", "revoked"}
  OBVIOUS
<1>7. \A s \in Session : s \in ended /\ s \notin kept => ~(Controls(g, s) /\ Accepted(g, s))
  OBVIOUS
<1>14. \A s \in Session : (s \in e.timers <=> (s \in g.timers /\ s \notin ended) \/ s \in kept)
  BY <1>1
<1> HIDE DEF ended, kept
<1>5. \A s \in Session :
          \/ s \in ended \ kept /\ ~Controls(e, s) /\ e.session[s].status = "deleted"
          \/ s \in kept /\ e.session[s] = g.session[s] /\ Controls(g, s) /\ s \in e.timers
          \/ s \notin ended /\ e.session[s] = g.session[s] /\ (s \in g.timers <=> s \in e.timers)
  <2> SUFFICES ASSUME NEW s \in Session
               PROVE  \/ s \in ended \ kept /\ ~Controls(e, s) /\ e.session[s].status = "deleted"
                      \/ s \in kept /\ e.session[s] = g.session[s] /\ Controls(g, s) /\ s \in e.timers
                      \/ s \notin ended /\ e.session[s] = g.session[s]
                         /\ (s \in g.timers <=> s \in e.timers)
    OBVIOUS
  <2>1. CASE s \in ended \ kept
    <3>1. e.session[s] = [status |-> "deleted", controlling |-> FALSE]
      BY <1>1, <2>1
    <3> QED
      BY <2>1, <3>1 DEF Controls
  <2>2. CASE s \in kept
    BY <1>1, <1>4, <1>14, <2>2
  <2>3. CASE s \notin ended
    <3>1. s \notin kept /\ s \notin ended \ kept
      BY <1>4, <2>3
    <3> QED
      BY <1>1, <1>14, <2>3, <3>1
  <2> QED
    BY <2>1, <2>2, <2>3
<1>8. \A s \in e.timers : s \in Session /\ Controls(e, s)
  <2>1. \A s \in e.timers : s \in Session
    BY <1>1 DEF Gateway
  <2>2. \A s \in Session : s \in g.timers => Controls(g, s)
    BY DEF GatewayInv
  <2> QED
    BY <1>4, <1>5, <1>14, <2>1, <2>2 DEF Controls
<1>9. GatewayInv(e)
  <2>1. \A k \in Socket : e.socket[k].state = "none" <=> e.socket[k].of = NoSession
    BY <1>3, <1>6, ViewerAssumption DEF GatewayInv, ended
  <2>2. \A s \in Session : Controls(e, s) => e.session[s].status # "deleted"
    BY <1>5 DEF GatewayInv, Controls
  <2>3. ASSUME NEW k \in Socket, ForwardsIn(e, k)
        PROVE  Controls(e, e.socket[k].of)
    <3>1. e.socket[k] = g.socket[k] /\ g.socket[k].of \notin ended /\ Controls(g, g.socket[k].of)
      BY <1>3, <2>3 DEF ForwardsIn, GatewayInv
    <3>2. g.socket[k].of \in Session
      BY <2>3, <3>1 DEF GatewayInv, Gateway, SocketState, ForwardsIn
    <3> QED
      BY <1>4, <1>5, <3>1, <3>2 DEF Controls
  <2> QED
    BY <1>1, <1>8, <2>1, <2>2, <2>3 DEF GatewayInv
<1>10. ASSUME NEW R \in SUBSET Session, Noticed(g, R) PROVE Noticed(e, R)
  <2> SUFFICES ASSUME NEW s \in Session, Controls(e, s), s \notin e.timers, s \notin R
               PROVE  HasControllingSocket(e, s) \/ DestroyedSocket(e, s)
    BY DEF Noticed
  <2>1. s \notin ended /\ Controls(g, s) /\ s \notin g.timers
    BY <1>5 DEF Controls
  <2>2. \A k \in Socket : g.socket[k].of = s => e.socket[k] = g.socket[k]
    BY <1>3, <2>1
  <2> QED
    BY <1>10, <2>1, <2>2 DEF Noticed, HasControllingSocket, DestroyedSocket
<1>11. AllPaused(g) => AllPaused(e)
  BY <1>3 DEF AllPaused
<1>12. Keeps(g, e) /\ \A s \in Session : Valid(e, s) => Valid(g, s)
  BY <1>5, <1>6, <1>7 DEF Keeps, Controls, Accepted, Valid
<1>13. \A k \in Socket :
          /\ g.socket[k].of = e.socket[k].of
          /\ g.socket[k].controlling = e.socket[k].controlling
          /\ g.socket[k].state = "none" => e.socket[k].state = "none"
          /\ Valid(g, g.socket[k].of) => e.socket[k] = g.socket[k]
  <2>1. ASSUME NEW k \in Socket
        PROVE  (g.socket[k].state = "none" \/ Valid(g, g.socket[k].of)) => g.socket[k].of \notin ended
    BY ViewerAssumption DEF GatewayInv, Valid, ended
  <2> QED
    BY <1>3, <2>1
<1> QED
  BY <1>9, <1>10, <1>11, <1>12, <1>13 DEF Good, e

(* setControllingSession(): nobody else is left in control, and the owner  *)
(* has a viewer or a grace period.                                         *)
LEMMA SetControllerGood ==
    ASSUME NEW g, GatewayInv(g), NEW c \in Session \cup {NoSession}
    PROVE  LET e == SetController(g, c) IN
           /\ Good(g, e) /\ Noticed(e, {})
           /\ \A s \in Session :
                 /\ Controls(e, s) <=> s = c /\ g.session[c].status # "deleted"
                 /\ e.session[s].status = g.session[s].status
<1> DEFINE owner  == IF c = NoSession THEN {} ELSE {s \in {c} : g.session[s].status # "deleted"}
           losers == {s \in Session \ owner : Controls(g, s)}
           K == {k \in SocketsOf(g, losers) : g.socket[k].controlling}
           h == Destroyed(g, K)
           f == [s \in Session |-> [g.session[s] EXCEPT !.controlling = s \in owner]]
           t == {s \in owner : ~HasControllingSocket(h, s)}
           e == SetController(g, c)
<1>1. \A s \in Session : s \in owner <=> s = c /\ g.session[c].status # "deleted"
  BY ViewerAssumption
<1>3. f \in [Session -> SessionState] /\ t \in SUBSET Session /\ owner \subseteq Session
  <2>1. \A s \in Session : g.session[s] \in SessionState
    BY DEF GatewayInv, Gateway
  <2>2. \A s \in Session : [g.session[s] EXCEPT !.controlling = s \in owner] \in SessionState
    <3> HIDE DEF owner
    <3>1. \A x \in SessionState : /\ [x EXCEPT !.controlling = TRUE] \in SessionState
                                  /\ [x EXCEPT !.controlling = FALSE] \in SessionState
      BY DEF SessionState
    <3>2. \A s \in Session : (s \in owner) = TRUE \/ (s \in owner) = FALSE
      OBVIOUS
    <3> QED
      BY <2>1, <3>1, <3>2
  <2>3. owner \subseteq Session
    OBVIOUS
  <2>4. t \subseteq owner
    OBVIOUS
  <2> QED
    BY <2>2, <2>3, <2>4
<1>4. \A s \in Session : f[s].status = g.session[s].status /\ f[s].controlling = (s \in owner)
  <2>1. \A s \in Session : g.session[s] \in SessionState
    BY DEF GatewayInv, Gateway
  <2> QED
    BY <2>1 DEF SessionState
<1>5. \A s \in Session : s \in t <=> s \in owner /\ ~HasControllingSocket(h, s)
  BY <1>3
<1>6. \A k \in Socket : k \in K <=>
          /\ g.socket[k].of \in Session /\ g.socket[k].of \notin owner
          /\ Controls(g, g.socket[k].of) /\ g.socket[k].controlling
  BY DEF SocketsOf
<1> HIDE DEF K
<1>2. /\ h \in Gateway /\ h.session = g.session /\ h.timers = g.timers
      /\ \A k \in Socket :
          IF k \in K /\ g.socket[k].state # "none"
          THEN /\ h.socket[k].state = "destroyed" /\ h.socket[k].paused
               /\ h.socket[k].of = g.socket[k].of
               /\ h.socket[k].controlling = g.socket[k].controlling
          ELSE h.socket[k] = g.socket[k]
  BY DestroyedFields DEF GatewayInv, SameSessions
<1> HIDE DEF h
<1>7. e = [h EXCEPT !.session = f, !.timers = t]
  <2>1. f = [s \in Session |-> [h.session[s] EXCEPT !.controlling = s \in owner]]
    BY <1>2
  <2> HIDE DEF f
  <2> QED
    BY <2>1 DEF SetController, h, K
<1> HIDE DEF e, f, t, K, losers, owner
<1>8. e \in Gateway /\ e.session = f /\ e.timers = t /\ e.socket = h.socket
  BY <1>2, <1>3, <1>7 DEF Gateway
<1>9. \A s \in Session : /\ Controls(e, s) <=> s \in owner
                         /\ e.session[s].status = g.session[s].status
  BY <1>4, <1>8 DEF Controls
<1>10. \A k \in Socket : e.socket[k].of = g.socket[k].of
                         /\ (e.socket[k].state = "none" <=> g.socket[k].state = "none")
                         /\ e.socket[k].controlling = g.socket[k].controlling
                         /\ (g.socket[k].paused => e.socket[k].paused)
  BY <1>2, <1>8
<1>11. GatewayInv(e)
  <2>1. \A s \in Session : s \in e.timers => Controls(e, s)
    BY <1>5, <1>8, <1>9
  <2>2. \A s \in Session : Controls(e, s) => e.session[s].status # "deleted"
    BY <1>1, <1>9
  <2>3. ASSUME NEW k \in Socket, ForwardsIn(e, k)
        PROVE  Controls(e, e.socket[k].of)
    <3>1. h.socket[k] = g.socket[k] /\ ForwardsIn(g, k) /\ ~(k \in K /\ g.socket[k].state # "none")
      BY <1>2, <1>8, <2>3 DEF ForwardsIn
    <3>2. g.socket[k].of \in Session /\ Controls(g, g.socket[k].of) /\ g.socket[k].controlling
      BY <3>1 DEF GatewayInv, Gateway, SocketState, ForwardsIn
    <3>3. g.socket[k].of \in owner
      BY <1>6, <3>1, <3>2 DEF ForwardsIn
    <3> QED
      BY <1>9, <1>10, <3>2, <3>3
  <2> QED
    BY <1>3, <1>8, <1>10, <2>1, <2>2, <2>3 DEF GatewayInv
<1>12. ASSUME NEW R \in SUBSET Session
       PROVE  Noticed(e, R)
  BY <1>5, <1>8, <1>9 DEF Noticed, HasControllingSocket
<1>13. AllPaused(g) => AllPaused(e)
  BY <1>10 DEF AllPaused
<1> QED
  BY <1>1, <1>9, <1>11, <1>12, <1>13 DEF Good, e

\* The sockets are the same but for what is paused.
SameSockets(g, e) ==
    \A k \in Socket : /\ e.socket[k].state = g.socket[k].state
                      /\ e.socket[k].of = g.socket[k].of
                      /\ e.socket[k].controlling = g.socket[k].controlling

(* The grace period of an owner begins, unless it has a viewer.            *)
LEMMA ArmedGood ==
    ASSUME NEW g, GatewayInv(g), NEW s \in Session, Controls(g, s)
    PROVE  LET e == Armed(g, s) IN
           /\ GatewayInv(e) /\ e.session = g.session /\ e.socket = g.socket
           /\ \A R \in SUBSET Session : Noticed(g, R \cup {s}) => Noticed(e, R)
<1> DEFINE t == IF HasControllingSocket(g, s) THEN g.timers \ {s} ELSE g.timers \cup {s}
           e == Armed(g, s)
<1>1. g \in Gateway
  BY DEF GatewayInv
<1>2. t \in SUBSET Session /\ \A r \in Session : r # s => (r \in t <=> r \in g.timers)
  BY <1>1 DEF Gateway
<1>3. ~HasControllingSocket(g, s) => s \in t
  OBVIOUS
<1>4. e = [g EXCEPT !.timers = t]
  BY DEF Armed, Disarmed
<1>5. \A r \in t : r \in g.timers \/ r = s
  OBVIOUS
<1> HIDE DEF t, e
<1>6. e \in Gateway /\ e.session = g.session /\ e.socket = g.socket /\ e.timers = t
  BY <1>1, <1>2, <1>4 DEF Gateway
<1>7. GatewayInv(e)
  BY <1>5, <1>6 DEF GatewayInv, Controls, ForwardsIn
<1>8. ASSUME NEW R \in SUBSET Session, Noticed(g, R \cup {s}) PROVE Noticed(e, R)
  BY <1>2, <1>3, <1>6, <1>8 DEF Noticed, HasControllingSocket, DestroyedSocket, Controls
<1> QED
  BY <1>6, <1>7, <1>8 DEF e

(* The grace period of a session is over, or a viewer is there.            *)
LEMMA DisarmedGood ==
    ASSUME NEW g, GatewayInv(g), NEW s \in Session
    PROVE  LET e == Disarmed(g, s) IN
           /\ GatewayInv(e) /\ e.session = g.session /\ e.socket = g.socket
           /\ \A R \in SUBSET Session : Noticed(g, R) => Noticed(e, R \cup {s})
<1> DEFINE t == g.timers \ {s}
           e == Disarmed(g, s)
<1>1. g \in Gateway
  BY DEF GatewayInv
<1>2. t \in SUBSET Session /\ \A r \in Session : r # s => (r \in t <=> r \in g.timers)
  BY <1>1 DEF Gateway
<1>3. e = [g EXCEPT !.timers = t]
  BY DEF Disarmed
<1>4. \A r \in t : r \in g.timers
  OBVIOUS
<1> HIDE DEF t, e
<1>5. e \in Gateway /\ e.session = g.session /\ e.socket = g.socket /\ e.timers = t
  BY <1>1, <1>2, <1>3 DEF Gateway
<1>6. GatewayInv(e)
  BY <1>4, <1>5 DEF GatewayInv, Controls, ForwardsIn
<1>7. ASSUME NEW R \in SUBSET Session, Noticed(g, R) PROVE Noticed(e, R \cup {s})
  BY <1>2, <1>5, <1>7 DEF Noticed, HasControllingSocket, DestroyedSocket, Controls
<1> QED
  BY <1>5, <1>6, <1>7 DEF e

(* Who is noticed depends on nothing that is paused.                       *)
LEMMA PausedNoticed ==
    ASSUME NEW g, NEW e, SameSessions(g, e), SameSockets(g, e), NEW R, Noticed(g, R)
    PROVE  Noticed(e, R)
BY DEF SameSessions, SameSockets, Noticed, HasControllingSocket, DestroyedSocket, Controls

(* setViewerForwardingPaused().                                            *)
LEMMA SetPausedFields ==
    ASSUME NEW g \in Gateway, NEW K, NEW b \in BOOLEAN
    PROVE  LET e == SetPaused(g, K, b) IN
           /\ e \in Gateway /\ SameSessions(g, e) /\ SameSockets(g, e)
           /\ \A k \in Socket : /\ k \in K => (e.socket[k].paused <=> b)
                                /\ k \notin K => e.socket[k].paused = g.socket[k].paused
<1> DEFINE f == [k \in Socket |-> IF k \in K THEN [g.socket[k] EXCEPT !.paused = b] ELSE g.socket[k]]
<1>1. \A k \in Socket : g.socket[k] \in SocketState
  BY DEF Gateway
<1>2. f \in [Socket -> SocketState]
  BY <1>1 DEF SocketState
<1>3. \A k \in Socket : /\ f[k].state = g.socket[k].state /\ f[k].of = g.socket[k].of
                        /\ f[k].controlling = g.socket[k].controlling
                        /\ k \in K => (f[k].paused <=> b)
                        /\ k \notin K => f[k].paused = g.socket[k].paused
  BY <1>1 DEF SocketState
<1>4. SetPaused(g, K, b) = [g EXCEPT !.socket = f]
  BY DEF SetPaused
<1> HIDE DEF f
<1> QED
  BY <1>2, <1>3, <1>4, SocketsOnly DEF SameSockets

(* A transition begins.                                                    *)
LEMMA PauseGood ==
    ASSUME NEW g, GatewayInv(g)
    PROVE  LET e == Pause(g) IN
           Good(g, e) /\ AllPaused(e) /\ SameSessions(g, e) /\ SameSockets(g, e)
<1> DEFINE K == {k \in Socket : g.socket[k].controlling}
           e == Pause(g)
<1>1. /\ e \in Gateway /\ SameSessions(g, e) /\ SameSockets(g, e)
      /\ \A k \in Socket : /\ k \in K => e.socket[k].paused
                           /\ k \notin K => e.socket[k].paused = g.socket[k].paused
  <2>1. e = SetPaused(g, K, TRUE) /\ g \in Gateway
    BY DEF Pause, GatewayInv
  <2> HIDE DEF e, K
  <2> QED
    BY <2>1, SetPausedFields
<1>2. AllPaused(e)
  BY <1>1 DEF AllPaused, SameSockets
<1> HIDE DEF e, K
<1>3. GatewayInv(e)
  BY <1>1, <1>2 DEF GatewayInv, SameSessions, SameSockets, Controls, ForwardsIn, AllPaused
<1>4. \A R \in SUBSET Session : Noticed(g, R) => Noticed(e, R)
  BY <1>1, PausedNoticed
<1> QED
  BY <1>1, <1>2, <1>3, <1>4 DEF Good, e

(* A transition is over: only the owner's viewers go on.                   *)
LEMMA ResumeGood ==
    ASSUME NEW g, GatewayInv(g)
    PROVE  LET e == Resume(g) IN
           /\ GatewayInv(e) /\ SameSessions(g, e) /\ SameSockets(g, e)
           /\ \A R \in SUBSET Session : Noticed(g, R) => Noticed(e, R)
<1> DEFINE K == {k \in Socket : /\ g.socket[k].controlling
                                /\ g.socket[k].state = "ready"
                                /\ Controls(g, g.socket[k].of)}
           e == Resume(g)
<1>1. /\ e \in Gateway /\ SameSessions(g, e) /\ SameSockets(g, e)
      /\ \A k \in Socket : /\ k \in K => ~e.socket[k].paused
                           /\ k \notin K => e.socket[k].paused = g.socket[k].paused
  <2>1. e = SetPaused(g, K, FALSE) /\ g \in Gateway
    BY DEF Resume, GatewayInv
  <2> HIDE DEF e, K
  <2> QED
    BY <2>1, SetPausedFields
<1>2. \A k \in K : Controls(g, g.socket[k].of)
  OBVIOUS
<1> HIDE DEF e, K
<1>3. GatewayInv(e)
  <2>1. ASSUME NEW k \in Socket, ForwardsIn(e, k) PROVE Controls(e, e.socket[k].of)
    BY <1>1, <1>2, <2>1 DEF GatewayInv, SameSessions, SameSockets, Controls, ForwardsIn
  <2> QED
    BY <1>1, <2>1 DEF GatewayInv, SameSessions, SameSockets, Controls
<1>4. \A R \in SUBSET Session : Noticed(g, R) => Noticed(e, R)
  BY <1>1, PausedNoticed
<1> QED
  BY <1>1, <1>3, <1>4 DEF e

(* One socket changes.                                                     *)
LEMMA SocketFields ==
    ASSUME NEW g \in Gateway, NEW k \in Socket, NEW x \in SocketState
    PROVE  LET e == [g EXCEPT !.socket[k] = x] IN
           /\ e \in Gateway /\ SameSessions(g, e) /\ e.socket[k] = x
           /\ \A j \in Socket : j # k => e.socket[j] = g.socket[j]
<1> DEFINE f == [g.socket EXCEPT ![k] = x]
<1>1. f \in [Socket -> SocketState] /\ f[k] = x /\ \A j \in Socket : j # k => f[j] = g.socket[j]
  BY DEF Gateway
<1>2. [g EXCEPT !.socket[k] = x] = [g EXCEPT !.socket = f]
  OBVIOUS
<1> HIDE DEF f
<1> QED
  BY <1>1, <1>2, SocketsOnly

-----------------------------------------------------------------------------
(* The queue of transitions.                                               *)

(* The sessions of the releases are sessions.                              *)
LEMMA ReleasingType ==
    ASSUME NEW T, QueueInv(T)
    PROVE  ReleasingNow(T) \in SUBSET Session
BY DEF QueueInv, ReleasingNow

(* The more releases, the more is noticed.                                 *)
LEMMA NoticedMore ==
    ASSUME NEW g, NEW R, NEW S, R \subseteq S, Noticed(g, R)
    PROVE  Noticed(g, S)
BY DEF Noticed

(* The transition in execution goes on.                                    *)
LEMMA HeadChanges ==
    ASSUME NEW T, QueueInv(T), T # <<>>, NEW x \in Transition,
           x.kind = T[1].kind, x.session = T[1].session, x.phase # "queued",
           x.kind # "abandoned" => x.call = T[1].call
    PROVE  LET U == [T EXCEPT ![1] = x] IN
           /\ QueueInv(U) /\ U # <<>> /\ U[1] = x /\ Len(U) = Len(T)
           /\ x.phase # "settling" \/ x.kind # "abandoned" => ReleasingNow(T) \subseteq ReleasingNow(U)
           /\ ReleasingNow(T) \subseteq ReleasingNow(U) \cup {x.session}
<1> DEFINE U == [T EXCEPT ![1] = x]
<1>1. T \in Seq(Transition) /\ Len(T) \in Nat \ {0} /\ 1 \in 1..Len(T) /\ T[1] \in Transition
  BY DEF QueueInv
<1>2. /\ U \in Seq(Transition) /\ Len(U) = Len(T) /\ U # <<>> /\ U[1] = x
      /\ \A i \in 1..Len(T) : i # 1 => U[i] = T[i]
  BY <1>1
<1>3. x.kind # "abandoned" => x.call = CallOf(x)
  BY <1>1 DEF QueueInv, CallOf
<1>4. x.kind # "operator" => x.session \in Session
  BY <1>1 DEF QueueInv
<1> HIDE DEF U
<1>5. QueueInv(U)
  BY <1>2, <1>3, <1>4 DEF QueueInv
<1>6. \A i \in 1..Len(T) : T[i].kind = "abandoned" /\ T[i].phase # "settling" =>
          \/ i # 1 /\ U[i].kind = "abandoned" /\ U[i].phase # "settling" /\ U[i].session = T[i].session
          \/ i = 1 /\ x.kind = "abandoned" /\ T[i].session = x.session
  BY <1>2
<1>7. ReleasingNow(T) \subseteq ReleasingNow(U) \cup {x.session}
  BY <1>2, <1>6 DEF ReleasingNow
<1>8. ASSUME x.phase # "settling" \/ x.kind # "abandoned"
      PROVE  ReleasingNow(T) \subseteq ReleasingNow(U)
  BY <1>1, <1>2, <1>6, <1>8 DEF ReleasingNow
<1> QED
  BY <1>2, <1>5, <1>7, <1>8 DEF U

(* The same for Enter.                                                     *)
LEMMA EnterFields ==
    ASSUME QueueInv(transitions), transitions # <<>>,
           NEW phase \in {"calling", "succeeded", "failed", "settling"}, Enter(phase)
    PROVE  /\ QueueInv(transitions') /\ transitions' # <<>> /\ Len(transitions') = Len(transitions)
           /\ transitions'[1].kind = transitions[1].kind
           /\ transitions'[1].session = transitions[1].session
           /\ transitions'[1].call = transitions[1].call
           /\ transitions'[1].phase = phase
           /\ phase # "settling" \/ transitions[1].kind # "abandoned" =>
                  ReleasingNow(transitions) \subseteq ReleasingNow(transitions')
           /\ ReleasingNow(transitions) \subseteq ReleasingNow(transitions') \cup {transitions[1].session}
<1> DEFINE x == [transitions[1] EXCEPT !.phase = phase]
<1>1. transitions \in Seq(Transition) /\ transitions[1] \in Transition
  BY DEF QueueInv
<1>2. /\ x \in Transition /\ x.kind = transitions[1].kind /\ x.session = transitions[1].session
      /\ x.call = transitions[1].call /\ x.phase = phase
  BY <1>1 DEF Transition
<1>3. transitions' = [transitions EXCEPT ![1] = x]
  BY DEF Enter
<1> HIDE DEF x
<1> QED
  BY <1>2, <1>3, HeadChanges

(* A transition is queued behind those there are.                          *)
LEMMA AppendFields ==
    ASSUME NEW T, QueueInv(T), NEW kind \in Anything, NEW s \in Session \cup {NoSession},
           kind # "operator" => s \in Session
    PROVE  LET U == Append(T, Queued(kind, s)) IN
           /\ QueueInv(U) /\ U # <<>>
           /\ IF T = <<>> THEN U[1].phase = "queued" ELSE U[1] = T[1]
           /\ ReleasingNow(T) \subseteq ReleasingNow(U)
           /\ kind = "abandoned" => s \in ReleasingNow(U)
<1> DEFINE x == Queued(kind, s)
           U == Append(T, x)
<1>1. x \in Transition /\ x.phase = "queued" /\ x.kind = kind /\ x.session = s /\ x.call = CallOf(x)
  BY DEF Queued, Transition, Anything, CallOf
<1> HIDE DEF x
<1>2. T \in Seq(Transition) /\ Len(T) \in Nat /\ (T # <<>> => 1 \in 1..Len(T))
  BY DEF QueueInv
<1>3. /\ U \in Seq(Transition) /\ U # <<>> /\ Len(U) = Len(T) + 1
      /\ \A i \in 1..Len(T) : U[i] = T[i]
      /\ U[Len(T) + 1] = x
      /\ T = <<>> => U[1] = x
  BY <1>1, <1>2
<1> HIDE DEF U
<1>4. \A i \in 1..Len(U) : \/ i \in 1..Len(T) /\ U[i] = T[i]
                           \/ i = Len(T) + 1 /\ U[i] = x
  BY <1>2, <1>3
<1>5. QueueInv(U)
  BY <1>1, <1>3, <1>4 DEF QueueInv
<1>6. \A i \in 1..Len(T) : i \in 1..Len(U) /\ U[i] = T[i]
  BY <1>2, <1>3
<1>7. ReleasingNow(T) \subseteq ReleasingNow(U)
  BY <1>6 DEF ReleasingNow
<1>8. kind = "abandoned" => s \in ReleasingNow(U)
  <2>1. Len(T) + 1 \in 1..Len(U) /\ U[Len(T) + 1] = x
    BY <1>2, <1>3
  <2> QED
    BY <1>1, <2>1 DEF ReleasingNow
<1> QED
  BY <1>1, <1>2, <1>3, <1>5, <1>6, <1>7, <1>8 DEF U, x

(* The next transition has not begun.                                      *)
LEMMA TailFields ==
    ASSUME NEW T, QueueInv(T), T # <<>>, T[1].phase = "settling"
    PROVE  /\ QueueInv(Tail(T))
           /\ Tail(T) # <<>> => Tail(T)[1].phase = "queued"
           /\ ReleasingNow(T) \subseteq ReleasingNow(Tail(T))
<1> DEFINE U == Tail(T)
<1>1. T \in Seq(Transition) /\ Len(T) \in Nat \ {0}
  BY DEF QueueInv
<1>2. /\ U \in Seq(Transition) /\ Len(U) = Len(T) - 1
      /\ \A i \in 1..Len(U) : U[i] = T[i + 1] /\ i + 1 \in 1..Len(T) /\ i + 1 > 1
      /\ U # <<>> => 1 \in 1..Len(U)
  BY <1>1
<1> HIDE DEF U
<1>3. \A i \in 1..Len(U) : U[i].phase = "queued"
  BY <1>2 DEF QueueInv
<1>4. QueueInv(U)
  BY <1>2, <1>3 DEF QueueInv
<1>5. ReleasingNow(T) \subseteq ReleasingNow(U)
  <2>1. \A i \in 1..Len(T) : T[i].phase # "settling" => i - 1 \in 1..Len(U) /\ U[i - 1] = T[i]
    BY <1>1, <1>2
  <2> QED
    BY <2>1 DEF ReleasingNow
<1> QED
  BY <1>2, <1>3, <1>4, <1>5 DEF U

-----------------------------------------------------------------------------
(* The steps keep the invariant of the gateway and its queue.              *)

(* The status of a session changes.                                        *)
LEMMA StatusGood ==
    ASSUME NEW g, GatewayInv(g), NEW s \in Session, NEW x \in {"valid", "expired", "revoked"},
           NEW e, e = [g EXCEPT !.session[s].status = x]
    PROVE  /\ Good(g, e) /\ e.session[s].status = x
           /\ \A r \in Session : /\ Controls(e, r) <=> Controls(g, r)
                                 /\ r # s => e.session[r].status = g.session[r].status
<1> DEFINE y == [g.session[s] EXCEPT !.status = x]
           f == [g.session EXCEPT ![s] = y]
<1>1. g \in Gateway /\ g.session \in [Session -> SessionState] /\ g.session[s] \in SessionState
  BY DEF GatewayInv, Gateway
<1>2. y \in SessionState /\ y.status = x /\ y.controlling = g.session[s].controlling
  BY <1>1 DEF SessionState
<1>3. e = [g EXCEPT !.session = f]
  OBVIOUS
<1> HIDE DEF y
<1>4. f \in [Session -> SessionState] /\ f[s] = y /\ \A r \in Session : r # s => f[r] = g.session[r]
  BY <1>1, <1>2
<1> HIDE DEF f
<1>5. e \in Gateway /\ e.session = f /\ e.socket = g.socket /\ e.timers = g.timers
  BY <1>1, <1>3, <1>4 DEF Gateway
<1>6. \A r \in Session : /\ e.session[r].controlling = g.session[r].controlling
                         /\ r # s => e.session[r].status = g.session[r].status
  BY <1>2, <1>4, <1>5
<1>7. \A k \in Socket : ForwardsIn(g, k) => g.socket[k].of \in Session
  BY <1>1 DEF GatewayInv, Gateway, SocketState, ForwardsIn
<1>8. GatewayInv(e)
  <2>1. \A r \in Session : Controls(e, r) => e.session[r].status # "deleted"
    BY <1>2, <1>4, <1>5, <1>6 DEF GatewayInv, Controls
  <2>2. \A k \in Socket : ForwardsIn(e, k) => Controls(e, e.socket[k].of)
    BY <1>5, <1>6, <1>7 DEF GatewayInv, Controls, ForwardsIn
  <2> QED
    BY <1>5, <1>6, <2>1, <2>2 DEF GatewayInv, Controls
<1>9. \A R \in SUBSET Session : Noticed(g, R) => Noticed(e, R)
  BY <1>5, <1>6 DEF Noticed, HasControllingSocket, DestroyedSocket, Controls
<1>10. AllPaused(g) => AllPaused(e)
  BY <1>5 DEF AllPaused
<1> QED
  BY <1>2, <1>4, <1>5, <1>6, <1>8, <1>9, <1>10 DEF Good, Controls

(* What a step has to show.                                                *)
LEMMA GoodStep ==
    ASSUME IInv, Good(gw, gw'), QueueInv(transitions'),
           ReleasingNow(transitions) \subseteq ReleasingNow(transitions'),
           human' \in BOOLEAN, mishap' \in BOOLEAN, late' \subseteq {"take", "release"}
    PROVE  IInv'
<1>1. Noticed(gw', ReleasingNow(transitions))
  BY ReleasingType DEF IInv, Good
<1>2. Noticed(gw', ReleasingNow(transitions'))
  BY <1>1, NoticedMore
<1> QED
  BY <1>2 DEF IInv, Good

(* A session opens, expires or is revoked.                                 *)
LEMMA SessionStep ==
    ASSUME IInv, NEW s \in Session, Open(s) \/ Expire(s) \/ Revoke(s)
    PROVE  IInv' /\ Good(gw, gw')
<1>1. PICK x \in {"valid", "expired", "revoked"} : gw' = [gw EXCEPT !.session[s].status = x]
  BY DEF Open, Expire, Revoke
<1>2. Good(gw, gw')
  BY <1>1, StatusGood DEF IInv
<1>3. /\ transitions' = transitions /\ human' = human /\ late' = late /\ mishap' \in BOOLEAN
  BY DEF Open, Expire, Revoke, IInv, InExecution
<1> QED
  BY <1>2, <1>3, GoodStep DEF IInv

(* The gateway prunes, and transitions are queued.                         *)
LEMMA QueuingStep ==
    ASSUME IInv, Prune \/ OperatorRelease \/ \E s \in Session, kind \in {"take", "release"} : Request(s, kind)
    PROVE  IInv' /\ (gw' = gw \/ gw' = Pruned(gw))
<1>1. gw' = gw \/ gw' = Pruned(gw)
  BY DEF Prune, OperatorRelease, Request
<1>2. Good(gw, gw')
  BY <1>1, PrunedGood DEF IInv, Good
<1>3. human' = human /\ late' = late /\ mishap' = mishap
  BY DEF Prune, OperatorRelease, Request
<1>4. QueueInv(transitions') /\ ReleasingNow(transitions) \subseteq ReleasingNow(transitions')
  <2>1. QueueInv(transitions)
    BY DEF IInv
  <2>2. CASE Prune
    BY <2>1, <2>2 DEF Prune
  <2>3. CASE OperatorRelease
    BY <2>1, <2>3, AppendFields DEF OperatorRelease, Anything
  <2>4. CASE \E s \in Session, kind \in {"take", "release"} : Request(s, kind)
    BY <2>1, <2>4, AppendFields DEF Request, Anything
  <2> QED
    BY <2>2, <2>3, <2>4
<1> QED
  BY <1>1, <1>2, <1>3, <1>4, GoodStep DEF IInv

(* A grace period is over: the release is queued.                          *)
LEMMA GraceStep ==
    ASSUME IInv, NEW s \in Session, GraceOver(s)
    PROVE  IInv' /\ gw'.session = gw.session /\ gw'.socket = gw.socket
<1>1. /\ gw' = Disarmed(gw, s) /\ transitions' = Append(transitions, Queued("abandoned", s))
      /\ human' = human /\ late' = late /\ mishap' = mishap
  BY DEF GraceOver
<1>2. /\ GatewayInv(gw') /\ gw'.session = gw.session /\ gw'.socket = gw.socket
      /\ Noticed(gw', ReleasingNow(transitions) \cup {s})
  BY <1>1, DisarmedGood, ReleasingType DEF IInv
<1>3. /\ QueueInv(transitions') /\ ReleasingNow(transitions) \subseteq ReleasingNow(transitions')
      /\ s \in ReleasingNow(transitions')
  BY <1>1, AppendFields DEF IInv, Anything
<1>4. Noticed(gw', ReleasingNow(transitions'))
  BY <1>2, <1>3, NoticedMore
<1> QED
  BY <1>1, <1>2, <1>3, <1>4 DEF IInv

(* The head of the queue.                                                  *)
LEMMA HeadFields ==
    ASSUME IInv, transitions # <<>>
    PROVE  /\ Head(transitions) = transitions[1] /\ transitions[1] \in Transition
           /\ transitions[1].kind # "operator" => transitions[1].session \in Session
           /\ transitions[1].kind # "abandoned" \/ transitions[1].phase = "queued" =>
                  transitions[1].call = CallOf(transitions[1])
<1>1. transitions \in Seq(Transition) /\ 1 \in 1..Len(transitions)
  BY DEF IInv, QueueInv
<1> QED
  BY <1>1 DEF IInv, QueueInv

(* A transition begins.                                                    *)
LEMMA BeginStep ==
    ASSUME IInv, Abort \/ BeginRequest \/ BeginOperator
    PROVE  IInv'
<1>1. transitions # <<>> /\ transitions[1].kind # "abandoned"
      /\ \E phase \in {"calling", "settling"} : Enter(phase)
  BY HeadFields DEF Abort, BeginRequest, BeginOperator, Current
<1>2. QueueInv(transitions') /\ ReleasingNow(transitions) \subseteq ReleasingNow(transitions')
  BY <1>1, EnterFields DEF IInv
<1>3. gw' = Pause(gw) \/ gw' = Pruned(Pause(gw))
  BY DEF Abort, BeginRequest, BeginOperator
<1>4. Good(gw, Pause(gw))
  BY PauseGood DEF IInv
<1>5. Good(Pause(gw), Pruned(Pause(gw)))
  BY <1>4, PrunedGood DEF Good
<1>6. Good(gw, gw')
  BY <1>3, <1>4, <1>5 DEF Good
<1>7. human' = human /\ late' = late /\ mishap' = mishap
  BY DEF Abort, BeginRequest, BeginOperator
<1> QED
  BY <1>2, <1>6, <1>7, GoodStep DEF IInv

(* A step that ends a release notices who is still there.                  *)
LEMMA SettledStep ==
    ASSUME IInv, transitions # <<>>, GatewayInv(gw'), Enter("settling"),
           \/ Noticed(gw', {})
           \/ /\ Noticed(gw', ReleasingNow(transitions))
              /\ Noticed(gw', Session \ {transitions[1].session}),
           human' \in BOOLEAN, mishap' \in BOOLEAN, late' \subseteq {"take", "release"}
    PROVE  IInv'
<1>1. /\ QueueInv(transitions')
      /\ ReleasingNow(transitions) \subseteq ReleasingNow(transitions') \cup {transitions[1].session}
  BY EnterFields DEF IInv
<1>2. Noticed(gw', ReleasingNow(transitions'))
  BY <1>1 DEF Noticed
<1> QED
  BY <1>1, <1>2 DEF IInv

(* Nobody has to be noticed who is not in control or has a viewer.         *)
LEMMA NoticedBut ==
    ASSUME NEW g, NEW s, ~Controls(g, s) \/ HasControllingSocket(g, s) \/ s \in g.timers
    PROVE  Noticed(g, Session \ {s})
BY DEF Noticed

(* A release of abandoned control begins, or finds nothing to release.     *)
LEMMA BeginAbandonedStep ==
    ASSUME IInv, BeginAbandoned
    PROVE  IInv'
<1> DEFINE g == Pause(gw)
           s == transitions[1].session
<1>1. /\ transitions # <<>> /\ transitions[1].kind = "abandoned" /\ transitions[1].phase = "queued"
      /\ human' = human /\ late' = late /\ mishap' = mishap
  BY HeadFields DEF BeginAbandoned, Current
<1>2. Good(gw, g) /\ GatewayInv(g) /\ Noticed(g, ReleasingNow(transitions)) /\ s \in Session
  BY <1>1, HeadFields, PauseGood, ReleasingType DEF IInv, Good
<1>3. \/ gw' = g /\ Enter("settling") /\ (~Controls(g, s) \/ HasControllingSocket(g, s))
      \/ gw' = SetController(g, NoSession) /\ Enter("settling")
      \/ gw' = g /\ Enter("calling")
  BY <1>1, HeadFields DEF BeginAbandoned
<1> HIDE DEF g
<1>4. CASE gw' = g /\ Enter("settling") /\ (~Controls(g, s) \/ HasControllingSocket(g, s))
  BY <1>1, <1>2, <1>4, NoticedBut, SettledStep DEF IInv
<1>5. CASE gw' = SetController(g, NoSession) /\ Enter("settling")
  BY <1>1, <1>2, <1>5, SetControllerGood, SettledStep DEF IInv, Good
<1>6. CASE gw' = g /\ Enter("calling")
  BY <1>1, <1>2, <1>6, EnterFields, GoodStep DEF IInv
<1> QED
  BY <1>3, <1>4, <1>5, <1>6

(* The gateway waits for the control service, or hears from it.            *)
LEMMA ServeStep ==
    ASSUME IInv, Serve \/ Refused \/ \E call \in late : ExecuteLate(call)
    PROVE  IInv' /\ gw' = gw
<1>1. gw' = gw
  BY DEF Serve, Take, TakeFails, Release, Unreachable, AnswerLost, Refused, ExecuteLate
<1>2. human' \in BOOLEAN /\ mishap' \in BOOLEAN /\ late' \subseteq {"take", "release"}
  BY DEF Serve, Take, TakeFails, Release, Unreachable, AnswerLost, Refused, ExecuteLate, SetHuman, IInv
<1>3. QueueInv(transitions') /\ ReleasingNow(transitions) \subseteq ReleasingNow(transitions')
  <2>1. CASE transitions' = transitions
    BY <2>1 DEF IInv
  <2>2. CASE transitions # <<>> /\ (Enter("succeeded") \/ Enter("failed"))
    BY <2>2, EnterFields DEF IInv
  <2>3. CASE Refused
    BY <2>3, HeadFields, EnterFields DEF IInv, Refused, Current
  <2> QED
    BY <2>1, <2>2, <2>3
       DEF Serve, Take, TakeFails, Release, Unreachable, AnswerLost, ExecuteLate, Calling
<1>4. Good(gw, gw')
  BY <1>1 DEF Good, IInv
<1> QED
  BY <1>1, <1>2, <1>3, <1>4, GoodStep

(* The answer decides who is in control.                                   *)
LEMMA AnsweredStep ==
    ASSUME IInv, Answered
    PROVE  IInv'
<1> DEFINE t == transitions[1]
           c == IF t.kind = "take" THEN t.session ELSE NoSession
<1>1. /\ transitions # <<>> /\ t.kind \in {"take", "release", "operator"}
      /\ gw' = SetController(gw, c) /\ Enter("settling")
      /\ human' = human /\ late' = late /\ mishap' = mishap
  BY HeadFields DEF Answered, Current
<1>2. c \in Session \cup {NoSession}
  BY <1>1, HeadFields
<1> HIDE DEF c
<1>3. GatewayInv(gw') /\ Noticed(gw', {})
  BY <1>1, <1>2, SetControllerGood DEF IInv, Good
<1> QED
  BY <1>1, <1>3, SettledStep DEF IInv

(* The release of abandoned control is over: its owner is gone, has a      *)
(* viewer and gets the fence back, or is given another grace period.       *)
LEMMA AbandonedReleasedStep ==
    ASSUME IInv, AbandonedReleased
    PROVE  IInv'
<1> DEFINE t == transitions[1]
           s == t.session
<1>1. /\ transitions # <<>> /\ t.kind = "abandoned" /\ t.call = "release"
      /\ Released(t) /\ human' = human /\ late' = late /\ mishap' = mishap
  BY HeadFields DEF AbandonedReleased, Current
<1>2. s \in Session /\ t \in Transition
  BY <1>1, HeadFields
<1>3. GatewayInv(gw) /\ QueueInv(transitions) /\ Noticed(gw, ReleasingNow(transitions))
  BY DEF IInv
<1>4. CASE gw' = gw /\ Enter("settling") /\ ~Controls(gw, s)
  BY <1>1, <1>3, <1>4, NoticedBut, SettledStep DEF IInv
<1>5. CASE gw' = gw /\ transitions' = [transitions EXCEPT ![1].phase = "calling", ![1].call = "take"]
  <2> DEFINE x == [t EXCEPT !.phase = "calling", !.call = "take"]
  <2>1. x \in Transition /\ x.kind = t.kind /\ x.session = s /\ x.phase = "calling"
    BY <1>2 DEF Transition
  <2>2. transitions' = [transitions EXCEPT ![1] = x]
    BY <1>1, <1>3, <1>5 DEF QueueInv
  <2> HIDE DEF x
  <2>3. QueueInv(transitions') /\ ReleasingNow(transitions) \subseteq ReleasingNow(transitions')
    BY <1>1, <1>3, <2>1, <2>2, HeadChanges
  <2>4. Good(gw, gw')
    BY <1>3, <1>5 DEF Good
  <2> QED
    BY <1>1, <2>3, <2>4, GoodStep DEF IInv
<1>6. CASE gw' = Armed(gw, s) /\ Enter("settling") /\ Controls(gw, s)
  <2>1. /\ GatewayInv(gw')
        /\ \A R \in SUBSET Session : Noticed(gw, R \cup {s}) => Noticed(gw', R)
    BY <1>2, <1>3, <1>6, ArmedGood
  <2>2. Noticed(gw, ReleasingNow(transitions) \cup {s}) /\ Noticed(gw, (Session \ {s}) \cup {s})
    BY <1>3, NoticedMore DEF Noticed
  <2>3. Noticed(gw', ReleasingNow(transitions)) /\ Noticed(gw', Session \ {s})
    BY <1>3, <2>1, <2>2, ReleasingType
  <2> QED
    BY <1>1, <1>6, <2>1, <2>3, SettledStep DEF IInv
<1>7. CASE gw' = SetController(gw, NoSession) /\ Enter("settling")
  BY <1>1, <1>3, <1>7, SetControllerGood, SettledStep DEF IInv, Good
<1> QED
  BY <1>1, <1>4, <1>5, <1>6, <1>7 DEF Released

(* The fence has been restored for the viewer, or control is given up.     *)
LEMMA AbandonedRestoredStep ==
    ASSUME IInv, AbandonedRestored
    PROVE  IInv'
<1> DEFINE t == transitions[1]
           s == t.session
<1>1. /\ transitions # <<>> /\ t.kind = "abandoned" /\ Enter("settling")
      /\ gw' = CASE t.phase = "failed" \/ ~Controls(gw, s) -> SetController(gw, NoSession)
                 [] t.phase = "succeeded" /\ Controls(gw, s) /\ HasControllingSocket(gw, s) -> gw
                 [] OTHER -> Armed(gw, s)
      /\ human' = human /\ late' = late /\ mishap' = mishap
  BY HeadFields DEF AbandonedRestored, Current
<1>2. s \in Session
  BY <1>1, HeadFields
<1>3. GatewayInv(gw) /\ QueueInv(transitions) /\ Noticed(gw, ReleasingNow(transitions))
  BY DEF IInv
<1>4. \/ gw' = SetController(gw, NoSession)
      \/ gw' = gw /\ HasControllingSocket(gw, s)
      \/ gw' = Armed(gw, s) /\ Controls(gw, s)
  BY <1>1
<1>5. CASE gw' = SetController(gw, NoSession)
  BY <1>1, <1>3, <1>5, SetControllerGood, SettledStep DEF IInv, Good
<1>6. CASE gw' = gw /\ HasControllingSocket(gw, s)
  BY <1>1, <1>3, <1>6, NoticedBut, SettledStep DEF IInv
<1>7. CASE gw' = Armed(gw, s) /\ Controls(gw, s)
  <2>1. /\ GatewayInv(gw')
        /\ \A R \in SUBSET Session : Noticed(gw, R \cup {s}) => Noticed(gw', R)
    BY <1>2, <1>3, <1>7, ArmedGood
  <2>2. Noticed(gw, ReleasingNow(transitions) \cup {s}) /\ Noticed(gw, (Session \ {s}) \cup {s})
    BY <1>3, NoticedMore DEF Noticed
  <2>3. Noticed(gw', ReleasingNow(transitions)) /\ Noticed(gw', Session \ {s})
    BY <1>3, <2>1, <2>2, ReleasingType
  <2> QED
    BY <1>1, <2>1, <2>3, SettledStep DEF IInv
<1> QED
  BY <1>4, <1>5, <1>6, <1>7

(* A transition is over.                                                   *)
LEMMA SettleStep ==
    ASSUME IInv, Settle
    PROVE  IInv'
<1>1. /\ transitions # <<>> /\ transitions[1].phase = "settling"
      /\ gw' = Resume(gw) /\ transitions' = Tail(transitions)
      /\ human' = human /\ late' = late /\ mishap' = mishap
  BY HeadFields DEF Settle
<1>2. GatewayInv(gw') /\ Noticed(gw', ReleasingNow(transitions))
  BY <1>1, ResumeGood, ReleasingType DEF IInv
<1>3. QueueInv(transitions') /\ Noticed(gw', ReleasingNow(transitions'))
  BY <1>1, <1>2, TailFields, NoticedMore DEF IInv
<1> QED
  BY <1>1, <1>2, <1>3 DEF IInv

(* One socket changes: its session is the only one that may go unnoticed.  *)
LEMMA SocketChanges ==
    ASSUME NEW g, GatewayInv(g), NEW k \in Socket, NEW x \in SocketState, NEW S \in SUBSET Session,
           x.state = "none" <=> x.of = NoSession,
           x.state = "ready" /\ x.controlling /\ ~x.paused => Controls(g, x.of),
           \/ ~g.socket[k].controlling
           \/ g.socket[k].of \in S
           \/ g.socket[k].of \in Session /\ ~Controls(g, g.socket[k].of)
           \/ g.socket[k].of \notin Session
           \/ x.of = g.socket[k].of /\ x.controlling
    PROVE  LET e == [g EXCEPT !.socket[k] = x] IN
           /\ GatewayInv(e) /\ SameSessions(g, e) /\ e.socket[k] = x
           /\ \A j \in Socket : j # k => e.socket[j] = g.socket[j]
           /\ \A R \in SUBSET Session : Noticed(g, R) => Noticed(e, R \cup S)
<1> DEFINE e == [g EXCEPT !.socket[k] = x]
<1>1. /\ e \in Gateway /\ SameSessions(g, e) /\ e.socket[k] = x
      /\ \A j \in Socket : j # k => e.socket[j] = g.socket[j]
  BY SocketFields DEF GatewayInv
<1> HIDE DEF e
<1>2. \A r \in Session : Controls(e, r) <=> Controls(g, r)
  BY <1>1 DEF SameSessions, Controls
<1>3. GatewayInv(e)
  BY <1>1 DEF GatewayInv, SameSessions, Controls, ForwardsIn
<1>4. ASSUME NEW R \in SUBSET Session, Noticed(g, R)
      PROVE  Noticed(e, R \cup S)
  <2> SUFFICES ASSUME NEW r \in Session, Controls(e, r), r \notin e.timers, r \notin R, r \notin S
               PROVE  HasControllingSocket(e, r) \/ DestroyedSocket(e, r)
    BY DEF Noticed
  <2>1. Controls(g, r) /\ r \notin g.timers
    BY <1>1, <1>2 DEF SameSessions
  <2>2. PICK j \in Socket : g.socket[j].of = r /\ g.socket[j].controlling
    BY <1>4, <2>1 DEF Noticed, HasControllingSocket, DestroyedSocket
  <2>3. e.socket[j].of = r /\ e.socket[j].controlling
    <3>1. CASE j # k
      BY <1>1, <2>2, <3>1
    <3>2. CASE j = k
      BY <1>1, <2>1, <2>2, <3>2
    <3> QED
      BY <3>1, <3>2
  <2> QED
    BY <2>3 DEF HasControllingSocket, DestroyedSocket
<1> QED
  BY <1>1, <1>3, <1>4 DEF e

(* The gateway after pruneExpired() in a step.                             *)
LEMMA PrunedHere ==
    ASSUME IInv, NEW g, g = Pruned(gw)
    PROVE  /\ GatewayInv(g) /\ Keeps(gw, g) /\ Noticed(g, ReleasingNow(transitions))
           /\ AllPaused(gw) => AllPaused(g)
           /\ \A s \in Session : Valid(g, s) => Valid(gw, s)
           /\ \A k \in Socket :
                 /\ gw.socket[k].of = g.socket[k].of
                 /\ gw.socket[k].controlling = g.socket[k].controlling
                 /\ gw.socket[k].state = "none" => g.socket[k].state = "none"
                 /\ Valid(gw, gw.socket[k].of) => g.socket[k] = gw.socket[k]
<1>1. GatewayInv(gw) /\ ReleasingNow(transitions) \in SUBSET Session
      /\ Noticed(gw, ReleasingNow(transitions))
  BY ReleasingType DEF IInv
<1>2. /\ Good(gw, g) /\ Keeps(gw, g)
      /\ \A s \in Session : Valid(g, s) => Valid(gw, s)
      /\ \A k \in Socket :
            /\ gw.socket[k].of = g.socket[k].of
            /\ gw.socket[k].controlling = g.socket[k].controlling
            /\ gw.socket[k].state = "none" => g.socket[k].state = "none"
            /\ Valid(gw, gw.socket[k].of) => g.socket[k] = gw.socket[k]
  BY <1>1, PrunedGood
<1>3. GatewayInv(g) /\ Noticed(g, ReleasingNow(transitions)) /\ (AllPaused(gw) => AllPaused(g))
  BY <1>1, <1>2 DEF Good
<1> QED
  BY <1>2, <1>3

(* A viewer arrives: it ends the grace period of its session.              *)
LEMMA UpgradeStep ==
    ASSUME IInv, NEW k \in Socket, NEW s \in Session, Upgrade(k, s)
    PROVE  IInv' /\ Keeps(gw, gw') /\ (AllPaused(gw) => AllPaused(gw'))
<1> DEFINE g == Pruned(gw)
           h == IF Controls(g, s) THEN Disarmed(g, s) ELSE g
           x == [state |-> "waiting", of |-> s, controlling |-> Controls(g, s), paused |-> TRUE]
           S == IF Controls(g, s) THEN {s} ELSE {}
           R == ReleasingNow(transitions)
<1>1. /\ gw.socket[k].state = "none" /\ gw' = [h EXCEPT !.socket[k] = x]
      /\ transitions' = transitions /\ human' = human /\ late' = late /\ mishap' = mishap
  BY DEF Upgrade
<1>0. g = Pruned(gw)
  OBVIOUS
<1> HIDE DEF g, h, x, S, R
<1>2. /\ GatewayInv(g) /\ Keeps(gw, g) /\ (AllPaused(gw) => AllPaused(g))
      /\ Noticed(g, R)
      /\ g.socket[k].state = "none"
  <2>1. GatewayInv(g) /\ Keeps(gw, g) /\ (AllPaused(gw) => AllPaused(g))
    BY <1>0, PrunedHere
  <2>2. Noticed(g, R)
    BY <1>0, PrunedHere DEF R
  <2>3. \A j \in Socket : gw.socket[j].state = "none" => g.socket[j].state = "none"
    BY <1>0, PrunedHere
  <2> QED
    BY <1>1, <2>1, <2>2, <2>3
<1> USE DEF h, x, S, R
<1>3. /\ GatewayInv(h) /\ h.session = g.session /\ h.socket = g.socket
      /\ Noticed(h, R \cup S)
  <2>1. CASE Controls(g, s)
    BY <1>2, <2>1, DisarmedGood, ReleasingType DEF IInv
  <2>2. CASE ~Controls(g, s)
    BY <1>2, <2>2
  <2> QED
    BY <2>1, <2>2
<1>4. x \in SocketState /\ x.state = "waiting" /\ x.of = s /\ x.paused
      /\ (x.controlling <=> Controls(g, s))
  <2>1. Controls(g, s) \in BOOLEAN
    BY <1>2 DEF GatewayInv, Gateway, SessionState, Controls
  <2> QED
    BY <2>1 DEF SocketState
<1>5. s # NoSession /\ S \in SUBSET Session
  BY ViewerAssumption
<1>6. h.socket[k].of \notin Session
  BY <1>2, <1>3, ViewerAssumption DEF GatewayInv
<1>7. S \subseteq {r \in Session : r = s /\ Controls(g, s)}
  OBVIOUS
<1> HIDE DEF h, x, S
<1>8. /\ GatewayInv(gw') /\ SameSessions(h, gw') /\ gw'.socket[k] = x
      /\ \A j \in Socket : j # k => gw'.socket[j] = h.socket[j]
  BY <1>1, <1>3, <1>4, <1>5, <1>6, SocketChanges
<1>9. Noticed(gw', R)
  <2>1. {} \in SUBSET Session /\ R \cup S \in SUBSET Session
    BY <1>5, ReleasingType DEF IInv
  <2>5. \A Q \in SUBSET Session : Noticed(h, Q) => Noticed(gw', Q \cup {})
    BY <1>1, <1>3, <1>4, <1>5, <1>6, <2>1, SocketChanges
  <2>2. Noticed(gw', (R \cup S) \cup {})
    BY <1>3, <2>1, <2>5
  <2>3. Controls(g, s) => HasControllingSocket(gw', s)
    BY <1>4, <1>8 DEF HasControllingSocket
  <2>4. \A r \in S : HasControllingSocket(gw', r)
    BY <1>7, <2>3
  <2> QED
    BY <2>2, <2>4 DEF Noticed
<1>10. Keeps(gw, gw')
  BY <1>2, <1>3, <1>8 DEF Keeps, SameSessions, Controls, Accepted, Valid
<1>11. AllPaused(gw) => AllPaused(gw')
  BY <1>2, <1>3, <1>4, <1>8 DEF AllPaused
<1> QED
  BY <1>1, <1>8, <1>9, <1>10, <1>11 DEF IInv

(* The viewer's port is chosen by who is in control when it connects.      *)
LEMMA ConnectStep ==
    ASSUME IInv, NEW k \in Socket, Connect(k)
    PROVE  IInv' /\ Keeps(gw, gw')
<1> DEFINE g == Pruned(gw)
           s == gw.socket[k].of
           x == [g.socket[k] EXCEPT !.state = "connecting", !.controlling = Controls(g, s)]
           R == ReleasingNow(transitions)
<1>1. /\ gw.socket[k].state = "waiting"
      /\ transitions' = transitions /\ human' = human /\ late' = late /\ mishap' = mishap
  BY DEF Connect, InState
<1>0. g = Pruned(gw)
  OBVIOUS
<1> HIDE DEF g, x
<1>2. /\ GatewayInv(g) /\ Keeps(gw, g) /\ Noticed(g, R) /\ g.socket[k].of = s
  <2>1. GatewayInv(g) /\ Keeps(gw, g)
    BY <1>0, PrunedHere
  <2>2. Noticed(g, R)
    BY <1>0, PrunedHere
  <2>3. \A j \in Socket : gw.socket[j].of = g.socket[j].of
    BY <1>0, PrunedHere
  <2> QED
    BY <1>1, <2>1, <2>2, <2>3
<1> USE DEF g, x
<1>3. s \in Session
  BY <1>1 DEF IInv, GatewayInv, Gateway, SocketState
<1>4. gw' = g \/ gw' = [g EXCEPT !.socket[k] = x]
  <2>1. g \in Gateway
    BY <1>2 DEF GatewayInv
  <2> HIDE DEF g
  <2> QED
    BY <2>1 DEF Connect, Gateway, SocketState, g
<1> HIDE DEF g
<1>5. CASE gw' = g
  BY <1>1, <1>2, <1>5 DEF IInv
<1>6. CASE gw' = [g EXCEPT !.socket[k] = x]
  <2>1. Controls(g, s) \in BOOLEAN /\ g.socket[k] \in SocketState
    BY <1>2, <1>3 DEF GatewayInv, Gateway, SessionState, Controls
  <2>2. /\ x \in SocketState /\ x.state = "connecting" /\ x.of = s
        /\ (x.controlling <=> Controls(g, s))
    BY <1>2, <2>1 DEF SocketState
  <2> HIDE DEF x
  <2>3. s # NoSession /\ {} \in SUBSET Session
    BY <1>3, ViewerAssumption
  <2>4. \/ ~Controls(g, s)
        \/ x.of = g.socket[k].of /\ x.controlling
    BY <1>2, <2>2
  <2>5. /\ GatewayInv(gw') /\ SameSessions(g, gw') /\ Noticed(gw', R \cup {})
    BY <1>2, <1>3, <1>6, <2>2, <2>3, <2>4, SocketChanges, ReleasingType DEF IInv
  <2>6. Keeps(gw, gw')
    BY <1>2, <2>5 DEF Keeps, SameSessions, Controls, Accepted, Valid
  <2>7. Noticed(gw', R)
    BY <2>5 DEF Noticed
  <2> QED
    BY <1>1, <2>5, <2>6, <2>7 DEF IInv
<1> QED
  BY <1>4, <1>5, <1>6
(* The viewer answers: its socket goes on, as long as ownership is what it *)
(* was when it connected.                                                  *)
LEMMA ConnectedStep ==
    ASSUME IInv, NEW k \in Socket, Connected(k)
    PROVE  IInv' /\ Keeps(gw, gw')
<1> DEFINE g == Pruned(gw)
           s == gw.socket[k].of
           x == [g.socket[k] EXCEPT !.state = "ready", !.paused = FALSE]
           R == ReleasingNow(transitions)
<1>1. /\ gw.socket[k].state = "connecting"
      /\ transitions' = transitions /\ human' = human /\ late' = late /\ mishap' = mishap
  BY DEF Connected, InState
<1>2. g = Pruned(gw)
  OBVIOUS
<1> HIDE DEF g, x
<1>3. /\ GatewayInv(g) /\ Keeps(gw, g) /\ Noticed(g, R)
      /\ g.socket[k].of = s /\ (Valid(gw, s) => g.socket[k] = gw.socket[k])
      /\ Valid(g, s) /\ s \in Session => Valid(gw, s)
  <2>1. /\ GatewayInv(g) /\ Keeps(gw, g) /\ Noticed(g, R)
        /\ \A r \in Session : Valid(g, r) => Valid(gw, r)
    BY <1>2, PrunedHere
  <2>2. \A j \in Socket : /\ gw.socket[j].of = g.socket[j].of
                          /\ Valid(gw, gw.socket[j].of) => g.socket[j] = gw.socket[j]
    BY <1>2, PrunedHere
  <2> QED
    BY <2>1, <2>2
<1>4. s \in Session /\ R \in SUBSET Session /\ g \in Gateway
  <2>1. s \in Session
    BY <1>1 DEF IInv, GatewayInv, Gateway, SocketState
  <2> QED
    BY <1>3, <2>1, ReleasingType DEF IInv, GatewayInv
<1>5. \/ gw' = g
      \/ gw' = Destroyed(g, {k})
      \/ gw' = [g EXCEPT !.socket[k] = x] /\ Valid(g, s) /\ (Controls(g, s) <=> g.socket[k].controlling)
  <2>1. Controls(g, s) \in BOOLEAN /\ g.socket[k].controlling \in BOOLEAN
    BY <1>4 DEF Gateway, SessionState, SocketState, Controls
  <2>2. [g EXCEPT !.socket[k].state = "ready", !.socket[k].paused = FALSE] = [g EXCEPT !.socket[k] = x]
    BY <1>4 DEF Gateway, SocketState, x
  <2> QED
    BY <1>2, <2>1, <2>2 DEF Connected
<1>6. CASE gw' = g
  BY <1>1, <1>3, <1>6 DEF IInv
<1>7. CASE gw' = Destroyed(g, {k})
  <2>1. Good(g, gw') /\ SameSessions(g, gw')
    BY <1>3, <1>7, DestroyedGood
  <2>2. Keeps(gw, gw')
    BY <1>3, <2>1 DEF Keeps, SameSessions, Controls, Accepted, Valid
  <2> QED
    BY <1>1, <1>3, <1>4, <2>1, <2>2 DEF IInv, Good
<1>8. CASE /\ gw' = [g EXCEPT !.socket[k] = x]
           /\ Valid(g, s) /\ (Controls(g, s) <=> g.socket[k].controlling)
  <2>1. g.socket[k] \in SocketState /\ g.socket[k].state = "connecting"
    BY <1>1, <1>3, <1>4, <1>8 DEF Gateway
  <2>2. /\ x \in SocketState /\ x.state = "ready" /\ x.of = s
        /\ (x.controlling <=> g.socket[k].controlling)
    BY <1>3, <2>1 DEF SocketState, x
  <2>3. s # NoSession /\ {} \in SUBSET Session
    BY <1>4, ViewerAssumption
  <2>4. /\ x.state = "none" <=> x.of = NoSession
        /\ x.controlling => Controls(g, x.of)
        /\ ~g.socket[k].controlling \/ (x.of = g.socket[k].of /\ x.controlling)
    BY <1>3, <1>8, <2>2, <2>3
  <2>5. GatewayInv(gw') /\ SameSessions(g, gw') /\ Noticed(gw', R \cup {})
    BY <1>3, <1>4, <1>8, <2>2, <2>3, <2>4, SocketChanges
  <2>6. Keeps(gw, gw')
    BY <1>3, <2>5 DEF Keeps, SameSessions, Controls, Accepted, Valid
  <2>7. Noticed(gw', R)
    BY <2>5 DEF Noticed
  <2> QED
    BY <1>1, <2>5, <2>6, <2>7 DEF IInv
<1> QED
  BY <1>5, <1>6, <1>7, <1>8

(* A socket closes: a controlling session that has lost its last one is    *)
(* given its grace period.                                                 *)
LEMMA CloseStep ==
    ASSUME IInv, NEW k \in Socket, Close(k)
    PROVE  IInv' /\ Keeps(gw, gw') /\ (AllPaused(gw) => AllPaused(gw'))
<1> DEFINE s == gw.socket[k].of
           g == [gw EXCEPT !.socket[k] = NoSocket]
           R == ReleasingNow(transitions)
<1>1. /\ gw.socket[k].state # "none"
      /\ \/ gw' = g /\ ~(gw.socket[k].controlling /\ Controls(g, s))
         \/ gw' = Armed(g, s) /\ Controls(g, s)
      /\ transitions' = transitions /\ human' = human /\ late' = late /\ mishap' = mishap
  BY DEF Close, InState
<1>2. /\ GatewayInv(gw) /\ Noticed(gw, R) /\ R \in SUBSET Session /\ gw \in Gateway
      /\ NoSocket \in SocketState /\ NoSocket.state = "none" /\ NoSocket.of = NoSession
      /\ ~NoSocket.controlling
  BY ReleasingType DEF IInv, GatewayInv, SocketState, NoSocket
<1>3. s \in Session
  BY <1>1, <1>2 DEF GatewayInv, Gateway, SocketState
<1>4. /\ g \in Gateway /\ SameSessions(gw, g) /\ g.socket[k] = NoSocket
      /\ \A j \in Socket : j # k => g.socket[j] = gw.socket[j]
  BY <1>2, SocketFields
<1>5. ASSUME NEW S \in SUBSET Session, s \in S \/ ~(gw.socket[k].controlling /\ Controls(gw, s))
      PROVE  GatewayInv(g) /\ Noticed(g, R \cup S)
  <2>1. \/ ~gw.socket[k].controlling
        \/ gw.socket[k].of \in S
        \/ gw.socket[k].of \in Session /\ ~Controls(gw, gw.socket[k].of)
    BY <1>3, <1>5
  <2> QED
    BY <1>2, <1>5, <2>1, SocketChanges
<1> HIDE DEF g
<1>6. \A r \in Session : Controls(g, r) <=> Controls(gw, r)
  BY <1>4 DEF SameSessions, Controls
<1>7. AllPaused(gw) => AllPaused(g)
  BY <1>2, <1>4 DEF AllPaused
<1>8. CASE gw' = g /\ ~(gw.socket[k].controlling /\ Controls(g, s))
  <2>1. {} \in SUBSET Session /\ R \cup {} = R
    OBVIOUS
  <2>2. GatewayInv(g) /\ Noticed(g, R)
    BY <1>3, <1>5, <1>6, <1>8, <2>1
  <2>3. Keeps(gw, gw')
    BY <1>4, <1>8 DEF Keeps, SameSessions, Controls, Accepted, Valid
  <2> QED
    BY <1>1, <1>7, <1>8, <2>2, <2>3 DEF IInv
<1>9. CASE gw' = Armed(g, s) /\ Controls(g, s)
  <2>1. {s} \in SUBSET Session /\ s \in {s}
    BY <1>3
  <2>2. GatewayInv(g) /\ Noticed(g, R \cup {s})
    BY <1>5, <2>1
  <2>3. GatewayInv(gw') /\ gw'.session = g.session /\ gw'.socket = g.socket /\ Noticed(gw', R)
    BY <1>2, <1>3, <1>9, <2>2, ArmedGood
  <2>4. Keeps(gw, gw')
    BY <1>4, <2>3 DEF Keeps, SameSessions, Controls, Accepted, Valid
  <2>5. AllPaused(gw) => AllPaused(gw')
    BY <1>7, <2>3 DEF AllPaused
  <2> QED
    BY <1>1, <2>3, <2>4, <2>5 DEF IInv
<1> QED
  BY <1>1, <1>8, <1>9

-----------------------------------------------------------------------------
(* Initially there is nothing to forward and nobody to notice.             *)
LEMMA InitInv == Init => IInv
<1> SUFFICES ASSUME Init PROVE IInv
  OBVIOUS
<1>1. NoSocket \in SocketState /\ [status |-> "unopened", controlling |-> FALSE] \in SessionState
  BY DEF NoSocket, SocketState, SessionState
<1>2. /\ gw \in Gateway /\ gw.timers = {}
      /\ \A k \in Socket : gw.socket[k] = NoSocket
      /\ \A s \in Session : ~Controls(gw, s)
  BY <1>1 DEF Init, Gateway, Controls
<1>3. GatewayInv(gw) /\ Noticed(gw, ReleasingNow(transitions))
  BY <1>2 DEF GatewayInv, Noticed, ForwardsIn, NoSocket
<1>4. QueueInv(transitions)
  BY DEF Init, QueueInv
<1> QED
  BY <1>3, <1>4 DEF Init, IInv

(* Every step keeps the invariant.                                         *)
LEMMA NextStep == IInv /\ [Next]_vars => IInv'
<1> SUFFICES ASSUME IInv, [Next]_vars PROVE IInv'
  OBVIOUS
<1>1. CASE UNCHANGED vars
  BY <1>1 DEF vars, IInv
<1>2. CASE \E s \in Session :
              \/ Open(s) \/ Expire(s) \/ Revoke(s) \/ GraceOver(s)
              \/ \E kind \in {"take", "release"} : Request(s, kind)
              \/ \E k \in Socket : Upgrade(k, s)
  BY <1>2, SessionStep, GraceStep, QueuingStep, UpgradeStep
<1>3. CASE Prune \/ OperatorRelease
  BY <1>3, QueuingStep
<1>4. CASE Begin
  BY <1>4, BeginStep, BeginAbandonedStep DEF Begin
<1>5. CASE Serve
  BY <1>5, ServeStep
<1>6. CASE Continue
  BY <1>6, ServeStep, AnsweredStep, AbandonedReleasedStep, AbandonedRestoredStep, SettleStep DEF Continue
<1>7. CASE \E call \in late : ExecuteLate(call)
  BY <1>7, ServeStep
<1>8. CASE \E k \in Socket : Connect(k) \/ Connected(k) \/ Close(k)
  BY <1>8, ConnectStep, ConnectedStep, CloseStep
<1> QED
  BY <1>1, <1>2, <1>3, <1>4, <1>5, <1>6, <1>7, <1>8 DEF Next

THEOREM Inductive == Spec => []IInv
BY InitInv, NextStep, PTL DEF Spec
-----------------------------------------------------------------------------
(* The state has its types: a socket has a session as long as it is not    *)
(* closed, and only an owner has a grace period.                           *)
THEOREM TypeCorrect == Spec => []TypeOK
<1>1. IInv => TypeOK
  BY DEF IInv, GatewayInv, QueueInv, TypeOK, Controls
<1> QED
  BY <1>1, Inductive, PTL

(* A viewer forwards input only as long as its session is the owner: an    *)
(* ownership that changes destroys or pauses the sockets it was read for,  *)
(* whatever was in between (server.ts setControllingSession,               *)
(* connectViewerAfterTransitions).                                         *)
THEOREM OwnersInput == Spec => []InputOfOwner
<1>1. IInv => InputOfOwner
  BY DEF IInv, GatewayInv, InputOfOwner, Forwards, ForwardsIn
<1> QED
  BY <1>1, Inductive, PTL

(* An owner without a viewer is on its way out: no order of connections,   *)
(* closings, prunes and answers, lost ones included, leaves control with a *)
(* session that nothing will release (server.ts armAbandonedControl,       *)
(* releaseAbandonedControl).                                               *)
THEOREM Abandonment == Spec => []AbandonmentNoticed
<1>1. IInv => AbandonmentNoticed
  <2> SUFFICES ASSUME IInv, NEW s \in Session, Controls(gw, s),
                      ~HasControllingSocket(gw, s), s \notin gw.timers
               PROVE  \/ Releasing(s)
                      \/ \E k \in SocketsOf(gw, {s}) : gw.socket[k].controlling /\ InState(k, "destroyed")
    BY DEF AbandonmentNoticed
  <2>1. s \in ReleasingNow(transitions) \/ DestroyedSocket(gw, s)
    BY DEF IInv, Noticed
  <2>2. CASE s \in ReleasingNow(transitions)
    BY <2>2 DEF ReleasingNow, Releasing
  <2>3. CASE DestroyedSocket(gw, s)
    BY <2>3 DEF DestroyedSocket, SocketsOf, InState
  <2> QED
    BY <2>1, <2>2, <2>3
<1> QED
  BY <1>1, Inductive, PTL
-----------------------------------------------------------------------------
(* The fence, as long as no answer of a release is lost: a release that is *)
(* lost may still lower it after the gateway has given control on.         *)
NoLostRelease == LosesAnswer \subseteq {"take", "restore"}

LEMMA HeadIsFirst ==
    ASSUME NEW T, QueueInv(T), T # <<>>
    PROVE  Head(T) = T[1]
BY DEF QueueInv

\* Nothing is in execution, or what is stays as it is.
SameExecution ==
    \/ transitions' = transitions
    \/ transitions # <<>> /\ transitions' # <<>> /\ transitions'[1] = transitions[1]
    \/ /\ transitions # <<>> => transitions[1].phase \in {"queued", "settling"}
       /\ transitions' # <<>> => transitions'[1].phase = "queued"

\* Nobody gains control.
NoGain == \A s \in Session : Controls(gw', s) => Controls(gw, s)

(* A step that concerns neither the fence nor the transition in execution. *)
LEMMA QuietFence ==
    ASSUME IInv, IInv', FenceInv, SameExecution, NoGain, human' = human, late' = late,
           InExecution' /\ AllPaused(gw) => AllPaused(gw')
    PROVE  FenceInv'
<1>1. OneOwner(gw')
  BY DEF FenceInv, NoGain, OneOwner
<1>2. InExecution' => AllPaused(gw')
  <2>1. InExecution' => InExecution
    BY HeadIsFirst DEF InExecution, SameExecution, IInv
  <2> QED
    BY <2>1 DEF FenceInv
<1>3. ~Lowered' => \A s \in Session : Controls(gw', s) => human'
  <2>1. Lowered => Lowered'
    BY DEF Lowered, Executing, SameExecution
  <2> QED
    BY <2>1 DEF FenceInv, NoGain
<1>4. Executing(Anything, {"succeeded"}, "take")' => human'
  BY DEF FenceInv, Executing, SameExecution
<1>5. \A call \in {"take", "release"} :
          Executing({"take", "abandoned"}, {"calling", "succeeded", "failed"}, call)' =>
              OnlyOwner(gw', transitions'[1].session)
  BY DEF FenceInv, NoGain, Executing, SameExecution, OnlyOwner
<1> QED
  BY <1>1, <1>2, <1>3, <1>4, <1>5 DEF FenceInv

LEMMA QuietReason ==
    ASSUME IInv, ReasonInv, SameExecution, human' = human, mishap' = mishap,
           \A s \in Session :
               /\ Controls(gw', s) => Controls(gw, s)
               /\ Controls(gw, s) /\ Accepted(gw, s) => Controls(gw', s) /\ Accepted(gw', s),
           Executing({"take"}, {"calling", "succeeded"}, "take") =>
               (Valid(gw, transitions[1].session) => Valid(gw', transitions[1].session))
    PROVE  ReasonInv'
<1>1. Mistaken => Mistaken'
  BY DEF Mistaken
<1>2. human' => \/ mishap'
                \/ \E s \in Session : Controls(gw', s)
                \/ Executing({"take"}, {"succeeded"}, "take")'
  <2>1. Executing({"take"}, {"succeeded"}, "take") => Executing({"take"}, {"succeeded"}, "take")'
    BY DEF Executing, SameExecution
  <2> QED
    BY <2>1 DEF ReasonInv, Mistaken
<1>3. \A s \in Session : Controls(gw', s) /\ ~Accepted(gw', s) => Mistaken'
  BY <1>1 DEF ReasonInv
<1>4. Executing({"take"}, {"calling", "succeeded"}, "take")' =>
          mishap' \/ Valid(gw', transitions'[1].session)
  BY DEF ReasonInv, Executing, SameExecution
<1>5. Executing({"abandoned"}, {"calling", "succeeded"}, "take")' =>
          \/ mishap'
          \/ Controls(gw', transitions'[1].session) /\ Accepted(gw', transitions'[1].session)
  <2>1. transitions # <<>> /\ transitions[1].kind = "abandoned" => transitions[1].session \in Session
    BY HeadFields
  <2> QED
    BY <2>1 DEF ReasonInv, Executing, SameExecution
<1>6. /\ Executing(Anything, {"succeeded"}, "release")' => Mistaken'
      /\ Executing({"abandoned"}, {"failed"}, "take")' => Mistaken'
  BY <1>1 DEF ReasonInv, Executing, SameExecution
<1> QED
  BY <1>2, <1>3, <1>4, <1>5, <1>6 DEF ReasonInv
(* A session opens, expires or is revoked.  A revocation under the fence   *)
(* is history; a session in execution does not expire.                     *)
LEMMA SessionFence ==
    ASSUME IInv, IInv', FenceInv, NEW s \in Session, Open(s) \/ Expire(s) \/ Revoke(s)
    PROVE  FenceInv' /\ (ReasonInv => ReasonInv')
<1>1. PICK x \in {"valid", "expired", "revoked"} :
          /\ gw' = [gw EXCEPT !.session[s].status = x]
          /\ x = "valid" => Open(s)
          /\ x = "expired" => Expire(s)
          /\ x = "revoked" => Revoke(s)
  BY DEF Open, Expire, Revoke
<1>2. /\ Good(gw, gw') /\ gw'.session[s].status = x
      /\ \A r \in Session : /\ Controls(gw', r) <=> Controls(gw, r)
                            /\ r # s => gw'.session[r].status = gw.session[r].status
  <2>1. GatewayInv(gw) /\ gw' = [gw EXCEPT !.session[s].status = x]
    BY <1>1 DEF IInv
  <2> QED
    BY <2>1, StatusGood
<1>3. transitions' = transitions /\ human' = human /\ late' = late
  BY DEF Open, Expire, Revoke
<1>4. FenceInv'
  BY <1>2, <1>3, QuietFence DEF SameExecution, NoGain, Good
<1>5. ASSUME ReasonInv, ~Revoke(s) PROVE ReasonInv'
  <2>1. mishap' = mishap /\ x # "revoked"
    BY <1>1, <1>5 DEF Open, Expire, Revoke
  <2>2. gw.session[s].status \in {"unopened", "valid"}
    BY <1>5 DEF Open, Expire, Valid
  <2>3. \A r \in Session : Accepted(gw, r) => Accepted(gw', r)
    BY <1>1, <1>2, <2>1 DEF Accepted
  <2>4. Executing({"take"}, {"calling", "succeeded"}, "take") =>
            (Valid(gw, transitions[1].session) => Valid(gw', transitions[1].session))
    <3> SUFFICES ASSUME Executing({"take"}, {"calling", "succeeded"}, "take"),
                        Valid(gw, transitions[1].session)
                 PROVE  Valid(gw', transitions[1].session)
      OBVIOUS
    <3>1. transitions # <<>> /\ transitions[1].kind = "take"
          /\ transitions[1].phase \in {"calling", "succeeded"}
      BY DEF Executing
    <3>2. transitions[1].session \in Session /\ Head(transitions) = transitions[1]
      BY <3>1, HeadFields
    <3>3. x # "expired" \/ transitions[1].session # s
      BY <1>1, <3>1, <3>2 DEF Expire, InExecution
    <3> QED
      BY <1>1, <1>2, <2>1, <3>2, <3>3 DEF Valid
  <2> QED
    BY <1>2, <1>3, <1>5, <2>1, <2>3, <2>4, QuietReason DEF SameExecution
<1>6. ASSUME ReasonInv, Revoke(s) PROVE ReasonInv'
  <2>1. mishap' = (mishap \/ human \/ InExecution)
    BY <1>6 DEF Revoke
  <2>2. human' => mishap'
    BY <1>3, <2>1 DEF IInv
  <2>3. transitions # <<>> /\ transitions[1].phase # "queued" => mishap'
    BY <2>1, HeadFields DEF InExecution, IInv
  <2> QED
    BY <1>3, <2>2, <2>3 DEF ReasonInv, Mistaken, Executing
<1> QED
  BY <1>4, <1>5, <1>6

(* The gateway prunes, transitions are queued, sockets come and go, and a  *)
(* transition that is settled gives way to the next.                       *)
LEMMA QuietStep ==
    ASSUME IInv, IInv', FenceInv,
           \/ Prune \/ OperatorRelease \/ Settle
           \/ \E s \in Session : \/ GraceOver(s)
                                 \/ \E kind \in {"take", "release"} : Request(s, kind)
                                 \/ \E k \in Socket : Upgrade(k, s)
           \/ \E k \in Socket : Connect(k) \/ Connected(k) \/ Close(k)
    PROVE  FenceInv' /\ (ReasonInv => ReasonInv')
<1>1. human' = human /\ late' = late /\ mishap' = mishap
  BY DEF Prune, OperatorRelease, Settle, GraceOver, Request, Upgrade, Connect, Connected, Close
<1>2. Keeps(gw, Pruned(gw)) /\ (AllPaused(gw) => AllPaused(Pruned(gw)))
  BY PrunedGood DEF IInv, Good
<1>3. SameExecution /\ Keeps(gw, gw') /\ (InExecution' /\ AllPaused(gw) => AllPaused(gw'))
  <2>1. CASE Prune
    BY <1>2, <2>1 DEF Prune, SameExecution
  <2>2. CASE Settle
    <3>1. /\ transitions # <<>> /\ transitions[1].phase = "settling"
          /\ gw' = Resume(gw) /\ transitions' = Tail(transitions)
      BY <2>2, HeadFields DEF Settle
    <3>2. transitions' # <<>> => transitions'[1].phase = "queued"
      BY <3>1, TailFields DEF IInv
    <3>3. Keeps(gw, gw')
      BY <3>1, ResumeGood DEF IInv, Keeps, SameSessions, Controls, Accepted, Valid
    <3>4. ~InExecution'
      BY <3>2, HeadIsFirst DEF InExecution, IInv
    <3> QED
      BY <3>1, <3>2, <3>3, <3>4 DEF SameExecution
  <2>3. ASSUME NEW kind \in Anything, NEW s \in Session \cup {NoSession}, kind # "operator" => s \in Session,
               transitions' = Append(transitions, Queued(kind, s))
        PROVE  SameExecution
    BY <2>3, AppendFields DEF IInv, SameExecution
  <2>4. CASE OperatorRelease
    BY <2>3, <2>4 DEF OperatorRelease, Anything, Keeps
  <2>5. ASSUME NEW s \in Session, GraceOver(s)
        PROVE  SameExecution /\ Keeps(gw, gw') /\ (AllPaused(gw) => AllPaused(gw'))
    <3>1. gw'.session = gw.session /\ gw'.socket = gw.socket
      BY <2>5, GraceStep
    <3> QED
      BY <2>3, <2>5, <3>1 DEF GraceOver, Anything, Keeps, AllPaused, Controls, Accepted, Valid
  <2>6. ASSUME NEW s \in Session, NEW kind \in {"take", "release"}, Request(s, kind)
        PROVE  SameExecution /\ Keeps(gw, gw') /\ (AllPaused(gw) => AllPaused(gw'))
    BY <1>2, <2>3, <2>6 DEF Request, Anything
  <2>7. ASSUME NEW s \in Session, NEW k \in Socket, Upgrade(k, s)
        PROVE  SameExecution /\ Keeps(gw, gw') /\ (AllPaused(gw) => AllPaused(gw'))
    BY <2>7, UpgradeStep DEF Upgrade, SameExecution
  <2>8. ASSUME NEW k \in Socket, Close(k)
        PROVE  SameExecution /\ Keeps(gw, gw') /\ (AllPaused(gw) => AllPaused(gw'))
    BY <2>8, CloseStep DEF Close, SameExecution
  <2>9. ASSUME NEW k \in Socket, Connect(k) \/ Connected(k)
        PROVE  SameExecution /\ Keeps(gw, gw') /\ ~InExecution'
    BY <2>9, ConnectStep, ConnectedStep DEF Connect, Connected, SameExecution, InExecution
  <2> QED
    BY <2>1, <2>2, <2>4, <2>5, <2>6, <2>7, <2>8, <2>9
<1>4. NoGain
  BY <1>3 DEF Keeps, NoGain
<1>5. transitions # <<>> /\ transitions[1].kind = "take" => transitions[1].session \in Session
  BY HeadFields
<1>6. FenceInv'
  BY <1>1, <1>3, <1>4, QuietFence
<1>7. ASSUME ReasonInv PROVE ReasonInv'
  BY <1>1, <1>3, <1>5, <1>7, QuietReason DEF Keeps, Executing
<1> QED
  BY <1>6, <1>7
(* What a transition that goes on has to show.                             *)
LEMMA EnteredFence ==
    ASSUME IInv, IInv', transitions # <<>>,
           NEW phase \in {"calling", "succeeded", "failed", "settling"}, Enter(phase),
           late' \subseteq {"take"}, OneOwner(gw'), AllPaused(gw'),
           transitions[1].call = "take" /\ phase = "succeeded" => human',
           \/ human' \/ \A s \in Session : ~Controls(gw', s)
           \/ transitions[1].call = "release" /\ phase = "succeeded"
           \/ transitions[1].kind = "abandoned" /\ transitions[1].call = "take" /\ phase \in {"calling", "failed"},
           transitions[1].kind \in {"take", "abandoned"} /\ phase # "settling" =>
               OnlyOwner(gw', transitions[1].session)
    PROVE  FenceInv'
<1>1. /\ transitions' # <<>> /\ transitions'[1].phase = phase
      /\ transitions'[1].kind = transitions[1].kind
      /\ transitions'[1].session = transitions[1].session
      /\ transitions'[1].call = transitions[1].call
  BY EnterFields DEF IInv
<1>2. transitions[1].kind \in Anything
  BY HeadFields DEF Transition, Anything
<1>3. InExecution' => AllPaused(gw')
  OBVIOUS
<1>4. ~Lowered' => \A s \in Session : Controls(gw', s) => human'
  BY <1>1, <1>2 DEF Lowered, Executing
<1>5. Executing(Anything, {"succeeded"}, "take")' => human'
  BY <1>1 DEF Executing
<1>6. \A call \in {"take", "release"} :
          Executing({"take", "abandoned"}, {"calling", "succeeded", "failed"}, call)' =>
              OnlyOwner(gw', transitions'[1].session)
  BY <1>1 DEF Executing
<1> QED
  BY <1>3, <1>4, <1>5, <1>6 DEF FenceInv

LEMMA EnteredReason ==
    ASSUME IInv, transitions # <<>>,
           NEW phase \in {"calling", "succeeded", "failed", "settling"}, Enter(phase),
           \/ Mistaken' \/ \E s \in Session : Controls(gw', s)
           \/ transitions[1].kind = "take" /\ phase = "succeeded",
           \A s \in Session : Controls(gw', s) /\ ~Accepted(gw', s) => Mistaken',
           transitions[1].kind = "take" /\ phase \in {"calling", "succeeded"} =>
               mishap' \/ Valid(gw', transitions[1].session),
           transitions[1].kind = "abandoned" /\ transitions[1].call = "take"
                   /\ phase \in {"calling", "succeeded"} =>
               \/ mishap'
               \/ Controls(gw', transitions[1].session) /\ Accepted(gw', transitions[1].session),
           transitions[1].call = "release" /\ phase = "succeeded" => Mistaken',
           transitions[1].kind = "abandoned" /\ transitions[1].call = "take" /\ phase = "failed" => Mistaken'
    PROVE  ReasonInv'
<1>1. /\ transitions' # <<>> /\ transitions'[1].phase = phase
      /\ transitions'[1].kind = transitions[1].kind
      /\ transitions'[1].session = transitions[1].session
      /\ transitions'[1].call = transitions[1].call
  BY EnterFields DEF IInv
<1>2. transitions[1].kind = "take" => transitions[1].call = "take"
  BY HeadFields DEF CallOf
<1> QED
  BY <1>1, <1>2 DEF ReasonInv, Executing, Mistaken

(* A transition begins: the sockets of the owner are paused.               *)
LEMMA BeginFence ==
    ASSUME IInv, IInv', FenceInv, Abort \/ BeginRequest \/ BeginOperator
    PROVE  FenceInv' /\ (ReasonInv => ReasonInv')
<1> DEFINE t == transitions[1]
           g == Pause(gw)
<1>1. /\ transitions # <<>> /\ t.kind # "abandoned" /\ t.phase = "queued"
      /\ human' = human /\ late' = late /\ mishap' = mishap
  BY HeadFields DEF Abort, BeginRequest, BeginOperator, Current
<1>2. PICK phase \in {"calling", "settling"} :
          /\ Enter(phase)
          /\ phase = "calling" /\ t.kind = "take" => gw' = Pruned(g) /\ MayTransition(gw', t)
  BY <1>1, HeadFields DEF Abort, BeginRequest, BeginOperator, Current
<1>3. GatewayInv(g) /\ AllPaused(g) /\ Keeps(gw, g)
  BY PauseGood DEF IInv, Good, Keeps, SameSessions, Controls, Accepted, Valid
<1> HIDE DEF g
<1>4. AllPaused(gw') /\ Keeps(gw, gw')
  <2>1. (AllPaused(g) => AllPaused(Pruned(g))) /\ Keeps(g, Pruned(g))
    BY <1>3, PrunedGood DEF Good
  <2>2. gw' = g \/ gw' = Pruned(g)
    BY DEF Abort, BeginRequest, BeginOperator, g
  <2>3. Keeps(gw, Pruned(g))
    BY <1>3, <2>1 DEF Keeps
  <2> QED
    BY <1>3, <2>1, <2>2, <2>3
<1>5. OneOwner(gw')
  BY <1>4 DEF FenceInv, OneOwner, Keeps
<1>6. human' \/ \A s \in Session : ~Controls(gw', s)
  BY <1>1, <1>4 DEF FenceInv, Lowered, Executing, Keeps
<1>7. t.kind = "take" /\ phase = "calling" => OnlyOwner(gw', t.session) /\ Valid(gw', t.session)
  BY <1>2 DEF MayTransition, OnlyOwner
<1>8. FenceInv'
  BY <1>1, <1>2, <1>4, <1>5, <1>6, <1>7, EnteredFence DEF FenceInv
<1>9. ASSUME ReasonInv PROVE ReasonInv'
  <2>1. human => mishap \/ \E s \in Session : Controls(gw, s)
    BY <1>1, <1>9 DEF ReasonInv, Executing
  <2>2. \A s \in Session : Controls(gw', s) /\ ~Accepted(gw', s) => Mistaken'
    BY <1>1, <1>4, <1>9 DEF ReasonInv, Keeps, Mistaken
  <2>3. Mistaken' \/ \E s \in Session : Controls(gw', s)
    BY <1>1, <1>4, <1>9, <2>1 DEF ReasonInv, Keeps, Mistaken
  <2> QED
    BY <1>1, <1>2, <1>7, <2>2, <2>3, EnteredReason
<1> QED
  BY <1>8, <1>9

(* The automatic release begins.                                           *)
LEMMA BeginAbandonedFence ==
    ASSUME IInv, IInv', FenceInv, BeginAbandoned
    PROVE  FenceInv' /\ (ReasonInv => ReasonInv')
<1> DEFINE t == transitions[1]
           g == Pause(gw)
<1>1. /\ transitions # <<>> /\ t.kind = "abandoned" /\ t.phase = "queued" /\ t.call = "release"
      /\ t.session \in Session
      /\ human' = human /\ late' = late /\ mishap' = mishap
  BY HeadFields DEF BeginAbandoned, Current, CallOf
<1>2. \/ gw' = g /\ Enter("settling")
      \/ gw' = SetController(g, NoSession) /\ Enter("settling") /\ Controls(g, t.session) /\ ~Accepted(g, t.session)
      \/ gw' = g /\ Enter("calling") /\ Controls(g, t.session)
  <2>1. g \in Gateway
    BY PauseGood DEF IInv, Good, GatewayInv
  <2>2. Controls(g, t.session) \in BOOLEAN /\ Accepted(g, t.session) \in BOOLEAN
    BY <1>1, <2>1 DEF Gateway, SessionState, Controls, Accepted
  <2> HIDE DEF g
  <2> QED
    BY <1>1, <2>2, HeadFields DEF BeginAbandoned, g
<1>3. /\ GatewayInv(g) /\ AllPaused(g)
      /\ \A s \in Session : /\ Controls(g, s) <=> Controls(gw, s)
                            /\ Accepted(g, s) <=> Accepted(gw, s)
  BY PauseGood DEF IInv, Good, SameSessions, Controls, Accepted
<1> HIDE DEF g
<1>4. human \/ \A s \in Session : ~Controls(gw, s)
  BY <1>1 DEF FenceInv, Lowered, Executing
<1>5. late \subseteq {"take"} /\ OneOwner(gw)
  BY DEF FenceInv
<1>6. CASE gw' = g /\ (Enter("settling") \/ (Enter("calling") /\ Controls(g, t.session)))
  <2>1. OneOwner(gw') /\ AllPaused(gw') /\ (Controls(g, t.session) => OnlyOwner(gw', t.session))
    BY <1>1, <1>3, <1>5, <1>6 DEF OneOwner, OnlyOwner
  <2>2. human' \/ \A s \in Session : ~Controls(gw', s)
    BY <1>1, <1>3, <1>4, <1>6
  <2>3. FenceInv'
    BY <1>1, <1>5, <1>6, <2>1, <2>2, EnteredFence
  <2>4. ASSUME ReasonInv PROVE ReasonInv'
    <3>1. /\ Mistaken' \/ \E s \in Session : Controls(gw', s)
          /\ \A s \in Session : Controls(gw', s) /\ ~Accepted(gw', s) => Mistaken'
      BY <1>1, <1>3, <1>6, <2>4 DEF ReasonInv, Executing, Mistaken
    <3> QED
      BY <1>1, <1>6, <3>1, EnteredReason
  <2> QED
    BY <2>3, <2>4
<1>7. CASE gw' = SetController(g, NoSession) /\ Enter("settling")
           /\ Controls(g, t.session) /\ ~Accepted(g, t.session)
  <2>1. AllPaused(gw') /\ \A s \in Session : ~Controls(gw', s)
    BY <1>3, <1>7, SetControllerGood, ViewerAssumption DEF Good
  <2>2. OneOwner(gw')
    BY <2>1 DEF OneOwner
  <2>3. FenceInv'
    BY <1>1, <1>5, <1>7, <2>1, <2>2, EnteredFence
  <2>4. ASSUME ReasonInv PROVE ReasonInv'
    <3>1. Mistaken'
      BY <1>1, <1>3, <1>7, <2>4 DEF ReasonInv, Mistaken
    <3> QED
      BY <1>1, <1>7, <2>1, <3>1, EnteredReason
  <2> QED
    BY <2>3, <2>4
<1> QED
  BY <1>2, <1>6, <1>7
(* The request reaches the control service, or not; or its answer is lost. *)
LEMMA ServeFence ==
    ASSUME NoLostRelease, IInv, IInv', FenceInv, Serve
    PROVE  FenceInv' /\ (ReasonInv => ReasonInv')
<1> DEFINE t == transitions[1]
<1>1. /\ gw' = gw /\ transitions # <<>> /\ t.phase = "calling"
      /\ t \in Transition /\ t.call \in {"take", "release"}
      /\ t.kind # "operator" => t.session \in Session
      /\ t.kind # "abandoned" => t.call = CallOf(t)
  BY ServeStep, HeadFields DEF Serve, Take, TakeFails, Release, Unreachable, AnswerLost, Calling, Transition
<1>2. /\ late \subseteq {"take"} /\ OneOwner(gw') /\ AllPaused(gw')
      /\ t.kind \in {"take", "abandoned"} => OnlyOwner(gw', t.session)
  BY <1>1, HeadFields DEF FenceInv, Executing, InExecution
<1>3. ~(t.kind = "abandoned" /\ t.call = "take") => human \/ \A s \in Session : ~Controls(gw', s)
  BY <1>1 DEF FenceInv, Lowered, Executing
<1>4. CASE Take
  <2>1. t.call = "take" /\ human' /\ (mishap' <=> mishap) /\ late' = late /\ Enter("succeeded")
    BY <1>1, <1>4, HeadFields DEF Take, Calling, SetHuman, IInv
  <2>2. FenceInv'
    BY <1>1, <1>2, <2>1, EnteredFence
  <2>3. ASSUME ReasonInv PROVE ReasonInv'
    <3>1. t.kind = "take" => mishap \/ Valid(gw, t.session)
      BY <1>1, <2>1, <2>3 DEF ReasonInv, Executing
    <3>2. t.kind = "abandoned" => mishap \/ (Controls(gw, t.session) /\ Accepted(gw, t.session))
      BY <1>1, <2>1, <2>3 DEF ReasonInv, Executing
    <3>3. t.kind \in {"take", "abandoned"}
      BY <1>1, <2>1 DEF Transition, CallOf
    <3>4. \A s \in Session : Controls(gw', s) /\ ~Accepted(gw', s) => Mistaken'
      BY <1>1, <1>2, <2>1, <3>1, <3>2, <3>3 DEF OnlyOwner, Mistaken, Valid, Accepted
    <3>5. \/ Mistaken' \/ \E s \in Session : Controls(gw', s)
          \/ t.kind = "take"
      BY <1>1, <2>1, <3>2, <3>3 DEF Mistaken
    <3> QED
      BY <1>1, <2>1, <3>1, <3>2, <3>3, <3>4, <3>5, EnteredReason
  <2> QED
    BY <2>2, <2>3
<1>5. CASE TakeFails
  <2>1. t.call = "take" /\ human' /\ mishap' /\ late' = late /\ Enter("failed")
    BY <1>1, <1>5, HeadFields DEF TakeFails, Calling, SetHuman
  <2>2. FenceInv'
    BY <1>1, <1>2, <2>1, EnteredFence
  <2>3. ReasonInv'
    BY <1>1, <2>1, EnteredReason DEF Mistaken
  <2> QED
    BY <2>2, <2>3
<1>6. CASE Release
  <2>1. t.call = "release" /\ ~human' /\ late' = late /\ Enter("succeeded")
    BY <1>1, <1>6, HeadFields DEF Release, Calling, SetHuman
  <2>2. FenceInv'
    BY <1>1, <1>2, <2>1, EnteredFence
  <2>3. ReasonInv'
    BY <1>1, <2>1, EnteredReason DEF Mistaken, CallOf
  <2> QED
    BY <2>2, <2>3
<1>7. CASE Unreachable
  <2>1. /\ human' = human /\ late' = late /\ Enter("failed")
        /\ mishap => mishap'
        /\ human /\ t.kind = "abandoned" /\ t.call = "take" => mishap'
    BY <1>1, <1>7, HeadFields DEF Unreachable, RequestOf
  <2>2. FenceInv'
    BY <1>1, <1>2, <1>3, <2>1, EnteredFence
  <2>3. ASSUME ReasonInv PROVE ReasonInv'
    <3>1. /\ Mistaken' \/ \E s \in Session : Controls(gw', s)
          /\ \A s \in Session : Controls(gw', s) /\ ~Accepted(gw', s) => Mistaken'
      BY <1>1, <2>1, <2>3 DEF ReasonInv, Executing, Mistaken
    <3> QED
      BY <1>1, <2>1, <3>1, EnteredReason DEF Mistaken
  <2> QED
    BY <2>2, <2>3
<1>8. ASSUME NEW call \in {"take", "release"}, AnswerLost(call)
      PROVE  FenceInv' /\ (ReasonInv => ReasonInv')
  <2>1. t.call = "take"
    <3>1. RequestOf(t) \in {"take", "restore"}
      BY <1>1, <1>8, HeadFields DEF AnswerLost, NoLostRelease
    <3>2. t.kind \in {"take", "release", "operator", "abandoned"}
      BY <1>1 DEF Transition
    <3> QED
      BY <1>1, <3>1, <3>2 DEF RequestOf, CallOf
  <2>2. call = "take"
    BY <1>1, <1>8, <2>1, HeadFields DEF AnswerLost, Calling
  <2>3. mishap' /\ late' \subseteq {"take"} /\ Enter("failed") /\ (human' \/ human' = human)
    BY <1>2, <1>8, <2>2 DEF AnswerLost, SetHuman
  <2>4. FenceInv'
    BY <1>1, <1>2, <1>3, <2>1, <2>3, EnteredFence
  <2>5. ReasonInv'
    BY <1>1, <2>1, <2>3, EnteredReason DEF Mistaken
  <2> QED
    BY <2>4, <2>5
<1> QED
  BY <1>4, <1>5, <1>6, <1>7, <1>8 DEF Serve

(* A take is executed late: the fence is up, whoever is in control.        *)
LEMMA LateFence ==
    ASSUME IInv, IInv', FenceInv, NEW call \in late, ExecuteLate(call)
    PROVE  FenceInv' /\ (ReasonInv => ReasonInv')
<1>1. human' /\ mishap' /\ late' \subseteq {"take"} /\ gw' = gw /\ transitions' = transitions
  BY DEF ExecuteLate, SetHuman, FenceInv
<1>2. FenceInv'
  BY <1>1 DEF FenceInv, OneOwner, OnlyOwner, AllPaused, InExecution, Executing
<1>3. ReasonInv'
  BY <1>1 DEF ReasonInv, Mistaken
<1> QED
  BY <1>2, <1>3
(* The answer of a take, a release or the operator decides who controls.   *)
LEMMA AnsweredFence ==
    ASSUME IInv, IInv', FenceInv, Answered \/ Refused
    PROVE  FenceInv' /\ (ReasonInv => ReasonInv')
<1> DEFINE t == transitions[1]
           c == IF t.kind = "take" THEN t.session ELSE NoSession
<1>1. /\ transitions # <<>> /\ t.kind \in {"take", "release", "operator"}
      /\ t.phase \in {"succeeded", "failed"} /\ Enter("settling")
      /\ t.call = CallOf(t)
      /\ human' = human /\ late' = late /\ mishap' = mishap
  BY HeadFields DEF Answered, Refused, Current
<1>2. c \in Session \cup {NoSession} /\ (t.kind = "take" => t.session \in Session)
  BY <1>1, HeadFields
<1>3. late \subseteq {"take"} /\ AllPaused(gw)
  BY <1>1, HeadFields DEF FenceInv, InExecution
<1>4. CASE Refused
  <2>1. t.phase = "failed" /\ gw' = gw
    BY <1>4, HeadFields DEF Refused, Current
  <2>2. human \/ \A s \in Session : ~Controls(gw, s)
    BY <1>1, <2>1 DEF FenceInv, Lowered, Executing
  <2>3. FenceInv'
    BY <1>1, <1>3, <2>1, <2>2, EnteredFence DEF FenceInv
  <2>4. ASSUME ReasonInv PROVE ReasonInv'
    <3>1. /\ Mistaken' \/ \E s \in Session : Controls(gw', s)
          /\ \A s \in Session : Controls(gw', s) /\ ~Accepted(gw', s) => Mistaken'
      BY <1>1, <2>1, <2>4 DEF ReasonInv, Executing, Mistaken
    <3> QED
      BY <1>1, <3>1, EnteredReason
  <2> QED
    BY <2>3, <2>4
<1>5. CASE Answered
  <2>1. t.phase = "succeeded" /\ gw' = SetController(gw, c)
    BY <1>5, HeadFields DEF Answered, Current
  <2> HIDE DEF c
  <2>2. /\ AllPaused(gw')
        /\ \A s \in Session : /\ Controls(gw', s) <=> s = c /\ gw.session[c].status # "deleted"
                              /\ gw'.session[s].status = gw.session[s].status
    BY <1>2, <1>3, <2>1, SetControllerGood DEF IInv, Good
  <2>3. OneOwner(gw')
    BY <2>2 DEF OneOwner
  <2>4. CASE t.kind = "take"
    <3>1. c = t.session /\ t.call = "take"
      BY <1>1, <2>4 DEF c, CallOf
    <3>2. human
      BY <1>1, <2>1, <3>1 DEF FenceInv, Executing, Anything
    <3>3. FenceInv'
      BY <1>1, <1>3, <2>2, <2>3, <3>2, EnteredFence
    <3>4. ASSUME ReasonInv PROVE ReasonInv'
      <4>1. mishap \/ Valid(gw, t.session)
        BY <1>1, <2>1, <2>4, <3>1, <3>4 DEF ReasonInv, Executing
      <4>2. /\ Mistaken' \/ \E s \in Session : Controls(gw', s)
            /\ \A s \in Session : Controls(gw', s) /\ ~Accepted(gw', s) => Mistaken'
        BY <1>1, <1>2, <2>2, <2>4, <3>1, <4>1 DEF Mistaken, Valid, Accepted
      <4> QED
        BY <1>1, <4>2, EnteredReason
    <3> QED
      BY <3>3, <3>4
  <2>5. CASE t.kind # "take"
    <3>1. t.call = "release" /\ \A s \in Session : ~Controls(gw', s)
      BY <1>1, <2>2, <2>5, ViewerAssumption DEF c, CallOf
    <3>2. FenceInv'
      BY <1>1, <1>3, <2>2, <2>3, <3>1, EnteredFence
    <3>3. ASSUME ReasonInv PROVE ReasonInv'
      <4>1. Mistaken'
        BY <1>1, <2>1, <3>1, <3>3 DEF ReasonInv, Executing, Mistaken, Anything
      <4> QED
        BY <1>1, <3>1, <4>1, EnteredReason
    <3> QED
      BY <3>2, <3>3
  <2> QED
    BY <2>4, <2>5
<1> QED
  BY <1>4, <1>5

\* No session is in control any more.
NoOwner(g) == \A s \in Session : ~Controls(g, s)

(* A release of abandoned control ends, with the control or without.       *)
LEMMA SettledFence ==
    ASSUME IInv, IInv', FenceInv, transitions # <<>>, Enter("settling"),
           transitions[1].phase # "queued", human' = human, late' = late, mishap' = mishap,
           \/ /\ NoOwner(gw') /\ AllPaused(gw')
              /\ ReasonInv => Mistaken
           \/ /\ gw'.session = gw.session /\ gw'.socket = gw.socket
              /\ human \/ NoOwner(gw)
              /\ ReasonInv => Mistaken \/ ~NoOwner(gw)
    PROVE  FenceInv' /\ (ReasonInv => ReasonInv')
<1>1. late \subseteq {"take"} /\ AllPaused(gw) /\ OneOwner(gw)
  BY HeadFields DEF FenceInv, InExecution
<1>2. CASE NoOwner(gw') /\ AllPaused(gw') /\ (ReasonInv => Mistaken)
  <2>1. OneOwner(gw')
    BY <1>2 DEF NoOwner, OneOwner
  <2>2. FenceInv'
    BY <1>1, <1>2, <2>1, EnteredFence DEF NoOwner
  <2>3. ReasonInv => ReasonInv'
    BY <1>2, EnteredReason DEF NoOwner, Mistaken
  <2> QED
    BY <2>2, <2>3
<1>3. CASE /\ gw'.session = gw.session /\ gw'.socket = gw.socket
           /\ human \/ NoOwner(gw)
           /\ ReasonInv => Mistaken \/ ~NoOwner(gw)
  <2>1. /\ OneOwner(gw') /\ AllPaused(gw')
        /\ \A s \in Session : /\ Controls(gw', s) <=> Controls(gw, s)
                              /\ Accepted(gw', s) <=> Accepted(gw, s)
    BY <1>1, <1>3 DEF OneOwner, AllPaused, Controls, Accepted
  <2>2. FenceInv'
    BY <1>1, <1>3, <2>1, EnteredFence DEF NoOwner
  <2>3. ASSUME ReasonInv PROVE ReasonInv'
    <3>1. /\ Mistaken' \/ \E s \in Session : Controls(gw', s)
          /\ \A s \in Session : Controls(gw', s) /\ ~Accepted(gw', s) => Mistaken'
      BY <1>3, <2>1, <2>3 DEF ReasonInv, Mistaken, NoOwner
    <3> QED
      BY <3>1, EnteredReason
  <2> QED
    BY <2>2, <2>3
<1> QED
  BY <1>2, <1>3

(* setControllingSession(null) in execution.                               *)
LEMMA GivenUp ==
    ASSUME IInv, FenceInv, transitions # <<>>, transitions[1].phase # "queued"
    PROVE  LET e == SetController(gw, NoSession) IN NoOwner(e) /\ AllPaused(e)
<1>1. AllPaused(gw) /\ GatewayInv(gw)
  BY HeadFields DEF FenceInv, InExecution, IInv
<1> QED
  BY <1>1, SetControllerGood, ViewerAssumption DEF Good, NoOwner
(* releaseAbandonedControl() after its release.                            *)
LEMMA AbandonedReleasedFence ==
    ASSUME IInv, IInv', FenceInv, AbandonedReleased
    PROVE  FenceInv' /\ (ReasonInv => ReasonInv')
<1> DEFINE t == transitions[1]
           s == t.session
<1>1. /\ transitions # <<>> /\ t.kind = "abandoned" /\ t.call = "release"
      /\ t.phase \in {"succeeded", "failed"}
      /\ s \in Session /\ t \in Transition /\ GatewayInv(gw) /\ QueueInv(transitions)
      /\ Released(t) /\ human' = human /\ late' = late /\ mishap' = mishap
  BY HeadFields DEF AbandonedReleased, Current, IInv
<1>2. AllPaused(gw) /\ OneOwner(gw) /\ OnlyOwner(gw, s) /\ late \subseteq {"take"}
  BY <1>1, HeadFields DEF FenceInv, InExecution, Executing
<1>3. t.phase = "failed" => human \/ NoOwner(gw)
  BY <1>1 DEF FenceInv, Lowered, Executing, NoOwner
<1>4. ReasonInv => /\ t.phase = "succeeded" => Mistaken
                   /\ t.phase = "failed" => Mistaken \/ ~NoOwner(gw)
  BY <1>1 DEF ReasonInv, Executing, Anything, Mistaken, NoOwner
<1>5. \/ gw' = gw /\ Enter("settling") /\ ~Controls(gw, s)
      \/ /\ gw' = gw /\ transitions' = [transitions EXCEPT ![1].phase = "calling", ![1].call = "take"]
         /\ Controls(gw, s) /\ Accepted(gw, s)
      \/ gw' = Armed(gw, s) /\ Enter("settling") /\ Controls(gw, s) /\ t.phase = "failed"
      \/ /\ gw' = SetController(gw, NoSession) /\ Enter("settling")
         /\ t.phase = "succeeded" \/ (Controls(gw, s) /\ ~Accepted(gw, s))
  BY <1>1 DEF Released
<1>6. CASE gw' = gw /\ Enter("settling") /\ ~Controls(gw, s)
  <2>1. NoOwner(gw)
    BY <1>2, <1>6 DEF NoOwner, OnlyOwner
  <2> QED
    BY <1>1, <1>2, <1>4, <1>6, <2>1, SettledFence
<1>7. CASE /\ gw' = gw /\ transitions' = [transitions EXCEPT ![1].phase = "calling", ![1].call = "take"]
           /\ Controls(gw, s) /\ Accepted(gw, s)
  <2> DEFINE x == [t EXCEPT !.phase = "calling", !.call = "take"]
  <2>1. /\ x \in Transition /\ x.kind = "abandoned" /\ x.session = s /\ x.phase = "calling"
        /\ x.call = "take"
    BY <1>1 DEF Transition
  <2>2. transitions' = [transitions EXCEPT ![1] = x]
    BY <1>1, <1>7 DEF QueueInv
  <2> HIDE DEF x
  <2>3. transitions' # <<>> /\ transitions'[1] = x
    BY <1>1, <2>1, <2>2, HeadChanges
  <2>4. FenceInv'
    BY <1>1, <1>2, <1>7, <2>1, <2>3 DEF FenceInv, Lowered, Executing
  <2>5. ASSUME ReasonInv PROVE ReasonInv'
    BY <1>1, <1>7, <2>1, <2>3, <2>5 DEF ReasonInv, Executing, Mistaken
  <2> QED
    BY <2>4, <2>5
<1>8. CASE gw' = Armed(gw, s) /\ Enter("settling") /\ Controls(gw, s) /\ t.phase = "failed"
  <2>1. gw'.session = gw.session /\ gw'.socket = gw.socket
    BY <1>1, <1>8, ArmedGood
  <2> QED
    BY <1>1, <1>3, <1>4, <1>8, <2>1, SettledFence
<1>9. CASE /\ gw' = SetController(gw, NoSession) /\ Enter("settling")
           /\ t.phase = "succeeded" \/ (Controls(gw, s) /\ ~Accepted(gw, s))
  <2>1. NoOwner(gw') /\ AllPaused(gw')
    BY <1>1, <1>9, GivenUp
  <2>2. ReasonInv => Mistaken
    BY <1>1, <1>4, <1>9 DEF ReasonInv, Mistaken
  <2> QED
    BY <1>1, <1>9, <2>1, <2>2, SettledFence
<1> QED
  BY <1>5, <1>6, <1>7, <1>8, <1>9

(* The fence is restored for the viewer, or control is given up.           *)
LEMMA AbandonedRestoredFence ==
    ASSUME IInv, IInv', FenceInv, AbandonedRestored
    PROVE  FenceInv' /\ (ReasonInv => ReasonInv')
<1> DEFINE t == transitions[1]
           s == t.session
<1>1. /\ transitions # <<>> /\ t.kind = "abandoned" /\ t.call = "take"
      /\ t.phase \in {"succeeded", "failed"} /\ s \in Session /\ GatewayInv(gw)
      /\ gw' = CASE t.phase = "failed" \/ ~Controls(gw, s) -> SetController(gw, NoSession)
                 [] t.phase = "succeeded" /\ Controls(gw, s) /\ HasControllingSocket(gw, s) -> gw
                 [] OTHER -> Armed(gw, s)
      /\ Enter("settling") /\ human' = human /\ late' = late /\ mishap' = mishap
  BY HeadFields DEF AbandonedRestored, Current, IInv
<1>2. t.phase = "succeeded" => human
  BY <1>1 DEF FenceInv, Executing, Anything
<1>3. \/ gw' = SetController(gw, NoSession) /\ (t.phase = "failed" \/ ~Controls(gw, s))
      \/ (gw' = gw \/ gw' = Armed(gw, s)) /\ t.phase = "succeeded" /\ Controls(gw, s)
  <2>1. CASE t.phase = "failed" \/ ~Controls(gw, s)
    <3>1. gw' = SetController(gw, NoSession)
      BY <1>1, <2>1
    <3> QED
      BY <2>1, <3>1
  <2>2. CASE t.phase # "failed" /\ Controls(gw, s)
    <3>1. gw' = gw \/ gw' = Armed(gw, s)
      BY <1>1, <2>2
    <3> QED
      BY <1>1, <2>2, <3>1
  <2> QED
    BY <2>1, <2>2
<1>4. CASE gw' = SetController(gw, NoSession) /\ (t.phase = "failed" \/ ~Controls(gw, s))
  <2>1. NoOwner(gw') /\ AllPaused(gw')
    BY <1>1, <1>4, GivenUp
  <2>2. ReasonInv => Mistaken
    BY <1>1, <1>4 DEF ReasonInv, Executing, Mistaken
  <2> QED
    BY <1>1, <2>1, <2>2, SettledFence
<1>5. CASE (gw' = gw \/ gw' = Armed(gw, s)) /\ t.phase = "succeeded" /\ Controls(gw, s)
  <2>1. gw'.session = gw.session /\ gw'.socket = gw.socket
    BY <1>1, <1>5, ArmedGood
  <2>2. ~NoOwner(gw)
    BY <1>1, <1>5 DEF NoOwner
  <2> QED
    BY <1>1, <1>2, <1>5, <2>1, <2>2, SettledFence
<1> QED
  BY <1>3, <1>4, <1>5

(* Every step keeps the fence, and the reasons for it.                     *)
LEMMA FenceStep ==
    ASSUME NoLostRelease
    PROVE  /\ IInv /\ IInv' /\ FenceInv /\ [Next]_vars => FenceInv'
           /\ IInv /\ IInv' /\ FenceInv /\ ReasonInv /\ [Next]_vars => ReasonInv'
<1> SUFFICES ASSUME IInv, IInv', FenceInv, [Next]_vars
             PROVE  FenceInv' /\ (ReasonInv => ReasonInv')
  OBVIOUS
<1>1. CASE UNCHANGED vars
  <2>1. gw' = gw /\ transitions' = transitions /\ human' = human /\ late' = late /\ mishap' = mishap
    BY <1>1 DEF vars
  <2>2. FenceInv'
    BY <2>1, QuietFence DEF SameExecution, NoGain
  <2>3. ASSUME ReasonInv PROVE ReasonInv'
    BY <2>1, <2>3, QuietReason DEF SameExecution
  <2> QED
    BY <2>2, <2>3
<1>2. CASE \E s \in Session : Open(s) \/ Expire(s) \/ Revoke(s)
  BY <1>2, SessionFence
<1>3. CASE \/ Prune \/ OperatorRelease \/ Settle
           \/ \E s \in Session : \/ GraceOver(s)
                                 \/ \E kind \in {"take", "release"} : Request(s, kind)
                                 \/ \E k \in Socket : Upgrade(k, s)
           \/ \E k \in Socket : Connect(k) \/ Connected(k) \/ Close(k)
  BY <1>3, QuietStep
<1>4. CASE Begin
  BY <1>4, BeginFence, BeginAbandonedFence DEF Begin
<1>5. CASE Serve
  BY <1>5, ServeFence
<1>6. CASE Answered \/ Refused \/ AbandonedReleased \/ AbandonedRestored
  BY <1>6, AnsweredFence, AbandonedReleasedFence, AbandonedRestoredFence
<1>7. CASE \E call \in late : ExecuteLate(call)
  BY <1>7, LateFence
<1> QED
  BY <1>1, <1>2, <1>3, <1>4, <1>5, <1>6, <1>7 DEF Next, Continue

LEMMA InitFence == Init => FenceInv /\ ReasonInv
<1> SUFFICES ASSUME Init PROVE FenceInv /\ ReasonInv
  OBVIOUS
<1>1. transitions = <<>> /\ human = FALSE /\ late = {} /\ \A s \in Session : ~Controls(gw, s)
  BY DEF Init, Controls
<1>2. FenceInv
  BY <1>1 DEF FenceInv, OneOwner, InExecution, Executing
<1>3. ReasonInv
  BY <1>1 DEF ReasonInv, Executing, Mistaken
<1> QED
  BY <1>2, <1>3

-----------------------------------------------------------------------------
(* The input of a controlling viewer reaches the desktop only behind the   *)
(* fence, also when it connects again during an automatic release          *)
(* (server.ts connectViewerAfterTransitions, releaseAbandonedControl), if  *)
(* no answer of a release is lost.  Takes may fail, be lost, or be         *)
(* executed when the gateway has given them up.                            *)
THEOREM FencedInput ==
    ASSUME NoLostRelease
    PROVE  Spec => []InputFenced
<1>1. IInv /\ FenceInv => InputFenced
  <2> SUFFICES ASSUME IInv, FenceInv, NEW k \in Socket, Forwards(k)
               PROVE  human
    BY DEF InputFenced
  <2>1. ForwardsIn(gw, k) /\ Controls(gw, gw.socket[k].of)
    BY DEF IInv, GatewayInv, Forwards, ForwardsIn
  <2>2. gw.socket[k].of \in Session
    BY <2>1 DEF IInv, GatewayInv, Gateway, SocketState, ForwardsIn
  <2>3. ~InExecution
    BY <2>1 DEF FenceInv, AllPaused, ForwardsIn
  <2>4. ~Lowered
    BY <2>3, HeadFields DEF InExecution, Lowered, Executing
  <2> QED
    BY <2>1, <2>2, <2>4 DEF FenceInv
<1>2. Spec => []FenceInv
  BY Inductive, InitFence, FenceStep, PTL DEF Spec
<1> QED
  BY <1>1, <1>2, Inductive, PTL

(* Agents are kept away only for an owner or a transition, or because a    *)
(* request for the fence failed or was lost, or a credential was revoked   *)
(* (server.ts serializeControlTransition, releaseAbandonedControl,         *)
(* pruneExpired).                                                          *)
THEOREM FenceHasReason ==
    ASSUME NoLostRelease
    PROVE  Spec => []NoStrandedFence
<1>1. ReasonInv => NoStrandedFence
  BY DEF ReasonInv, NoStrandedFence, Executing
<1>2. Spec => []FenceInv
  BY Inductive, InitFence, FenceStep, PTL DEF Spec
<1>3. Spec => []ReasonInv
  BY <1>2, Inductive, InitFence, FenceStep, PTL DEF Spec
<1> QED
  BY <1>1, <1>3, PTL
=============================================================================
