----------------------------- MODULE InputQueues -----------------------------
(***************************************************************************)
(* Desktop and browser input of one computer: the ordered queues of the    *)
(* control service (executor.ts) and of the desktop session runner         *)
(* (desktop-native.ts, browser.ts), between them a request that is given   *)
(* up after 35 seconds while the runner goes on with it, and the ownership *)
(* of module LeaseManager that may end at every moment.                    *)
(*                                                                         *)
(* A revocation handler ends without an error here (Lease and              *)
(* ControlService have the errors), and at most one JavaScript dialog is   *)
(* open at a time.                                                         *)
(***************************************************************************)
EXTENDS LeaseManager

CONSTANTS
    Slot,             \* tool calls in progress at the same time
    NoCall,           \* nobody waits for this piece of work any more
    QueueLimit,       \* 32 in each of the queues
    MaxChanges,       \* bound: no change of owner at this epoch and generation added up
    MaxWork           \* bound: no new call while a tool has this much unfinished work

ASSUME QueuesAssumption ==
    /\ NoCall \notin Slot
    /\ QueueLimit \in Nat \ {0} /\ MaxChanges \in Nat /\ MaxWork \in Nat

VARIABLES
    lm,         \* the LeaseManager
    call,       \* the calls of the input tools
    queue,      \* the operations admitted to each ordered queue
    probe,      \* pendingDesktopObservation is set
    desktop,    \* the runner's work of the desktop helper, in order
    browser,    \* the runner's queue of browser operations
    dialog,     \* a JavaScript dialog is open
    pointers,   \* whose pointers the ViewerPointerStore holds
    late        \* history: the inputs of ended owners since the owner last changed

control == <<call, queue, probe>>
runner == <<desktop, browser, dialog>>
vars == <<lm, control, runner, pointers, late>>

Tool == {"desktop", "browser", "dialog"}

Phase == {"idle", "queued", "sent", "returned", "observing", "check", "granted", "entered"}

Call == [tool : Tool, owner : LeaseProof, phase : Phase]

(***************************************************************************)
(* "behind" is history: what was in the runner before this input when it   *)
(* was sent, an unfinished observation or an abandoned request.  "told" is *)
(* what the caller has heard of the operation while it waits or runs.      *)
(***************************************************************************)
DesktopWork == [kind : {"input", "probe"}, owner : LeaseProof, call : Slot \cup {NoCall},
                begun : BOOLEAN, behind : {"nothing", "observation", "abandoned"}]

BrowserWork == [owner : LeaseProof, call : Slot \cup {NoCall},
                at : {"waiting", "check", "granted", "entered"},
                told : {"nothing", "awaiting", "notStarted"}]

TypeOK ==
    /\ lm \in Manager
    /\ call \in [Slot -> Call]
    /\ queue \in [{"desktop", "browser"} -> Seq(Slot)]
    /\ probe \in BOOLEAN /\ dialog \in BOOLEAN
    /\ desktop \in Seq(DesktopWork) /\ browser \in Seq(BrowserWork)
    /\ pointers \subseteq LeaseProof
    /\ late \in [Tool -> Seq({"nothing", "observation"})]

NoProof == [epoch |-> 0, generation |-> 0]

Idle == [tool |-> "desktop", owner |-> NoProof, phase |-> "idle"]

NoneLate == [t \in Tool |-> <<>>]

Init ==
    /\ lm = NewManager
    /\ call = [c \in Slot |-> Idle]
    /\ queue = [t \in {"desktop", "browser"} |-> <<>>]
    /\ probe = FALSE /\ dialog = FALSE
    /\ desktop = <<>> /\ browser = <<>>
    /\ pointers = {}
    /\ late = NoneLate

\* verifyInteractive()
Interactive(s, p) == Holds(s, p) /\ ~s.human /\ ~s.lease.backgroundOnly

GoTo(c, phase) == call' = [call EXCEPT ![c].phase = phase]

\* An ordered queue runs one operation at a time, and the next when it has settled.
After(settled) ==
    [t \in DOMAIN queue |->
        IF queue[t] # <<>> /\ Head(queue[t]) \in settled THEN Tail(queue[t]) ELSE queue[t]]

\* The call is answered and its operation leaves the ordered queue.
Settle(c) ==
    /\ call' = [call EXCEPT ![c] = Idle]
    /\ queue' = After({c})

IsHead(c, tool) == queue[tool] # <<>> /\ Head(queue[tool]) = c /\ call[c].phase = "queued"

\* An input that takes effect after its owner has lost interactive control.
Late(tool, p, behind) ==
    IF Interactive(lm, p) THEN late ELSE [late EXCEPT ![tool] = Append(@, behind)]

-----------------------------------------------------------------------------
(* Input ownership.                                                        *)

Holder(s) == <<s.human, IF s.lease = NoLease THEN NoLease ELSE ProofOf(s.lease)>>

Ownership(s) ==
    /\ lm' = s
    /\ late' = IF Holder(s) = Holder(lm) THEN late ELSE NoneLate
    /\ UNCHANGED <<control, runner>>

ChangeAllowed == lm.epoch + lm.generation < MaxChanges

Acquire(c, d) ==
    /\ ChangeAllowed
    /\ Ownership(Acquired(lm, c, d))
    /\ UNCHANGED pointers

Release(p) ==
    /\ ChangeAllowed
    /\ Ownership(Released(lm, p))
    /\ UNCHANGED pointers

TakeHumanControl ==
    /\ ChangeAllowed
    /\ ~lm.human
    /\ Ownership(HumanTaken(lm))
    /\ UNCHANGED pointers

ReleaseHumanControl ==
    /\ ChangeAllowed
    /\ pointers' = {}
    /\ Ownership(HumanReleased(lm))

Expire ==
    /\ lm.lease # NoLease
    /\ Ownership(ExpireIfNeeded([lm EXCEPT !.lease = [@ EXCEPT !.expiresIn = 0]]))
    /\ UNCHANGED pointers

ResetEpoch ==
    /\ ChangeAllowed
    /\ Ownership(EpochReset(lm))
    /\ UNCHANGED pointers

BeginJob ==
    /\ ~lm.running /\ lm.queue # <<>>
    /\ Ownership(JobBegun(lm))
    /\ UNCHANGED pointers

\* Definitions named ..._Bug are mutated forms of the definition they precede: the
\* properties are checked to notice the difference.
HandleRevocation_Bug(target) ==
    /\ UNCHANGED pointers
    /\ Ownership(HandlerSucceeded(lm, target))

\* The executor's revocation handler removes the pointers first.
HandleRevocation(target) ==
    /\ pointers' = {}
    /\ Ownership(HandlerSucceeded(lm, target))

SettleJob ==
    /\ lm.running /\ lm.todo = {}
    /\ Ownership(JobSettled(lm))
    /\ UNCHANGED pointers

-----------------------------------------------------------------------------
(* The control service: a call is verified when it arrives, waits for its  *)
(* turn, and is verified again before anything is sent to the runner.      *)

CallOf(tool, p, phase) == [tool |-> tool, owner |-> p, phase |-> phase]

LeftBehind(work) == Len(SelectSeq(work, LAMBDA w : w.call = NoCall))

Unfinished(tool) == Len(queue[tool]) + (IF tool = "desktop" THEN LeftBehind(desktop) ELSE LeftBehind(browser))

\* runDesktopOperation() and runBrowserOperation() up to their queue.
Admit(c, tool, p) ==
    /\ call[c].phase = "idle"
    /\ Unfinished(tool) < MaxWork
    /\ lm' = Verified(lm, p, TRUE)
    /\ IF Interactive(lm', p) /\ Len(queue[tool]) < QueueLimit
       THEN /\ call' = [call EXCEPT ![c] = CallOf(tool, p, "queued")]
            /\ queue' = [queue EXCEPT ![tool] = Append(@, c)]
       ELSE UNCHANGED <<call, queue>>
    /\ UNCHANGED <<probe, runner, pointers, late>>

BehindWhat ==
    IF desktop = <<>> THEN "nothing"
    ELSE IF \E i \in DOMAIN desktop : desktop[i].call = NoCall THEN "abandoned"
    ELSE "observation"

SendDesktop(c, p) ==
    /\ desktop' = Append(desktop, [kind |-> "input", owner |-> p, call |-> c,
                                   begun |-> FALSE, behind |-> BehindWhat])
    /\ pointers' = pointers \cup {p}
    /\ GoTo(c, "sent")
    /\ UNCHANGED queue

DispatchDesktop_ProbeBug(c) ==
    /\ IsHead(c, "desktop")
    /\ IF Interactive(lm, call[c].owner) THEN SendDesktop(c, call[c].owner)
       ELSE Settle(c) /\ UNCHANGED <<desktop, pointers>>
    /\ UNCHANGED <<lm, probe, browser, dialog, late>>

\* An observation whose deadline has passed may still run in the helper: the
\* input waits for it here, so that it is verified when it is really sent.
DispatchDesktop(c) ==
    /\ IsHead(c, "desktop")
    /\ ~probe
    /\ IF Interactive(lm, call[c].owner) THEN SendDesktop(c, call[c].owner)
       ELSE Settle(c) /\ UNCHANGED <<desktop, pointers>>
    /\ UNCHANGED <<lm, probe, browser, dialog, late>>

\* After the input, what the caller asked to observe.
Observe(c) ==
    /\ call[c].phase = "returned" /\ call[c].tool = "desktop"
    /\ probe' = TRUE
    /\ desktop' = Append(desktop, [kind |-> "probe", owner |-> call[c].owner, call |-> c,
                                   begun |-> FALSE, behind |-> BehindWhat])
    /\ GoTo(c, "observing")
    /\ UNCHANGED <<lm, queue, browser, dialog, pointers, late>>

\* The result, or what was seen by the deadline, is returned if the owner is
\* still the owner, and otherwise the answer is that it is uncertain.
Complete(c) ==
    /\ call[c].phase \in {"returned", "observing"}
    /\ Settle(c)
    /\ UNCHANGED <<lm, probe, runner, pointers, late>>

\* The runner queues the operation, or refuses it while a dialog is open.
DispatchBrowser(c) ==
    /\ IsHead(c, "browser")
    /\ IF Holds(lm, call[c].owner) /\ ~dialog /\ Len(browser) < QueueLimit
       THEN /\ browser' = Append(browser, [owner |-> call[c].owner, call |-> c,
                                           at |-> "waiting", told |-> "nothing"])
            /\ GoTo(c, "sent")
            /\ UNCHANGED queue
       ELSE Settle(c) /\ UNCHANGED browser
    /\ UNCHANGED <<lm, probe, desktop, dialog, pointers, late>>

\* What happens in the runner to work that nobody waits for any more.
Abandoned(work, c) ==
    [i \in DOMAIN work |-> IF work[i].call = c THEN [work[i] EXCEPT !.call = NoCall] ELSE work[i]]

\* 35 seconds are over.  The desktop's pointer is cancelled, and with it what
\* the store has of its owner, unless an earlier pointer was confirmed.
Abandon(c) ==
    /\ call[c].phase = "sent"
    /\ IF call[c].tool = "desktop"
       THEN /\ desktop' = Abandoned(desktop, c)
            /\ \E cancelled \in SUBSET {call[c].owner} : pointers' = pointers \ cancelled
            /\ UNCHANGED browser
       ELSE browser' = Abandoned(browser, c) /\ UNCHANGED <<desktop, pointers>>
    /\ Settle(c)
    /\ UNCHANGED <<lm, probe, dialog, late>>

AbandonProbe ==
    /\ probe
    /\ probe' = FALSE
    /\ desktop' = [i \in DOMAIN desktop |->
           IF desktop[i].kind = "probe" THEN [desktop[i] EXCEPT !.call = NoCall] ELSE desktop[i]]
    /\ UNCHANGED <<lm, call, queue, browser, dialog, pointers, late>>

-----------------------------------------------------------------------------
(* The runner's desktop queue, which knows nothing of owners.              *)

BeginDesktop ==
    /\ desktop # <<>> /\ ~Head(desktop).begun
    /\ desktop' = [desktop EXCEPT ![1].begun = TRUE]
    /\ late' = IF Head(desktop).kind = "input" /\ Head(desktop).behind # "abandoned"
               THEN Late("desktop", Head(desktop).owner, Head(desktop).behind)
               ELSE late
    /\ UNCHANGED <<lm, control, browser, dialog, pointers>>

EndDesktop ==
    /\ desktop # <<>> /\ Head(desktop).begun
    /\ desktop' = Tail(desktop)
    /\ CASE Head(desktop).call = NoCall -> UNCHANGED <<call, probe>>
         [] Head(desktop).call # NoCall /\ Head(desktop).kind = "probe" ->
                probe' = FALSE /\ UNCHANGED call
         [] OTHER -> GoTo(Head(desktop).call, "returned") /\ UNCHANGED probe
    /\ UNCHANGED <<lm, queue, browser, dialog, pointers, late>>

-----------------------------------------------------------------------------
(* The runner's browser queue.  Each input of an operation is sent after   *)
(* the control service has confirmed the owner, and followed by another    *)
(* question.  The answer travels: ownership may end behind it.             *)

AtHead(place) == browser # <<>> /\ Head(browser).at = place

MoveTo(place) == browser' = [browser EXCEPT ![1].at = place]

\* The operation leaves the queue; who still waits for it gets its answer.
LeaveQueue ==
    /\ browser' = Tail(browser)
    /\ IF Head(browser).call = NoCall THEN UNCHANGED call
       ELSE GoTo(Head(browser).call, "returned")

StartOperation_Bug ==
    /\ AtHead("waiting")
    /\ IF dialog THEN LeaveQueue ELSE MoveTo("check") /\ UNCHANGED call
    /\ UNCHANGED <<lm, queue, probe, desktop, dialog, pointers, late>>

\* A dialog that opened while the operation waited has cancelled it.
StartOperation ==
    /\ AtHead("waiting")
    /\ IF Head(browser).told = "notStarted" \/ dialog THEN LeaveQueue
       ELSE MoveTo("check") /\ UNCHANGED call
    /\ UNCHANGED <<lm, queue, probe, desktop, dialog, pointers, late>>

VerifyInput ==
    /\ AtHead("check")
    /\ IF Interactive(lm, Head(browser).owner) THEN MoveTo("granted") /\ UNCHANGED call
       ELSE LeaveQueue
    /\ UNCHANGED <<lm, queue, probe, desktop, dialog, pointers, late>>

InputTakesEffect ==
    /\ AtHead("granted")
    /\ MoveTo("entered")
    /\ late' = Late("browser", Head(browser).owner, "nothing")
    /\ UNCHANGED <<lm, control, desktop, dialog, pointers>>

\* The input returns when no dialog holds it; the batch goes on or is over.
RecheckInput ==
    /\ AtHead("entered") /\ ~dialog
    /\ \/ Interactive(lm, Head(browser).owner) /\ MoveTo("check") /\ UNCHANGED call
       \/ LeaveQueue
    /\ UNCHANGED <<lm, queue, probe, desktop, dialog, pointers, late>>

\* The page fails, a deadline passes, or the control service is not reached.
OperationFails ==
    /\ AtHead("check") \/ AtHead("granted") \/ AtHead("entered")
    /\ LeaveQueue
    /\ UNCHANGED <<lm, queue, probe, desktop, dialog, pointers, late>>

-----------------------------------------------------------------------------
(* Dialogs.  One that opens answers every browser operation: what runs is  *)
(* waiting for it, what waits will not be started.  The response to it     *)
(* bypasses both queues.                                                   *)

OpenDialog ==
    /\ ~dialog
    /\ dialog' = TRUE
    /\ browser' = [i \in DOMAIN browser |->
           [browser[i] EXCEPT !.call = NoCall,
                              !.told = CASE @ # "nothing" -> @
                                         [] @ = "nothing" /\ browser[i].at = "waiting" -> "notStarted"
                                         [] OTHER -> "awaiting"]]
    /\ LET answered == {browser[i].call : i \in DOMAIN browser} \ {NoCall} IN
       /\ call' = [c \in Slot |-> IF c \in answered THEN Idle ELSE call[c]]
       /\ queue' = After(answered)
    /\ UNCHANGED <<lm, probe, desktop, pointers, late>>

\* The other responses find the dialog gone, and fail.
CloseDialog(keep) ==
    /\ dialog' = FALSE
    /\ call' = [c \in Slot |-> IF call[c].tool # "dialog" THEN call[c]
                               ELSE IF c \in keep THEN [call[c] EXCEPT !.phase = "entered"]
                               ELSE Idle]

\* A person answers the dialog in a viewer, or its page is closed.
DialogGoes ==
    /\ dialog
    /\ CloseDialog({c \in Slot : call[c].tool = "dialog" /\ call[c].phase = "entered"})
    /\ UNCHANGED <<lm, queue, probe, desktop, browser, pointers, late>>

AdmitResponse(c, p) ==
    /\ call[c].phase = "idle"
    /\ dialog
    /\ lm' = Verified(lm, p, TRUE)
    /\ Interactive(lm', p)
    /\ call' = [call EXCEPT ![c] = CallOf("dialog", p, "check")]
    /\ UNCHANGED <<queue, probe, runner, pointers, late>>

Responding(c, phase) == call[c].tool = "dialog" /\ call[c].phase = phase

VerifyResponse(c) ==
    /\ Responding(c, "check")
    /\ IF Interactive(lm, call[c].owner) THEN GoTo(c, "granted") /\ UNCHANGED queue ELSE Settle(c)
    /\ UNCHANGED <<lm, probe, runner, pointers, late>>

Respond(c) ==
    /\ Responding(c, "granted")
    /\ CloseDialog({c} \cup {d \in Slot : Responding(d, "entered")})
    /\ late' = Late("dialog", call[c].owner, "nothing")
    /\ UNCHANGED <<lm, queue, probe, desktop, browser, pointers>>

RecheckResponse(c) ==
    /\ Responding(c, "entered")
    /\ Settle(c)
    /\ UNCHANGED <<lm, probe, runner, pointers, late>>

-----------------------------------------------------------------------------
(* Viewer pointers.                                                        *)

\* applyViewerPointerUpdate() of an intent, which may arrive long after the
\* browser operation has given it up.  The generation is compared, not the proof.
ApplyPointer(p) ==
    /\ pointers' = IF /\ lm.lease # NoLease /\ ~lm.human /\ ~lm.lease.backgroundOnly
                      /\ lm.generation = p.generation
                   THEN pointers \cup {p} ELSE pointers
    /\ UNCHANGED <<lm, control, runner, late>>

\* An operation that fails cancels what it has shown.
CancelPointer(p) ==
    /\ pointers' = pointers \ {p}
    /\ UNCHANGED <<lm, control, runner, late>>

-----------------------------------------------------------------------------
ChangeOwner ==
    \/ \E c \in Client, d \in Duration : Acquire(c, d)
    \/ \E p \in lm.issued : Release(p)
    \/ TakeHumanControl \/ ReleaseHumanControl
    \/ Expire
    \/ ResetEpoch

Job == BeginJob \/ SettleJob \/ \E t \in lm.todo : HandleRevocation(t)

Request(c) ==
    \E p \in lm.issued : AdmitResponse(c, p) \/ \E tool \in DOMAIN queue : Admit(c, tool, p)

Serve(c) ==
    \/ DispatchDesktop(c) \/ DispatchBrowser(c) \/ Abandon(c) \/ Observe(c) \/ Complete(c)
    \/ VerifyResponse(c) \/ Respond(c) \/ RecheckResponse(c)

Runner ==
    \/ BeginDesktop \/ EndDesktop
    \/ StartOperation \/ VerifyInput \/ InputTakesEffect \/ RecheckInput
    \/ OperationFails
    \/ OpenDialog \/ DialogGoes

Pointer ==
    \/ \E p \in lm.issued : ApplyPointer(p)
    \/ \E p \in pointers : CancelPointer(p)

Next ==
    \/ ChangeOwner \/ Job
    \/ \E c \in Slot : Request(c) \/ Serve(c)
    \/ AbandonProbe
    \/ Runner
    \/ Pointer

Spec == Init /\ [][Next]_vars

-----------------------------------------------------------------------------
(* After its owner has lost interactive control, an input takes effect     *)
(* only if it was on its way at that moment: it had waited for nothing in  *)
(* the runner, at most one per tool, until the owner changes again.        *)
(* Desktop input behind an abandoned request is not covered: see README.   *)
FewLateInputs ==
    \A t \in Tool : Len(late[t]) <= 1 /\ \A i \in DOMAIN late[t] : late[t][i] = "nothing"

(* What was answered "dispatch: not-started", so that the caller may do    *)
(* it again, is never started, also when the dialog that interrupted it    *)
(* is gone before its turn comes (docs/browser-control.md:81).             *)
NotStartedStaysSo ==
    \A i \in DOMAIN browser : browser[i].told = "notStarted" => browser[i].at = "waiting"

(* The pointer that viewers see is of the generation that has control, or  *)
(* a revocation job that removes it has still to end.                      *)
PointerOfOwner ==
    \A p \in pointers :
        Revoking(lm) \/ (lm.lease # NoLease /\ ~lm.human /\ p.generation = lm.generation)
=============================================================================
