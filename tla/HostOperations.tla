--------------------------- MODULE HostOperations ---------------------------
(***************************************************************************)
(* The operations of the host on the containers of a computer: start, stop *)
(* and restart (packages/cli/src/lifecycle-operations.ts) and the backup,  *)
(* which pauses the containers while it captures the home (backups.ts).    *)
(* Each records in a journal what it is about to change, and recovery      *)
(* resumes what a journal records.  They are requested by a command, which *)
(* is refused while a journal is pending (prepareStateBeforeCommand of     *)
(* commands.ts), and by the dashboard, which instead executes a plan only  *)
(* if nothing the plan was made from has changed (application.ts).  All    *)
(* run under the lock of module StateLock, one at a time; the process of   *)
(* each may end between any two of its calls.                              *)
(***************************************************************************)
EXTENDS Integers, Sequences, FiniteSets

CONSTANTS
    Container,      \* the containers of the computer, by role
    Planned,        \* bound: the operations that the dashboard is asked for
    MaxOps,         \* bound: operations requested, CLI recovery not counted
    MaxFaults,      \* bound: processes that end in the middle, calls that fail
    MaxOutside,     \* bound: changes of a container past Qubicl
    Touched,        \* bound: the containers that are changed so
    None

ASSUME HostAssumption ==
    /\ Container # {} /\ IsFiniteSet(Container) /\ None \notin Container
    /\ Touched \subseteq Container
    /\ Planned \subseteq {"start", "stop", "restart", "quiesced", "stopped", "recover"}
    /\ \A n \in {MaxOps, MaxFaults, MaxOutside} : n \in Nat

Kind == {"start", "stop", "restart", "quiesced", "stopped", "recover"}
Capturing == {"quiesced", "stopped"}    \* the backups, by their consistency

VARIABLES
    box,          \* the containers: status, and an identity for each time made
    lifecycle,    \* computer-lifecycle.json
    backup,       \* backup-create.json
    staging,      \* the directory .creating-<operation> of the backup
    published,    \* the backups there are
    command,      \* the operation that has the lock
    plan,         \* the dashboard's plan, in the memory of its helper
    helper,       \* whether the dashboard's helper runs
    job,          \* the helper's durable record of each operation it accepted
    frozen,       \* the containers that a backup has paused (history)
    used          \* how much of each bound is used up

journals == <<lifecycle, backup>>
files == <<journals, staging, published>>
dashboard == <<plan, helper, job>>
vars == <<box, files, command, dashboard, frozen, used>>

Op == 1 .. MaxOps
Status == {"absent", "exited", "running", "paused"}
Identity == 0 .. (MaxOutside + 1)
Boxes == [Container -> [status : Status, id : Identity]]
Ids == [Container -> Identity]
Lifecycle == [no : Op, operation : {"start", "stop", "restart"}, ids : Ids \cup {None}]
Backup == [no : Op, phase : {"prepared", "paused", "archive-ready", "resumed"}, ids : Ids \cup {None}]
Staging == [no : Op, torn : BOOLEAN]
Job == {"none", "running", "succeeded", "failed", "recovery-required", "outcome-unknown"}

ASSUME NoneAssumption == None \notin Ids \cup Boxes \cup Lifecycle \cup Backup \cup Staging

\* A call to Docker, with the containers that it has still to go through.
DockerCalls ==
    [verb : {"stop", "restart", "start", "unpause", "pause", "up"},
     on : SUBSET (Container \X (Identity \cup {None}))]

\* An operation is at a place of the code within one of its parts.
Within == {"lifecycle", "begin", "create", "catch", "recover"}
Place ==
    {"observe", "recheck", "record", "docker", "verify", "clear", "lifecycle",
     "pending", "resume", "check", "clean", "unjournal",
     "stage", "paused", "capture", "captured", "resumed", "publish", "done", "failed"}

Operation ==
    [op : Kind, dashboard : BOOLEAN, no : Op \cup {0}, at : Place, within : Within, then : Place,
     seen : Boxes \cup {None}, calls : Seq(DockerCalls), err : BOOLEAN, since : 0 .. MaxOutside]

PlanType ==
    [op : Kind, ready : BOOLEAN,
     print : ((Lifecycle \cup {None}) \X (Backup \cup {None})) \X (Boxes \cup {None})]

NoCommand == [op |-> "none"]
Busy == command # NoCommand
At(place) == Busy /\ command.at = place

TypeOK ==
    /\ box \in Boxes
    /\ lifecycle \in Lifecycle \cup {None}
    /\ backup \in Backup \cup {None}
    /\ staging \in Staging \cup {None}
    /\ published \subseteq [no : Op, torn : BOOLEAN, quiet : BOOLEAN]
    /\ command \in Operation \cup {NoCommand}
    /\ plan \in PlanType \cup {None}
    /\ helper \in BOOLEAN
    /\ job \in [Op -> Job]
    /\ frozen \subseteq Container
    /\ used \in [ops : 0 .. MaxOps, faults : 0 .. MaxFaults, outside : 0 .. MaxOutside]

Pending == lifecycle # None \/ backup # None

\* The computer was created, or is running; a stop makes it exited.
Init ==
    /\ \E s \in {"absent", "running"} :
          box = [c \in Container |-> [status |-> s, id |-> 0]]
    /\ lifecycle = None /\ backup = None /\ staging = None /\ published = {}
    /\ command = NoCommand
    /\ plan = None /\ helper = TRUE /\ job = [n \in Op |-> "none"]
    /\ frozen = {}
    /\ used = [ops |-> 0, faults |-> 0, outside |-> 0]

-----------------------------------------------------------------------------
(* What an observation tells of the group                                  *)
(* (managedComputerRuntimeObservation).                                    *)
InAll(o, s) == \A c \in Container : o[c].status = s
Gone(o) == InAll(o, "absent")
Complete(o) == \E s \in Status \ {"absent"} : InAll(o, s)
Same(o, ids) == \A c \in Container : o[c].status # "absent" /\ o[c].id = ids[c]
IdsOf(o) == [c \in Container |-> o[c].id]
Those(o, s) == {c \in Container : o[c].status = s}

\* A group that a backup may leave behind (assertCoherentBackupPauseOutcome).
Coherent(o) == InAll(o, "running") \/ InAll(o, "exited")

Use(what) == used' = [used EXCEPT ![what] = @ + 1]

Goto(place) == command' = [command EXCEPT !.at = place]

\* Call Docker, and go on at the place then.
Docker(calls, then) ==
    command' = [command EXCEPT !.at = IF calls = <<>> THEN then ELSE "docker",
                               !.then = then, !.seen = None, !.calls = calls]

Call_Bug(verb, ids, among) ==
    IF among = {} THEN <<>> ELSE <<[verb |-> verb, on |-> {<<c, box[c].id>> : c \in among}]>>

\* One call, or none where there is nothing to call it for.
Call(verb, ids, among) ==
    IF among = {} THEN <<>> ELSE <<[verb |-> verb, on |-> {<<c, ids[c]>> : c \in among}]>>

\* An error ends the operation, but a backup that has written its journal
\* tries to recover first (the catch block of createBackup).
Throw ==
    command' = [command EXCEPT
        !.at = IF command.within = "create" THEN "pending" ELSE "failed",
        !.within = IF @ = "create" THEN "catch" ELSE @,
        !.calls = <<>>, !.err = FALSE, !.seen = None]

Fails ==
    /\ Busy /\ command.at \notin {"docker", "done", "failed"}
    /\ used.faults < MaxFaults /\ Use("faults")
    /\ Throw
    /\ UNCHANGED <<box, files, dashboard, frozen>>

-----------------------------------------------------------------------------
(* Docker.  A call names containers by identity, and goes through all of   *)
(* them even if one fails; Compose creates what is missing, by name.       *)
After(verb, s) ==
    CASE verb = "stop" -> "exited"
      [] verb = "restart" -> "running"
      [] verb = "start" /\ s # "paused" -> "running"
      [] verb = "unpause" /\ s = "paused" -> "running"
      [] verb = "pause" /\ s = "running" -> "paused"
      [] verb = "up" /\ s # "paused" -> "running"
      [] OTHER -> "refused"

Refuses(verb, c, id) ==
    \/ verb # "up" /\ (box[c].status = "absent" \/ box[c].id # id)
    \/ After(verb, box[c].status) = "refused"

Effect(verb, c) ==
    /\ box' = [box EXCEPT ![c] =
         [status |-> After(verb, @.status), id |-> IF @.status = "absent" THEN @.id + 1 ELSE @.id]]
    /\ frozen' = IF verb = "pause" THEN frozen \cup {c} ELSE frozen \ {c}

DockerCall ==
    /\ At("docker")
    /\ \E k \in Head(command.calls).on :
          LET verb == Head(command.calls).verb
              c == k[1]
              Tried(err) == command' = [command EXCEPT !.calls[1].on = @ \ {k}, !.err = @ \/ err]
          IN
          \/ /\ Refuses(verb, c, k[2]) /\ Tried(TRUE)
             /\ UNCHANGED <<box, frozen, used>>
          \/ /\ ~Refuses(verb, c, k[2]) /\ Effect(verb, c) /\ Tried(FALSE)
             /\ UNCHANGED used
          \/ /\ ~Refuses(verb, c, k[2])
             /\ used.faults < MaxFaults /\ Use("faults") /\ Tried(TRUE)
             /\ \/ Effect(verb, c)
                \/ UNCHANGED <<box, frozen>>
    /\ UNCHANGED <<files, dashboard>>

\* The answer of one call, after which there is another or none.
Answered ==
    LET rest == Tail(command.calls) IN
    command' = [command EXCEPT !.calls = rest, !.err = FALSE,
                               !.at = IF rest = <<>> THEN command.then ELSE "docker"]

DockerReturns_Bug ==
    /\ At("docker") /\ Head(command.calls).on = {}
    /\ Answered
    /\ UNCHANGED <<box, files, dashboard, frozen, used>>

DockerReturns ==
    /\ At("docker") /\ Head(command.calls).on = {}
    /\ IF command.err THEN Throw ELSE Answered
    /\ UNCHANGED <<box, files, dashboard, frozen, used>>

-----------------------------------------------------------------------------
(* start, stop and restart, and what is left of them after an interruption *)

\* The first observation, and assertLifecycleGroup.
Observe ==
    /\ At("observe") /\ command.within = "lifecycle"
    /\ \/ /\ Complete(box) \/ (Gone(box) /\ command.op = "start")
          /\ ~(command.op = "stop" /\ InAll(box, "exited"))
          /\ command' = [command EXCEPT !.seen = box,
                                        !.at = IF command.op = "stop" THEN "record" ELSE "recheck"]
       \/ command.op = "stop" /\ InAll(box, "exited") /\ Goto("done")
       \/ ~Complete(box) /\ ~(Gone(box) /\ command.op = "start") /\ Throw
    /\ UNCHANGED <<box, files, dashboard, frozen, used>>

\* Images, documents and the gateway have been prepared; the containers must
\* be those seen before (requireUnchangedRuntime).
Unchanged ==
    \/ Gone(command.seen) /\ Gone(box)
    \/ ~Gone(command.seen) /\ Complete(box) /\ Same(box, IdsOf(command.seen))

Recheck ==
    /\ At("recheck")
    /\ \/ ~Unchanged /\ Throw
       \/ Unchanged /\ command.op = "start" /\ InAll(box, "running") /\ Goto("done")
       \/ /\ Unchanged /\ ~(command.op = "start" /\ InAll(box, "running"))
          /\ command' = [command EXCEPT !.seen = box, !.at = "record"]
    /\ UNCHANGED <<box, files, dashboard, frozen, used>>

\* The calls that carry an operation out from the group o.
CallsFor(operation, ids, o) ==
    CASE operation \in {"stop", "restart"} -> Call(operation, ids, Container)
      [] operation = "start" /\ ids # None ->
            Call("unpause", ids, Those(o, "paused")) \o Call("start", ids, Those(o, "exited"))
      [] OTHER -> IF InAll(o, "running") THEN <<>>
                  ELSE Call("up", [c \in Container |-> None], Container)

Bound(o) == IF Gone(o) THEN None ELSE IdsOf(o)

\* beginComputerLifecycle.
Record ==
    /\ At("record") /\ command.within = "lifecycle"
    /\ \/ lifecycle # None /\ Throw /\ UNCHANGED lifecycle
       \/ /\ lifecycle = None
          /\ lifecycle' = [no |-> command.no, operation |-> command.op, ids |-> Bound(command.seen)]
          /\ Docker(CallsFor(command.op, Bound(command.seen), command.seen), "verify")
    /\ UNCHANGED <<box, backup, staging, published, dashboard, frozen, used>>

\* recoverPendingComputerLifecycle.
Recoverable_Bug(o) == lifecycle.ids # None => Complete(o) /\ Same(o, lifecycle.ids)

Recoverable(o) == lifecycle.ids # None => Same(o, lifecycle.ids)

RecoverLifecycle ==
    /\ At("lifecycle")
    /\ \/ lifecycle = None /\ Goto("done")
       \/ lifecycle # None /\ ~Recoverable(box) /\ Throw
       \/ /\ lifecycle # None /\ Recoverable(box)
          /\ Docker(CallsFor(lifecycle.operation, lifecycle.ids, box), "verify")
    /\ UNCHANGED <<box, files, dashboard, frozen, used>>

\* assertRecoveredRuntimeState, and the checks of gateway and health before it.
Verified ==
    /\ InAll(box, IF lifecycle.operation = "stop" THEN "exited" ELSE "running")
    /\ Recoverable(box)

Verify ==
    /\ At("verify")
    /\ \/ Verified /\ Goto("clear")
       \/ ~Verified /\ Throw
    /\ UNCHANGED <<box, files, dashboard, frozen, used>>

ClearLifecycle ==
    /\ At("clear") /\ lifecycle' = None /\ Goto("done")
    /\ UNCHANGED <<box, backup, staging, published, dashboard, frozen, used>>

-----------------------------------------------------------------------------
(* The recovery of a backup: on request, at the beginning of the next      *)
(* backup, and after an error of a backup.                                 *)
Return ==
    Goto(CASE command.within = "begin" -> "observe"
           [] command.within = "recover" -> "lifecycle"
           [] command.within = "catch" -> "failed"
           [] OTHER -> "done")

PendingBackup_Bug ==
    /\ At("pending")
    /\ \/ backup = None /\ Return
       \/ backup # None /\ Goto(IF backup.phase # "paused" THEN "clean" ELSE "resume")
    /\ UNCHANGED <<box, files, dashboard, frozen, used>>

PendingBackup ==
    /\ At("pending")
    /\ \/ backup = None /\ Return
       \/ backup # None /\ Goto(IF backup.ids = None THEN "clean" ELSE "resume")
    /\ UNCHANGED <<box, files, dashboard, frozen, used>>

\* resumeBackupPauseTargets, for a recovery and for the backup itself.
Resumed == Goto(IF command.within = "create" THEN "resumed" ELSE "clean")

Resume ==
    /\ At("resume")
    /\ LET paused == Those(box, "paused") IN
       \/ Same(box, backup.ids) /\ paused # {} /\ Docker(Call("unpause", backup.ids, paused), "check")
       \/ Same(box, backup.ids) /\ paused = {} /\ Coherent(box) /\ Resumed
       \/ ~(Same(box, backup.ids) /\ (paused = {} => Coherent(box))) /\ Throw
    /\ UNCHANGED <<box, files, dashboard, frozen, used>>

Check ==
    /\ At("check")
    /\ \/ Coherent(box) /\ Same(box, backup.ids) /\ Resumed
       \/ ~(Coherent(box) /\ Same(box, backup.ids)) /\ Throw
    /\ UNCHANGED <<box, files, dashboard, frozen, used>>

\* What was staged is discarded, what was published is kept.
Clean ==
    /\ At("clean")
    /\ IF staging # None /\ \E p \in published : p.no = backup.no
       THEN Throw /\ UNCHANGED staging
       ELSE staging' = None /\ Goto("unjournal")
    /\ UNCHANGED <<box, journals, published, dashboard, frozen, used>>

Unjournal ==
    /\ At("unjournal") /\ backup' = None /\ Return
    /\ UNCHANGED <<box, lifecycle, staging, published, dashboard, frozen, used>>

-----------------------------------------------------------------------------
(* createBackup                                                            *)
Capturable ==
    \/ Gone(box)
    \/ Complete(box) /\ (command.op = "stopped" => InAll(box, "exited"))

ObserveHome ==
    /\ At("observe") /\ command.within = "begin"
    /\ \/ ~Capturable /\ Throw
       \/ /\ Capturable
          /\ command' = [command EXCEPT !.seen = box, !.since = used.outside, !.at = "record"]
    /\ UNCHANGED <<box, files, dashboard, frozen, used>>

PauseTargets ==
    IF command.op = "quiesced" /\ InAll(command.seen, "running") THEN IdsOf(command.seen) ELSE None

RecordBackup ==
    /\ At("record") /\ command.within = "begin"
    /\ backup' = [no |-> command.no, phase |-> "prepared", ids |-> PauseTargets]
    /\ command' = [command EXCEPT !.within = "create", !.at = "stage", !.seen = None]
    /\ UNCHANGED <<box, lifecycle, staging, published, dashboard, frozen, used>>

Stage ==
    /\ At("stage")
    /\ staging' = [no |-> backup.no, torn |-> FALSE]
    /\ \/ backup.ids = None /\ Goto("capture")
       \/ backup.ids # None /\ Docker(Call("pause", backup.ids, Container), "paused")
    /\ UNCHANGED <<box, journals, published, dashboard, frozen, used>>

Phase(phase) == backup' = [backup EXCEPT !.phase = phase]

\* The journal is written again after each step; tar reads the home as long
\* as the backup is at "capture".
Advance ==
    /\ \/ At("paused") /\ Phase("paused") /\ Goto("capture")
       \/ At("capture") /\ Goto("captured") /\ UNCHANGED backup
       \/ At("captured") /\ Phase("archive-ready") /\ Goto(IF backup.ids = None THEN "resumed" ELSE "resume")
       \/ At("resumed") /\ Phase("resumed") /\ Goto("publish")
    /\ UNCHANGED <<box, lifecycle, staging, published, dashboard, frozen, used>>

Publish ==
    /\ At("publish")
    /\ published' = published \cup
         {[no |-> backup.no, torn |-> staging.torn, quiet |-> used.outside = command.since]}
    /\ staging' = None
    /\ Goto("unjournal")
    /\ UNCHANGED <<box, journals, dashboard, frozen, used>>

\* A container that runs changes the home while tar reads it.
HomeChanges ==
    /\ At("capture") /\ Those(box, "running") # {}
    /\ ~staging.torn /\ staging' = [staging EXCEPT !.torn = TRUE]
    /\ UNCHANGED <<box, journals, published, command, dashboard, frozen, used>>

-----------------------------------------------------------------------------
(* Who asks for operations                                                 *)
Begin(op, fromDashboard, no) ==
    command' =
        [op |-> op, dashboard |-> fromDashboard, no |-> no,
         at |-> IF op \in Capturing \cup {"recover"} THEN "pending" ELSE "observe",
         within |-> CASE op \in Capturing -> "begin" [] op = "recover" -> "recover" [] OTHER -> "lifecycle",
         then |-> "done", seen |-> None, calls |-> <<>>, err |-> FALSE, since |-> 0]

\* A command of the CLI, after prepareStateBeforeCommand.
Request(op) ==
    /\ ~Busy /\ used.ops < MaxOps /\ Use("ops")
    /\ lifecycle = None
    /\ backup = None \/ op \in Capturing
    /\ Begin(op, FALSE, used.ops + 1)
    /\ UNCHANGED <<box, files, dashboard, frozen>>

\* qubicl recover; it does nothing if no journal is pending.
Recover ==
    /\ ~Busy /\ Pending
    /\ Begin("recover", FALSE, 0)
    /\ UNCHANGED <<box, files, dashboard, frozen, used>>

\* What a plan depends on; a recovery has no target to observe.
Fingerprint(op) == <<journals, IF op = "recover" THEN None ELSE box>>

\* The dashboard's plan: the fingerprint, taken without the lock, and then
\* the preview.
Plan(op) ==
    /\ helper /\ plan = None
    /\ plan' = [op |-> op, print |-> Fingerprint(op), ready |-> FALSE]
    /\ UNCHANGED <<box, files, command, helper, job, frozen, used>>

Preview ==
    /\ helper /\ plan # None /\ ~plan.ready
    /\ \/ Pending /\ plan.op # "recover" /\ plan' = None
       \/ ~(Pending /\ plan.op # "recover") /\ plan' = [plan EXCEPT !.ready = TRUE]
    /\ UNCHANGED <<box, files, command, helper, job, frozen, used>>

\* The plan expires or is cancelled.
Discard ==
    /\ helper /\ plan # None /\ plan.ready /\ plan' = None
    /\ UNCHANGED <<box, files, command, helper, job, frozen, used>>

\* The plan is executed if its fingerprint is the same under the lock.
Execute_Bug ==
    /\ helper /\ plan # None /\ plan.ready /\ ~Busy
    /\ plan' = None
    /\ used.ops < MaxOps /\ Use("ops")
    /\ job' = [job EXCEPT ![used.ops + 1] = "running"]
    /\ Begin(plan.op, TRUE, used.ops + 1)
    /\ UNCHANGED <<box, files, helper, frozen>>

Execute ==
    /\ helper /\ plan # None /\ plan.ready /\ ~Busy
    /\ plan' = None
    /\ \/ plan.print # Fingerprint(plan.op) /\ UNCHANGED <<command, job, used>>
       \/ /\ plan.print = Fingerprint(plan.op)
          /\ used.ops < MaxOps /\ Use("ops")
          /\ job' = [job EXCEPT ![used.ops + 1] = "running"]
          /\ Begin(plan.op, TRUE, used.ops + 1)
    /\ UNCHANGED <<box, files, helper, frozen>>

Unfinished == IF Pending THEN "recovery-required" ELSE "failed"

\* The operation ends, and the helper records how.  A completed recovery
\* settles what earlier operations left.
Settled == [n \in Op |-> IF job[n] = "recovery-required" /\ command.op = "recover" THEN "failed" ELSE job[n]]

Ends ==
    /\ Busy /\ command.at \in {"done", "failed"}
    /\ command' = NoCommand
    /\ job' = IF ~command.dashboard THEN job
              ELSE IF At("done") THEN [Settled EXCEPT ![command.no] = "succeeded"]
              ELSE [job EXCEPT ![command.no] = Unfinished]
    /\ UNCHANGED <<box, files, plan, helper, frozen, used>>

-----------------------------------------------------------------------------
(* The process of the operation ends, for the dashboard that of the helper *)
(* with its plans; what it asked of Docker so far is done.                 *)
Crash ==
    /\ Busy /\ used.faults < MaxFaults /\ Use("faults")
    /\ command' = NoCommand
    /\ helper' = (helper /\ ~command.dashboard)
    /\ plan' = IF command.dashboard THEN None ELSE plan
    /\ UNCHANGED <<box, files, job, frozen>>

HelperStarts_Bug ==
    /\ ~helper /\ helper' = TRUE
    /\ job' = [n \in Op |-> IF job[n] # "running" THEN job[n] ELSE "outcome-unknown"]
    /\ UNCHANGED <<box, files, command, plan, frozen, used>>

\* ManagementApplication.initialize.
HelperStarts ==
    /\ ~helper /\ helper' = TRUE
    /\ job' = [n \in Op |->
         IF job[n] # "running" THEN job[n]
         ELSE IF Pending THEN "recovery-required" ELSE "outcome-unknown"]
    /\ UNCHANGED <<box, files, command, plan, frozen, used>>

\* Somebody stops, starts, pauses, resumes, removes or replaces a container
\* with Docker, or it ends by itself.
Outside ==
    /\ used.outside < MaxOutside /\ Use("outside")
    /\ \E c \in Touched :
          /\ box[c].status # "absent"
          /\ \/ \E s \in Status \ {box[c].status} :
                   /\ s = "paused" => box[c].status = "running"
                   /\ box' = [box EXCEPT ![c].status = s]
             \/ box' = [box EXCEPT ![c] = [status |-> "running", id |-> @.id + 1]]
          /\ frozen' = frozen \ {c}
    /\ UNCHANGED <<files, command, dashboard>>

-----------------------------------------------------------------------------
Step ==
    \/ DockerCall \/ DockerReturns
    \/ Observe \/ Recheck \/ Record \/ RecoverLifecycle \/ Verify \/ ClearLifecycle
    \/ PendingBackup \/ Resume \/ Check \/ Clean \/ Unjournal
    \/ ObserveHome \/ RecordBackup \/ Stage \/ Advance \/ Publish
    \/ Ends

Next ==
    \/ Step \/ Fails \/ HomeChanges
    \/ \E op \in Kind \ {"recover"} : Request(op)
    \/ Recover
    \/ \E op \in Planned : Plan(op)
    \/ Preview \/ Discard \/ Execute
    \/ Crash \/ HelperStarts \/ Outside

Spec == Init /\ [][Next]_vars

\* An operation goes on unless its process ends, and the operator answers a
\* pending journal with qubicl recover, again if it fails.
FairSpec == Spec /\ WF_vars(Step) /\ WF_vars(Recover)

-----------------------------------------------------------------------------
(* A container that a backup has paused stays on record until it is        *)
(* resumed: no interruption or error leaves a computer paused with nothing *)
(* to resume it.                                                           *)
PausesAreUndone ==
    frozen # {} => /\ backup # None /\ backup.ids # None
                   /\ \A c \in frozen : backup.ids[c] = box[c].id

(* The journals of two operations are never pending at once, so that no    *)
(* computer is started or stopped while a backup holds it: neither through *)
(* the CLI nor by a plan of the dashboard that was made before.            *)
OneJournal == lifecycle = None \/ backup = None

(* Whatever Qubicl changes is on record first: a container that an         *)
(* operation, or its recovery, stops, starts or pauses is the one, by      *)
(* identity, that the journal on disk names.                               *)
OnRecord(c) ==
    \/ lifecycle # None /\ (lifecycle.ids = None \/ lifecycle.ids[c] = box[c].id)
    \/ backup # None /\ backup.ids # None /\ backup.ids[c] = box[c].id

ChangesAreRecorded ==
    [][\A c \in Container : box'[c] # box[c] /\ used'.outside = used.outside => OnRecord(c)]_vars

(* A backup that calls itself quiesced or stopped is the home at one       *)
(* moment, unless somebody used Docker while it was made.                  *)
BackupsAreOfOneMoment == \A p \in published : p.torn => ~p.quiet

(* What the dashboard reports as over is over: an operation whose journal  *)
(* is still there is running or requires recovery, also after a restart.   *)
Over == {"succeeded", "failed", "outcome-unknown"}

ReportedOverIsOver ==
    \A n \in Op : job[n] \in Over =>
        /\ lifecycle # None => lifecycle.no # n
        /\ backup # None => backup.no # n

(* Recovery ends: a pending journal is cleared by repeated qubicl recover, *)
(* unless somebody used Docker to remove or replace a container that it    *)
(* names, to stop part of a group that a backup had paused, or to pause    *)
(* part of one that is being created.                                      *)
Replaced ==
    \/ lifecycle # None /\ lifecycle.ids # None /\ ~Same(box, lifecycle.ids)
    \/ backup # None /\ backup.ids # None /\ ~Same(box, backup.ids)

PartlyStopped ==
    backup # None /\ backup.ids # None /\ Those(box, "exited") \notin {{}, Container}

PausedByHand ==
    lifecycle # None /\ lifecycle.ids = None /\ Those(box, "paused") # {}

RecoveryEnds == Pending ~> (~Pending \/ Replaced \/ PartlyStopped \/ PausedByHand)
=============================================================================
