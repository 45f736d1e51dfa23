------------------------------ MODULE Processes ------------------------------
(***************************************************************************)
(* The command runner of one computer (packages/control/src/processes.ts,  *)
(* pty.ts): session commands, tasks, services and terminals, the limit     *)
(* they share, the ways to stop them, and what a restart of the runner     *)
(* finds on disk.  A restart of the runner is a restart of the computer,   *)
(* so no process survives it.                                              *)
(***************************************************************************)
EXTENDS Naturals, FiniteSets

CONSTANTS
    Session, Task, Service,   \* identifiers of commands, by life cycle
    Terminal,                 \* identifiers of terminals
    Owner, OwnerOf,           \* the lease in which a session or terminal started
    maxProcesses,
    maxCompletedProcesses,    \* finished records that a compaction retains
    maxAttempts,              \* crash restarts of each service, 0 for none
    RemovalFails,             \* whether the removal of a saved service may fail
    ShortWrites,              \* whether a record may be written in part
    MaxRequests               \* bound: stops and terminations in progress at once

Managed == Session \cup Task \cup Service

ASSUME ProcessesAssumption ==
    /\ Session \cap Task = {} /\ Session \cap Service = {} /\ Task \cap Service = {}
    /\ Terminal \cap Managed = {}
    /\ IsFiniteSet(Managed \cup Terminal) /\ OwnerOf \in [Session \cup Terminal -> Owner]
    /\ maxProcesses \in Nat \ {0} /\ maxCompletedProcesses \in Nat \ {0}
    /\ maxAttempts \in [Service -> Nat]
    /\ RemovalFails \in BOOLEAN /\ ShortWrites \in BOOLEAN /\ MaxRequests \in Nat

VARIABLES
    table,       \* what the manager holds in memory, and the groups the kernel has
    mode,        \* the runner: off, loading its files, on, or shutting down
    bulk,        \* the operation that stops everything
    stopping,    \* for each kind of stop, how far it is with each command
    revocation,  \* the termination of one owner's sessions
    definitions, \* the services saved on disk
    history,     \* the task records in memory
    journal,     \* the task records that the file gives when it is read
    torn,        \* whether the file ends in an incomplete record
    stopped,     \* history: services whose stop was acknowledged
    kept         \* history: waiting services that could not be disabled

files == <<definitions, history, journal, torn>>
vars == <<table, mode, bulk, stopping, revocation, definitions, history, journal, torn,
          stopped, kept>>

(***************************************************************************)
(* A command is live until its process has exited and its pipes are        *)
(* closed.  A crashed service waits ("backoff"), then for its old group    *)
(* ("fencing"), and is in limbo when the restart finds work frozen.  The   *)
(* record of a finished command stays ("done") until it is discarded       *)
(* ("gone"); "dropped" is a record deleted before its process has closed.  *)
(***************************************************************************)
Restarting == {"backoff", "fencing", "limbo"}
Running == {"live"} \cup Restarting
Work == [at : Running \cup {"absent", "done", "dropped", "gone"}, told : BOOLEAN, tries : Nat]

Absent == [at |-> "absent", told |-> FALSE, tries |-> 0]
Fresh == [at |-> "live", told |-> FALSE, tries |-> 0]
Done == [at |-> "done", told |-> TRUE, tries |-> 0]

TaskStatus == {"none", "running", "exited", "interrupted"}

NoBulk == [on |-> FALSE, todo |-> {}, failed |-> FALSE]
NoRevocation == [phase |-> "no", sessions |-> {}, terminals |-> {}]
NothingStopping == [op \in {"stop", "bulk"} |-> [i \in Managed |-> "no"]]
Empty == [work |-> [i \in Managed |-> Absent], terminals |-> {}, pending |-> {},
          unstartable |-> {}, alive |-> {}]

TypeOK ==
    /\ table \in [work : [Managed -> Work], terminals : SUBSET Terminal, pending : SUBSET Service,
                  unstartable : SUBSET Service, alive : SUBSET Managed]
    /\ mode \in {"off", "loading", "on", "closing"}
    /\ bulk \in [on : BOOLEAN, todo : SUBSET (Managed \cup Terminal), failed : BOOLEAN]
    /\ stopping \in [{"stop", "bulk"} -> [Managed -> {"no", "killing", "fencing"}]]
    /\ revocation \in [phase : {"no", "terminals", "groups"}, sessions : SUBSET Session,
                       terminals : SUBSET Terminal]
    /\ definitions \subseteq Service
    /\ history \in [Task -> TaskStatus] /\ journal \in [Task -> TaskStatus]
    /\ torn \in BOOLEAN
    /\ stopped \subseteq Service /\ kept \subseteq Service
    /\ table.unstartable \subseteq table.pending
    /\ mode \in {"off", "loading"} => table.alive = {} /\ table.terminals = {}

Init ==
    /\ table = Empty
    /\ mode = "off"
    /\ bulk = NoBulk
    /\ stopping = NothingStopping
    /\ revocation = NoRevocation
    /\ definitions = {}
    /\ history = [i \in Task |-> "none"]
    /\ journal = history
    /\ torn = FALSE
    /\ stopped = {}
    /\ kept = {}

-----------------------------------------------------------------------------
(* The manager's table *)

Recorded(t, i) == t.work[i].at \in Running \cup {"done"}

\* Definitions named ..._Bug are mutated forms of the definition they precede: the
\* properties are checked to notice the difference.
Count_Bug(t) ==
    Cardinality({i \in Managed : t.work[i].at = "live"}) + Cardinality(t.terminals)

Count(t) ==
    Cardinality({i \in Managed : t.work[i].at \in Running}) + Cardinality(t.terminals)

Started(t, i) == [t EXCEPT !.work[i] = Fresh, !.alive = @ \cup {i}]

Launched(t, go, bad) ==
    [t EXCEPT !.work = [i \in Managed |-> IF i \in go THEN Fresh ELSE @[i]],
              !.alive = @ \cup go, !.pending = @ \ go, !.unstartable = @ \cup bad]

(* The waiting services are tried in order until the limit is reached; one   *)
(* that cannot be started keeps its place and its error.                     *)
FillSlots(t) ==
    LET eligible == t.pending \ t.unstartable
        Room(go) == Count(t) + Cardinality(go)
    IN  IF Count(t) >= maxProcesses
        THEN {t}
        ELSE {Launched(t, c[1], c[2]) : c \in
                {c \in (SUBSET eligible) \X (SUBSET eligible) :
                    /\ c[1] \cap c[2] = {}
                    /\ Room(c[1]) <= maxProcesses
                    /\ c[1] \cup c[2] = eligible \/ Room(c[1]) = maxProcesses}}

Frozen == bulk.on \/ mode = "closing"

Drains(t) == IF Frozen THEN {t} ELSE FillSlots(t)

Completions_Bug(t, i) == {[t EXCEPT !.work[i] = Done]}

Completions(t, i) == Drains([t EXCEPT !.work[i] = Done])

(* The part of terminate() before its first await. *)
Terminations(t, i) ==
    CASE t.work[i].at \in Restarting -> Completions(t, i)
      [] t.work[i].at = "live" -> {[t EXCEPT !.work[i].told = TRUE]}
      [] OTHER -> {t}

Deleted(t, some) ==
    [t EXCEPT !.work = [i \in Managed |->
        CASE i \in some /\ @[i].at = "done" -> [@[i] EXCEPT !.at = "gone"]
          [] i \in some /\ @[i].at = "live" -> [@[i] EXCEPT !.at = "dropped"]
          [] OTHER -> @[i]]]

-----------------------------------------------------------------------------
(* Task records: a file that is appended to and sometimes compacted *)

(* The file is rewritten with the running tasks and the newest others. *)
Compacted(h) ==
    LET finished == {i \in Task : h[i] \in {"exited", "interrupted"}}
    IN  {[i \in Task |-> IF i \in drop THEN "none" ELSE h[i]] : drop \in
            {d \in SUBSET finished : Cardinality(finished \ d) <= maxCompletedProcesses
                 /\ (d = {} \/ Cardinality(finished \ d) = maxCompletedProcesses)}}

(* What comes of one append: a record that follows an incomplete one is read *)
(* as one line with it, and neither is understood.                           *)
Appends(i, status) ==
    LET latest == [history EXCEPT ![i] = status]
        written == IF torn THEN journal ELSE [journal EXCEPT ![i] = status]
        Result(j, t, h, ok) == [journal |-> j, torn |-> t, history |-> h, ok |-> ok]
    IN  {Result(written, FALSE, latest, TRUE),
         Result(written, FALSE, history, FALSE),
         Result(journal, torn, history, FALSE)}
        \cup {Result(h, FALSE, [h EXCEPT ![i] = status], TRUE) : h \in Compacted(latest)}
        \cup (IF ShortWrites THEN {Result(journal, TRUE, history, FALSE)} ELSE {})

Recording(a) == journal' = a.journal /\ torn' = a.torn /\ history' = a.history

-----------------------------------------------------------------------------
(* The runner starts and ends *)

Emptied(t) ==
    [Empty EXCEPT !.work = [i \in Managed |->
        IF i \in Task /\ t.work[i].at # "absent" THEN [Absent EXCEPT !.at = "gone"] ELSE Absent]]

RunnerEnds ==
    /\ mode' = "off"
    /\ table' = Emptied(table)
    /\ bulk' = NoBulk
    /\ stopping' = NothingStopping
    /\ revocation' = NoRevocation
    /\ kept' = {}
    /\ UNCHANGED <<definitions, stopped>>

Exit ==
    /\ mode # "off"
    /\ RunnerEnds
    /\ UNCHANGED <<history, journal, torn>>

Load ==
    /\ mode = "off"
    /\ mode' = "loading"
    /\ history' = journal
    /\ UNCHANGED <<table, bulk, stopping, revocation, definitions, journal, torn, stopped, kept>>

MarkInterrupted_Bug(i) ==
    /\ mode = "loading"
    /\ history[i] \in {"running", "exited"}
    /\ \E a \in Appends(i, "interrupted") :
          /\ Recording(a)
          /\ IF a.ok
             THEN UNCHANGED <<table, mode, bulk, stopping, revocation, definitions, stopped, kept>>
             ELSE RunnerEnds

(* loadTaskHistory(): the constructor throws when a record cannot be written. *)
MarkInterrupted(i) ==
    /\ mode = "loading"
    /\ history[i] = "running"
    /\ \E a \in Appends(i, "interrupted") :
          /\ Recording(a)
          /\ IF a.ok
             THEN UNCHANGED <<table, mode, bulk, stopping, revocation, definitions, stopped, kept>>
             ELSE RunnerEnds

Serve_Bug ==
    /\ mode = "loading"
    /\ mode' = "on"
    /\ table' \in FillSlots([table EXCEPT !.pending = definitions])
    /\ UNCHANGED <<bulk, stopping, revocation, files, stopped, kept>>

Serve ==
    /\ mode = "loading"
    /\ \A i \in Task : history[i] # "running"
    /\ mode' = "on"
    /\ table' \in FillSlots([table EXCEPT !.pending = definitions])
    /\ \/ UNCHANGED <<history, journal, torn>>
       \/ \E h \in Compacted(history) : Recording([journal |-> h, torn |-> FALSE, history |-> h])
    /\ UNCHANGED <<bulk, stopping, revocation, definitions, stopped, kept>>

(* shutdown(): everything is told to end; the process exits when all has. *)
Shutdown ==
    /\ mode = "on"
    /\ mode' = "closing"
    /\ table' = [table EXCEPT !.work = [i \in Managed |->
                    CASE @[i].at \in Restarting -> Done
                      [] @[i].at = "live" -> [@[i] EXCEPT !.told = TRUE]
                      [] OTHER -> @[i]]]
    /\ UNCHANGED <<bulk, stopping, revocation, definitions, history, journal, torn, stopped, kept>>

-----------------------------------------------------------------------------
(* Admission *)

Admits_Bug == mode = "on"

Admits == mode = "on" /\ ~bulk.on
HasRoom(t) == Count(t) < maxProcesses

StartSession(i) ==
    /\ Admits
    /\ table.work[i].at = "absent"
    /\ \E t \in Drains(table) : table' = IF HasRoom(t) THEN Started(t, i) ELSE t
    /\ UNCHANGED <<mode, bulk, stopping, revocation, definitions, history, journal, torn,
                   stopped, kept>>

(* The record is written after the process was started; when that fails the *)
(* caller gets the error and the process runs, without a limit on its life. *)
StartTask(i) ==
    /\ Admits
    /\ table.work[i].at = "absent"
    /\ \E t \in Drains(table) :
          IF HasRoom(t)
          THEN table' = Started(t, i) /\ \E a \in Appends(i, "running") : Recording(a)
          ELSE table' = t /\ UNCHANGED <<history, journal, torn>>
    /\ UNCHANGED <<mode, bulk, stopping, revocation, definitions, stopped, kept>>

(* The definition is saved first and removed again when the start is refused. *)
StartService(i) ==
    /\ mode = "on"
    /\ table.work[i].at = "absent"
    /\ i \notin definitions \cup stopped
    /\ \E t \in Drains(table) :
          IF HasRoom(t) /\ ~bulk.on
          THEN table' = Started(t, i) /\ definitions' = definitions \cup {i} /\ UNCHANGED kept
          ELSE /\ table' = t
               /\ \/ UNCHANGED <<definitions, kept>>
                  \/ RemovalFails /\ definitions' = definitions \cup {i} /\ kept' = kept \cup {i}
    /\ UNCHANGED <<mode, bulk, stopping, revocation, history, journal, torn, stopped>>

OpenTerminal(x) ==
    /\ Admits
    /\ x \notin table.terminals
    /\ \E t \in Drains(table) :
          table' = IF HasRoom(t) THEN [t EXCEPT !.terminals = @ \cup {x}] ELSE t
    /\ UNCHANGED <<mode, bulk, stopping, revocation, definitions, history, journal, torn,
                   stopped, kept>>

-----------------------------------------------------------------------------
(* What processes do by themselves *)

(* The last process of a group ends, by itself or because it was killed. *)
GroupEnds(i) ==
    /\ i \in table.alive
    /\ table' = [table EXCEPT !.alive = @ \ {i}]
    /\ UNCHANGED <<mode, bulk, stopping, revocation, files, stopped, kept>>

(* A terminal ends, or its owner closes it; this does not look for waiting work. *)
TerminalEnds(x) ==
    /\ x \in table.terminals
    /\ table' = [table EXCEPT !.terminals = @ \ {x}]
    /\ UNCHANGED <<mode, bulk, stopping, revocation, files, stopped, kept>>

(* The close event: restart, or complete().  Other members of the group may   *)
(* live on.  An error while the record of a task is written is not caught.   *)
Close(i, crashed) ==
    LET w == table.work[i]
        restarts == i \in Service /\ crashed /\ ~w.told /\ w.tries < maxAttempts[i]
    IN  /\ w.at = "live"
        /\ IF restarts
           THEN /\ table' = [table EXCEPT !.work[i].at = "backoff", !.work[i].tries = @ + 1]
                /\ UNCHANGED <<mode, bulk, stopping, revocation, files, stopped, kept>>
           ELSE IF i \in Task
           THEN \E a \in Appends(i, "exited") :
                   /\ Recording(a)
                   /\ IF a.ok
                      THEN /\ table' \in Completions(table, i)
                           /\ UNCHANGED <<mode, bulk, stopping, revocation, definitions, stopped, kept>>
                      ELSE RunnerEnds
           ELSE /\ table' \in Completions(table, i)
                /\ UNCHANGED <<mode, bulk, stopping, revocation, files, stopped, kept>>

(* The same event after the record was deleted. *)
CloseDropped(i) ==
    /\ table.work[i].at = "dropped"
    /\ table' \in Drains([table EXCEPT !.work[i].at = "gone"])
    /\ UNCHANGED <<mode, bulk, stopping, revocation, files, stopped, kept>>

RestartDue(i) ==
    /\ table.work[i].at = "backoff"
    /\ table' = [table EXCEPT !.work[i].at = "fencing"]
    /\ UNCHANGED <<mode, bulk, stopping, revocation, files, stopped, kept>>

(* restartService() after its await: the old group is gone, or it is not. *)
Restart(i) ==
    /\ table.work[i].at = "fencing"
    /\ \/ /\ i \notin table.alive
          /\ table' = IF Frozen THEN [table EXCEPT !.work[i].at = "limbo"]
                      ELSE [table EXCEPT !.work[i].at = "live", !.alive = @ \cup {i}]
       \/ table' \in Completions(table, i)
    /\ UNCHANGED <<mode, bulk, stopping, revocation, files, stopped, kept>>

(* A timeout or the end of a task's life: terminate(), with nobody waiting. *)
Limit(i) ==
    /\ table.work[i].at \in Running
    /\ i \in Task => history[i] = "running"
    /\ table' \in Terminations(table, i)
    /\ UNCHANGED <<mode, bulk, stopping, revocation, files, stopped, kept>>

(* A finished record is read, expires or is pruned; a service's is not. *)
Discard(i) ==
    /\ i \notin Service
    /\ table.work[i].at = "done"
    /\ i \notin table.alive
    /\ table' = Deleted(table, {i})
    /\ UNCHANGED <<mode, bulk, stopping, revocation, files, stopped, kept>>

-----------------------------------------------------------------------------
(* Stopping one command: stop(), stopForManagement(), deleteCompatibility() *)

StopBegins(op, i) ==
    /\ Recorded(table, i)
    /\ stopping[op][i] = "no"
    /\ table' \in Terminations(table, i)
    /\ stopping' = [stopping EXCEPT ![op][i] =
                       IF table.work[i].at \in Restarting THEN "fencing" ELSE "killing"]

StillRunning(i) == table.work[i].at \in {"live", "dropped"} /\ UNCHANGED <<table, definitions, stopped>>

FenceThrows(op, i) ==
    stopping[op][i] = "fencing" /\ i \in table.alive /\ UNCHANGED <<table, definitions, stopped>>

Finished(op, i) ==
    table.work[i].at \in {"done", "gone"} /\ (stopping[op][i] = "fencing" => i \notin table.alive)

(* The definition goes first; then the record, when the group is gone. *)
RemovalThrows(op, i) ==
    Finished(op, i) /\ i \in Service /\ RemovalFails /\ UNCHANGED <<table, definitions, stopped>>

DiscardThrows(op, i) ==
    /\ Finished(op, i)
    /\ i \in table.alive
    /\ definitions' = definitions \ {i}
    /\ UNCHANGED <<table, stopped>>

StopSucceeds_Bug(op, i) ==
    /\ Finished(op, i)
    /\ i \notin table.alive
    /\ definitions' = IF op = "stop" THEN definitions \ {i} ELSE definitions
    /\ table' = Deleted(table, {i})
    /\ stopped' = stopped \cup ({i} \cap Service)

StopSucceeds(op, i) ==
    /\ Finished(op, i)
    /\ i \notin table.alive
    /\ definitions' = definitions \ {i}
    /\ table' = Deleted(table, {i})
    /\ stopped' = stopped \cup ({i} \cap Service)

StopEnds(op, i) ==
    /\ stopping[op][i] # "no"
    /\ stopping' = [stopping EXCEPT ![op][i] = "no"]
    /\ \/ StopSucceeds(op, i) /\ UNCHANGED bulk
       \/ /\ StillRunning(i) \/ FenceThrows(op, i) \/ RemovalThrows(op, i) \/ DiscardThrows(op, i)
          /\ bulk' = IF op = "bulk" THEN [bulk EXCEPT !.failed = TRUE] ELSE bulk
    /\ UNCHANGED <<mode, revocation, history, journal, torn, kept>>

Disable_Bug(i) ==
    /\ i \in table.pending
    /\ table' = [table EXCEPT !.pending = @ \ {i}]
    /\ definitions' = definitions \ {i}
    /\ stopped' = stopped \cup {i}

(* A service that waits for a slot is disabled at once. *)
Disable(i) ==
    /\ i \in table.pending
    /\ table' = [table EXCEPT !.pending = @ \ {i}, !.unstartable = @ \ {i}]
    /\ definitions' = definitions \ {i}
    /\ stopped' = stopped \cup {i}

Requests ==
    Cardinality({i \in Managed : stopping["stop"][i] # "no"})
    + (IF bulk.on THEN 1 ELSE 0) + (IF revocation.phase # "no" THEN 1 ELSE 0)

Stop(i) ==
    /\ mode = "on"
    /\ \/ Requests < MaxRequests /\ StopBegins("stop", i) /\ UNCHANGED <<definitions, stopped>>
       \/ Disable(i) /\ UNCHANGED stopping
    /\ UNCHANGED <<mode, bulk, revocation, history, journal, torn, kept>>

-----------------------------------------------------------------------------
(* Stopping everything: stopAllForManagement() *)

StopAll ==
    /\ mode = "on"
    /\ ~bulk.on /\ Requests < MaxRequests
    /\ bulk' = [on |-> TRUE, failed |-> FALSE,
                todo |-> table.pending \cup table.terminals
                         \cup {i \in Managed : \/ table.work[i].at \in Running
                                               \/ i \in Service /\ table.work[i].at = "done"}]
    /\ UNCHANGED <<table, mode, stopping, revocation, files, stopped, kept>>

BulkIdle == bulk.on /\ \A i \in Managed : stopping["bulk"][i] = "no"

(* The items are taken one after the other; an item that is gone is skipped. *)
BulkStep(x) ==
    /\ BulkIdle
    /\ x \in bulk.todo
    /\ LET next == [bulk EXCEPT !.todo = @ \ {x}]
           error == [next EXCEPT !.failed = TRUE]
       IN  \/ Disable(x) /\ bulk' = next /\ UNCHANGED <<stopping, kept>>
           \/ /\ x \in table.pending /\ RemovalFails
              /\ bulk' = error /\ kept' = kept \cup {x}
              /\ UNCHANGED <<table, stopping, definitions, stopped>>
           \/ /\ x \in Managed /\ StopBegins("bulk", x)
              /\ bulk' = next
              /\ UNCHANGED <<definitions, stopped, kept>>
           \/ /\ x \in table.terminals
              /\ \/ table' = [table EXCEPT !.terminals = @ \ {x}] /\ bulk' = next
                 \/ UNCHANGED table /\ bulk' = error
              /\ UNCHANGED <<stopping, definitions, stopped, kept>>
           \/ /\ x \notin table.pending \cup table.terminals
              /\ x \in Managed => ~Recorded(table, x)
              /\ bulk' = next
              /\ UNCHANGED <<table, stopping, definitions, stopped, kept>>
    /\ UNCHANGED <<mode, revocation, history, journal, torn>>

BulkEnds ==
    /\ BulkIdle
    /\ bulk.todo = {}
    /\ bulk' = NoBulk
    /\ UNCHANGED <<table, mode, stopping, revocation, files, stopped, kept>>

-----------------------------------------------------------------------------
(* Ending the sessions of a lease: terminateOwner(), one at a time *)

Revoke(o) ==
    /\ mode = "on"
    /\ revocation.phase = "no" /\ Requests < MaxRequests
    /\ revocation' = [phase |-> "terminals",
                      sessions |-> {i \in Session : Recorded(table, i) /\ OwnerOf[i] = o},
                      terminals |-> {x \in table.terminals : OwnerOf[x] = o}]
    /\ UNCHANGED <<table, mode, bulk, stopping, files, stopped, kept>>

(* The terminals first; when one does not end, the sessions are not touched. *)
RevokeTerminals ==
    /\ revocation.phase = "terminals"
    /\ \/ /\ table' = [table EXCEPT
                   !.terminals = @ \ revocation.terminals,
                   !.work = [i \in Managed |-> IF i \in revocation.sessions /\ @[i].at = "live"
                                               THEN [@[i] EXCEPT !.told = TRUE] ELSE @[i]]]
          /\ revocation' = [revocation EXCEPT !.phase = "groups"]
       \/ \E open \in SUBSET (revocation.terminals \cap table.terminals) \ {{}} :
             /\ table' = [table EXCEPT !.terminals = @ \ (revocation.terminals \ open)]
             /\ revocation' = NoRevocation
    /\ UNCHANGED <<mode, bulk, stopping, files, stopped, kept>>

RevokeGroups_Bug ==
    /\ revocation.phase = "groups"
    /\ table' = Deleted(table, revocation.sessions)
    /\ revocation' = NoRevocation
    /\ UNCHANGED <<mode, bulk, stopping, files, stopped, kept>>

(* The records are deleted when no group is left, and kept otherwise. *)
RevokeGroups ==
    /\ revocation.phase = "groups"
    /\ table' = IF revocation.sessions \cap table.alive = {}
                THEN Deleted(table, revocation.sessions) ELSE table
    /\ revocation' = NoRevocation
    /\ UNCHANGED <<mode, bulk, stopping, files, stopped, kept>>

-----------------------------------------------------------------------------
Next ==
    \/ Exit \/ Load \/ Serve \/ Shutdown
    \/ StopAll \/ BulkEnds \/ RevokeTerminals \/ RevokeGroups
    \/ \E i \in Task : MarkInterrupted(i) \/ StartTask(i)
    \/ \E i \in Session : StartSession(i) \/ CloseDropped(i)
    \/ \E i \in Service : StartService(i) \/ RestartDue(i) \/ Restart(i)
    \/ \E x \in Terminal : OpenTerminal(x) \/ TerminalEnds(x)
    \/ \E o \in Owner : Revoke(o)
    \/ \E i \in Managed :
          \/ GroupEnds(i) \/ Limit(i) \/ Discard(i) \/ Stop(i)
          \/ \E crashed \in BOOLEAN : Close(i, crashed)
          \/ \E op \in {"stop", "bulk"} : StopEnds(op, i)
    \/ \E x \in Managed \cup Terminal : BulkStep(x)

Spec == Init /\ [][Next]_vars

-----------------------------------------------------------------------------
(* Properties *)

InUse == Cardinality({i \in Managed : table.work[i].at \in Running}) + Cardinality(table.terminals)

(***************************************************************************)
(* The configured limit holds for commands, services that wait for their   *)
(* restart and terminals together, and no slot is kept by a service whose  *)
(* restart was given up: limbo lasts no longer than the operation that     *)
(* froze the work.                                                         *)
(***************************************************************************)
LimitHolds ==
    /\ InUse <= maxProcesses
    /\ \A i \in Service : table.work[i].at = "limbo" => Frozen

(***************************************************************************)
(* A saved service waits only while the computer is full: whatever frees a *)
(* slot starts the next one, though the end of a terminal, the deletion of *)
(* a record and the end of a bulk stop do not look for it.  A service that *)
(* could not be started or disabled keeps waiting.                         *)
(***************************************************************************)
WaitingOnlyWhenFull ==
    mode = "on" /\ ~bulk.on /\ ~(table.pending \subseteq table.unstartable \cup kept)
        => InUse = maxProcesses

(***************************************************************************)
(* A service whose stop was acknowledged, alone or in bulk, never runs     *)
(* again: not by a restart that was under way, not from the queue, and not *)
(* after a restart of the runner, which finds nothing saved.               *)
(***************************************************************************)
StoppedForGood ==
    \A i \in stopped :
        /\ i \notin definitions /\ i \notin table.pending /\ i \notin table.alive
        /\ table.work[i].at \in {"absent", "gone"}

(***************************************************************************)
(* Every process group that is alive has a record through which it can be  *)
(* found and ended, also after a stop or the termination of an owner has   *)
(* failed.                                                                 *)
(***************************************************************************)
EveryGroupRecorded == \A i \in table.alive : Recorded(table, i)

(***************************************************************************)
(* When the bulk stop reports success, nothing it is about is left: no     *)
(* command, terminal or queued service, and no saved one but those the     *)
(* computer could not remove when their start was refused.                 *)
(***************************************************************************)
BulkSucceeds == bulk.on /\ ~bulk'.on /\ mode' = "on" /\ ~bulk.failed
StopAllIsComplete ==
    [][BulkSucceeds => /\ InUse' = 0
                       /\ table'.pending = {}
                       /\ definitions' \subseteq kept']_vars

(***************************************************************************)
(* The outcome of a task does not change once it is known, not by a restart *)
(* of the runner either, until a compaction drops the record: a finished   *)
(* task never becomes running or interrupted.                              *)
(***************************************************************************)
OutcomeKept ==
    [][\A i \in Task : history[i] \in {"exited", "interrupted"} =>
            history'[i] \in {history[i], "none"}]_vars

(***************************************************************************)
(* A finished task keeps its exit code: it is not called interrupted later. *)
(* This holds as long as every record is written whole or not at all.      *)
(***************************************************************************)
ExitCodeKept ==
    [][\A i \in Task : history[i] = "exited" => history'[i] \in {"exited", "none"}]_vars

(***************************************************************************)
(* While the runner serves, a task that is reported as running has a       *)
(* process: none is left over from an earlier life of the runner.  One     *)
(* that is reported as interrupted is recorded so, and the next restart    *)
(* does not find it running again.                                         *)
(***************************************************************************)
RunningIsLive ==
    mode \in {"on", "closing"} =>
        \A i \in Task :
            /\ history[i] = "running" => table.work[i].at = "live"
            /\ history[i] = "interrupted" => journal[i] # "running"

=============================================================================
