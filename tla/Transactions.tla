----------------------------- MODULE Transactions -----------------------------
(***************************************************************************)
(* The lifecycle transactions of the CLI (packages/cli/src/transactions.ts *)
(* and the commands that use it): a command writes a journal with the      *)
(* state it is to bring about, and from then on it, or the next command,   *)
(* rolls forward through the directories of the computers, the two state   *)
(* files, the Compose document and the containers.  Every durable write is *)
(* a step, and the command may be interrupted between any two of them.     *)
(*                                                                         *)
(* One command runs at a time: it holds the lock of module StateLock from  *)
(* before the recovery to its end.                                         *)
(***************************************************************************)
EXTENDS Integers

CONSTANTS
    Id,              \* identities of computers
    Name,            \* names of computers
    None,
    MaxOps,          \* bound: transactions begun
    Storage,         \* whether storage set is used
    OutsideStops     \* whether containers stop and start without a command

ASSUME TransactionAssumption ==
    /\ None \notin Name
    /\ MaxOps \in Nat
    /\ Storage \in BOOLEAN
    /\ OutsideStops \in BOOLEAN

\* The configuration of a computer: its name, and whether its storage has a
\* warning threshold.
Info == [name : Name, warn : BOOLEAN]

VARIABLES
    config, secrets,    \* config.yaml and secrets.yaml
    active, trash,      \* the directories of computers/ and trash/
    stage,              \* the directories of runtime/restore-staging/
    doc,                \* the Compose document: the name of each service
    container,          \* the runtime of each computer
    journal,            \* transaction.yaml
    step, todo, run,    \* the command: where it is, the entries left of the
                        \* loop it is in, and whether it touches containers
    ops                 \* transactions begun; one takes it as its new token

files == <<config, secrets, active, trash, stage>>
progress == <<step, todo, run>>
vars == <<files, doc, container, journal, progress, ops>>

\* metadata.yaml; a new directory is bare.
Metadata == [info : Info \cup {None}, deleted : BOOLEAN]
Bare == [info |-> None, deleted |-> FALSE]

\* A container carries the name of the computer it was made for; ref tells one
\* container of a computer from the next.  History: moved says that it was stopped
\* or started by hand since it was reviewed for the rename that is pending.
Container == [name : Name, running : BOOLEAN, ref : 0..MaxOps, moved : BOOLEAN]

Token == 1..MaxOps

Replacing == {"replaceRunning", "replaceStopped"}
Work == {"none", "images", "remove", "start"} \cup Replacing

Transaction ==
    [phase : {"prepared", "state-committed"},
     config : [Id -> Info \cup {None}], secrets : [Id -> Token \cup {None}],
     source : [Id -> {"active", "create", "trash", "staged", None}],
     trash : [Id -> Info \cup {None}],
     work : [Id -> Work], binding : [Id -> 0..MaxOps \cup {None}]]

ASSUME NoneAssumption ==
    None \notin Info \cup Token \cup Metadata \cup Container \cup Transaction
                \cup {"active", "create", "trash", "staged"}

Step ==
    {"idle", "ready", "staging", "undo", "recover", "active", "config",
     "secrets", "render", "trash", "commit", "runtime"}

TypeOK ==
    /\ config \in [Id -> Info \cup {None}]
    /\ secrets \in [Id -> Token \cup {None}]
    /\ active \in [Id -> Metadata \cup {None}]
    /\ trash \in [Id -> Metadata \cup {None}]
    /\ stage \in [Id -> {"none", "filling", "ready"}]
    /\ doc \in [Id -> Name \cup {None}]
    /\ container \in [Id -> Container \cup {None}]
    /\ journal \in Transaction \cup {None}
    /\ step \in Step /\ todo \subseteq Id /\ run \in BOOLEAN
    /\ ops \in 0..MaxOps
    /\ journal = None => step \in {"idle", "ready"}

Empty == [id \in Id |-> None]

Init ==
    /\ config = Empty /\ secrets = Empty
    /\ active = Empty /\ trash = Empty /\ stage = [id \in Id |-> "none"]
    /\ doc = Empty /\ container = Empty
    /\ journal = None
    /\ step = "idle" /\ todo = {} /\ run = FALSE
    /\ ops = 0

Ids(state) == {id \in Id : state[id] # None}

-----------------------------------------------------------------------------
(* Commands                                                                *)

\* prepareStateBeforeCommand.  Commands that need no container recover the
\* durable state only.
Begin ==
    /\ step = "idle"
    /\ run' \in BOOLEAN
    /\ step' = IF journal = None THEN "ready" ELSE "recover"
    /\ UNCHANGED <<files, doc, container, journal, todo, ops>>

End ==
    /\ step = "ready"
    /\ step' = "idle" /\ run' = FALSE
    /\ UNCHANGED <<files, doc, container, journal, todo, ops>>

\* An error of the file system or of Docker, or the end of the process.
Interrupt ==
    /\ step \notin {"idle", "ready"}
    /\ step' = "idle" /\ run' = FALSE /\ todo' = {}
    /\ UNCHANGED <<files, doc, container, journal, ops>>

NameFree(n, id) == \A d \in Ids(config) \ {id} : config[d].name # n

\* An identity is drawn at random: no other computer has had it.
Fresh(id) ==
    /\ config[id] = None /\ active[id] = None /\ trash[id] = None
    /\ container[id] = None

NoWork == [id \in Id |-> "none"]

\* createStateTransaction and prepareStateTransaction, which refuses while a
\* transaction is pending.
Prepare(target, tokens, source, dropped, work, binding) ==
    /\ step = "ready" /\ journal = None /\ ops < MaxOps
    /\ ops' = ops + 1
    /\ journal' =
          [phase |-> "prepared", config |-> target, secrets |-> tokens,
           source |-> [id \in Id |-> IF target[id] = None THEN None
                                     ELSE IF id \in DOMAIN source THEN source[id]
                                     ELSE "active"],
           trash |-> dropped, work |-> work, binding |-> binding]
    /\ run' = TRUE
    /\ UNCHANGED <<files, doc, container, todo>>

With(state, id, value) == [state EXCEPT ![id] = value]

Create(id, n, start) ==
    /\ Fresh(id) /\ NameFree(n, id)
    /\ Prepare(With(config, id, [name |-> n, warn |-> FALSE]), With(secrets, id, ops + 1),
               [d \in {id} |-> "create"], Empty,
               IF start THEN With(NoWork, id, "start") ELSE NoWork, Empty)
    /\ step' = "recover"

Rename(id, n) ==
    /\ config[id] # None /\ config[id].name # n /\ NameFree(n, id)
    /\ Prepare([config EXCEPT ![id].name = n], secrets, <<>>, Empty,
               With(NoWork, id, IF container[id] = None THEN "none"
                                ELSE IF container[id].running THEN "replaceRunning"
                                ELSE "replaceStopped"),
               IF container[id] = None THEN Empty ELSE With(Empty, id, container[id].ref))
    /\ step' = "recover"

Delete(id) ==
    /\ config[id] # None
    /\ Prepare(With(config, id, None), With(secrets, id, None), <<>>,
               With(Empty, id, config[id]), With(NoWork, id, "remove"), Empty)
    /\ step' = "recover"

\* Definitions named ..._Bug are mutated forms of the definition they precede: the
\* properties are checked to notice the difference.
Restore_Bug(id) ==
    /\ trash[id] # None /\ NameFree(trash[id].info.name, id)
    /\ Prepare(With(config, id, trash[id].info), With(secrets, id, 1),
               [d \in {id} |-> "trash"], Empty, With(NoWork, id, "start"), Empty)
    /\ step' = "recover"

\* findTrash finds the directory by its metadata.
Restore(id) ==
    /\ trash[id] # None /\ NameFree(trash[id].info.name, id)
    /\ Prepare(With(config, id, trash[id].info), With(secrets, id, ops + 1),
               [d \in {id} |-> "trash"], Empty, With(NoWork, id, "start"), Empty)
    /\ step' = "recover"

\* apply --prune with a manifest that has one computer more and lacks another.
Apply(id, n, gone) ==
    /\ Fresh(id) /\ NameFree(n, id) /\ config[gone] # None
    /\ LET target == [config EXCEPT ![id] = [name |-> n, warn |-> FALSE], ![gone] = None]
       IN Prepare(target, [secrets EXCEPT ![id] = ops + 1, ![gone] = None],
                  [d \in {id} |-> "create"], With(Empty, gone, config[gone]),
                  [d \in Id |-> IF d = gone THEN "remove"
                                ELSE IF target[d] # None THEN "start" ELSE "none"], Empty)
    /\ step' = "recover"

\* The journal of a backup restore is written before its directory is filled.
BackupRestore(id, n, start) ==
    /\ Fresh(id) /\ NameFree(n, id)
    /\ Prepare(With(config, id, [name |-> n, warn |-> FALSE]), With(secrets, id, ops + 1),
               [d \in {id} |-> "staged"], Empty,
               With(NoWork, id, IF start THEN "start" ELSE "images"), Empty)
    /\ step' = "staging"

\* No journal: the recursive removal is taken as one step.
Purge(id) ==
    /\ step = "ready" /\ run /\ trash[id] # None
    /\ trash' = With(trash, id, None)
    /\ UNCHANGED <<config, secrets, active, stage, doc, container, journal, progress, ops>>

\* storage set writes the state files and nothing else, pending or not.
SetStorage(id) ==
    /\ Storage /\ step = "ready" /\ config[id] # None
    /\ config' = [config EXCEPT ![id].warn = TRUE]
    /\ UNCHANGED <<secrets, active, trash, stage, doc, container, journal, progress, ops>>

Rendered(state) == [id \in Id |-> IF state[id] = None THEN None ELSE state[id].name]

\* docker compose up: a container that is not as the document says is made anew.
Up(id) ==
    [name |-> doc[id], running |-> TRUE, moved |-> FALSE,
     ref |-> IF container[id] # None /\ container[id].name = doc[id]
             THEN container[id].ref ELSE ops]

\* The start and stop commands.
StartComputer(id) ==
    /\ step = "ready" /\ run /\ config[id] # None
    /\ doc' = Rendered(config)
    /\ container' = With(container, id,
          IF container[id] = None THEN [name |-> config[id].name, running |-> TRUE, ref |-> ops, moved |-> FALSE]
          ELSE [container[id] EXCEPT !.running = TRUE])
    /\ UNCHANGED <<files, journal, progress, ops>>

StopComputer(id) ==
    /\ step = "ready" /\ run /\ config[id] # None /\ container[id] # None
    /\ container' = [container EXCEPT ![id].running = FALSE]
    /\ UNCHANGED <<files, doc, journal, progress, ops>>

\* docker stop and docker start by hand, or by the daemon.
OutsideChange(id) ==
    /\ OutsideStops /\ container[id] # None
    /\ container' = [container EXCEPT
          ![id].running = ~@,
          ![id].moved = IF journal # None /\ journal.work[id] \in Replacing THEN ~@ ELSE @]
    /\ UNCHANGED <<files, doc, journal, progress, ops>>

-----------------------------------------------------------------------------
(* restoreBackup: the directory is filled, then marked as complete         *)

FillStage(id) ==
    /\ step = "staging" /\ journal.source[id] = "staged"
    /\ stage' = With(stage, id, IF stage[id] = "none" THEN "filling" ELSE "ready")
    /\ step' = IF stage[id] = "none" THEN "staging" ELSE "recover"
    /\ UNCHANGED <<config, secrets, active, trash, doc, container, journal, todo, run, ops>>

\* An error is caught: the directory and the journal are removed.
StagingFails ==
    /\ step = "staging"
    /\ step' = "undo"
    /\ UNCHANGED <<files, doc, container, journal, todo, run, ops>>

UndoStaging ==
    /\ step = "undo"
    /\ LET staged == {id \in Id : stage[id] # "none"}
       IN IF staged # {}
          THEN /\ stage' = [id \in Id |-> "none"]
               /\ UNCHANGED <<journal, step>>
          ELSE /\ journal' = None /\ step' = "ready"
               /\ UNCHANGED stage
    /\ UNCHANGED <<config, secrets, active, trash, doc, container, todo, run, ops>>

-----------------------------------------------------------------------------
(* recoverPendingTransaction                                               *)

\* rollbackIncompleteStaging
Incomplete ==
    journal.phase = "prepared" /\
    \E id \in Id : journal.source[id] = "staged" /\ active[id] = None /\ stage[id] # "ready"

WorkIds == {id \in Id : journal.work[id] # "none"}

\* Without containers the journal stays, unless nothing is left to do.
ToRuntime ==
    IF ~run /\ WorkIds # {} THEN step' = "ready" /\ todo' = {}
    ELSE step' = "runtime" /\ todo' = WorkIds

Recover_Bug ==
    /\ step = "recover"
    /\ IF Incomplete THEN step' = "undo" /\ UNCHANGED todo
       ELSE step' = "active" /\ todo' = Ids(journal.config)
    /\ UNCHANGED <<files, doc, container, journal, run, ops>>

Recover ==
    /\ step = "recover"
    /\ CASE Incomplete -> step' = "undo" /\ UNCHANGED todo
         [] ~Incomplete /\ journal.phase = "prepared" -> step' = "active" /\ todo' = Ids(journal.config)
         [] journal.phase = "state-committed" -> ToRuntime
    /\ UNCHANGED <<files, doc, container, journal, run, ops>>

\* The errors thrown by ensureActiveDirectory and ensureTrashDirectory.
ActiveConflict(id) ==
    LET source == journal.source[id] IN
    \/ active[id] # None /\ trash[id] # None
    \/ source = "create" /\ trash[id] # None
    \/ source = "active" /\ active[id] = None
    \/ source = "staged" /\ (trash[id] # None \/ (active[id] = None /\ stage[id] # "ready"))
    \/ source = "trash" /\ active[id] = None /\ trash[id] = None

TrashConflict(id) == (active[id] = None) <=> (trash[id] = None)

\* ensureActiveDirectory: the directory is put into place, then its metadata is
\* written.
PlaceDirectory(id) ==
    /\ step = "active" /\ id \in todo /\ ~ActiveConflict(id)
    /\ active[id] = None
    /\ active' = With(active, id, IF journal.source[id] = "trash" THEN trash[id] ELSE Bare)
    /\ trash' = With(trash, id, None)
    /\ stage' = With(stage, id, "none")
    /\ UNCHANGED <<config, secrets, doc, container, journal, progress, ops>>

WriteMetadata_Bug(id) ==
    /\ step = "active" /\ id \in todo /\ ~ActiveConflict(id)
    /\ active[id] # None
    /\ active' = IF journal.source[id] = "trash" THEN active
                 ELSE With(active, id, [info |-> journal.config[id], deleted |-> FALSE])
    /\ todo' = todo \ {id}
    /\ UNCHANGED <<config, secrets, trash, stage, doc, container, journal, step, run, ops>>

WriteMetadata(id) ==
    /\ step = "active" /\ id \in todo /\ ~ActiveConflict(id)
    /\ active[id] # None
    /\ active' = With(active, id, [info |-> journal.config[id], deleted |-> FALSE])
    /\ todo' = todo \ {id}
    /\ UNCHANGED <<config, secrets, trash, stage, doc, container, journal, step, run, ops>>

Turn(from, to) ==
    /\ step = from /\ todo = {}
    /\ step' = to

ActiveReady == Turn("active", "config") /\ UNCHANGED <<files, doc, container, journal, todo, run, ops>>

\* saveState
WriteConfig ==
    /\ Turn("config", "secrets")
    /\ config' = journal.config
    /\ UNCHANGED <<secrets, active, trash, stage, doc, container, journal, todo, run, ops>>

WriteSecrets ==
    /\ Turn("secrets", "render")
    /\ secrets' = journal.secrets
    /\ UNCHANGED <<config, active, trash, stage, doc, container, journal, todo, run, ops>>

Render ==
    /\ Turn("render", "trash")
    /\ doc' = Rendered(journal.config)
    /\ todo' = Ids(journal.trash)
    /\ UNCHANGED <<files, container, journal, run, ops>>

\* ensureTrashDirectory: the metadata is written, then the directory is moved.
MarkDeleted(id) ==
    LET deleted == [info |-> journal.trash[id], deleted |-> TRUE] IN
    /\ step = "trash" /\ id \in todo /\ ~TrashConflict(id)
    /\ active[id] # None /\ active[id] # deleted
    /\ active' = With(active, id, deleted)
    /\ UNCHANGED <<config, secrets, trash, stage, doc, container, journal, progress, ops>>

MoveToTrash(id) ==
    LET deleted == [info |-> journal.trash[id], deleted |-> TRUE] IN
    /\ step = "trash" /\ id \in todo /\ ~TrashConflict(id)
    /\ active[id] \in {deleted, None}
    /\ active' = With(active, id, None)
    /\ trash' = With(trash, id, deleted)
    /\ todo' = todo \ {id}
    /\ UNCHANGED <<config, secrets, stage, doc, container, journal, step, run, ops>>

TrashReady == Turn("trash", "commit") /\ UNCHANGED <<files, doc, container, journal, todo, run, ops>>

Commit ==
    /\ step = "commit"
    /\ journal' = [journal EXCEPT !.phase = "state-committed"]
    /\ ToRuntime
    /\ UNCHANGED <<files, doc, container, run, ops>>

-----------------------------------------------------------------------------
(* completeRuntime                                                         *)

Working(id, kinds) == step = "runtime" /\ id \in todo /\ journal.work[id] \in kinds

\* The images of a restored computer, after which the document is rendered again.
AcquireImages(id) ==
    /\ Working(id, {"images"})
    /\ doc' = Rendered(journal.config)
    /\ todo' = todo \ {id}
    /\ UNCHANGED <<files, container, journal, step, run, ops>>

RemoveContainer(id) ==
    /\ Working(id, {"remove"})
    /\ container' = With(container, id, None)
    /\ todo' = todo \ {id}
    /\ UNCHANGED <<files, doc, journal, step, run, ops>>

StartContainer(id) ==
    /\ Working(id, {"start"})
    /\ container' = With(container, id, Up(id))
    /\ todo' = todo \ {id}
    /\ UNCHANGED <<files, doc, journal, step, run, ops>>

IsSource(id) == container[id] # None /\ container[id].ref = journal.binding[id]

Acceptable_Bug(id) ==
    IF IsSource(id) THEN container[id].running = (journal.work[id] = "replaceRunning")
    ELSE /\ container[id] # None
         /\ container[id].name = journal.config[id].name
         /\ (journal.work[id] = "replaceStopped" => ~container[id].running)

\* inspectComputerRuntimeTransition takes a source only in the state that was
\* reviewed, and of a stopped computer only a target that is stopped.  (The code
\* compares the exact status of a source; created and exited are one here.)
Acceptable(id) ==
    container[id] # None =>
        IF IsSource(id) THEN container[id].running = (journal.work[id] = "replaceRunning")
        ELSE container[id].name = journal.config[id].name
             /\ (journal.work[id] = "replaceStopped" => ~container[id].running)

RemoveSource(id) ==
    /\ Working(id, Replacing) /\ Acceptable(id)
    /\ IsSource(id)
    /\ container' = With(container, id, None)
    /\ UNCHANGED <<files, doc, journal, progress, ops>>

StartTarget(id) ==
    /\ Working(id, Replacing) /\ Acceptable(id)
    /\ ~IsSource(id)
    /\ container' = With(container, id,
          IF journal.work[id] = "replaceRunning" THEN Up(id) ELSE [Up(id) EXCEPT !.running = FALSE])
    /\ todo' = todo \ {id}
    /\ UNCHANGED <<files, doc, journal, step, run, ops>>

Finish ==
    /\ Turn("runtime", "ready")
    /\ journal' = None
    /\ container' = [id \in Id |-> IF container[id] = None THEN None
                                  ELSE [container[id] EXCEPT !.moved = FALSE]]
    /\ UNCHANGED <<files, doc, todo, run, ops>>

-----------------------------------------------------------------------------
Advance ==
    \/ Recover \/ UndoStaging \/ ActiveReady \/ WriteConfig \/ WriteSecrets
    \/ Render \/ TrashReady \/ Commit \/ Finish
    \/ \E id \in Id :
          \/ FillStage(id) \/ PlaceDirectory(id) \/ WriteMetadata(id)
          \/ MarkDeleted(id) \/ MoveToTrash(id)
          \/ AcquireImages(id) \/ RemoveContainer(id) \/ StartContainer(id)
          \/ RemoveSource(id) \/ StartTarget(id)

Operation ==
    \E id \in Id :
        \/ Delete(id) \/ Restore(id) \/ Purge(id) \/ SetStorage(id)
        \/ StartComputer(id) \/ StopComputer(id)
        \/ \E n \in Name :
              \/ Rename(id, n)
              \/ \E start \in BOOLEAN : Create(id, n, start) \/ BackupRestore(id, n, start)
              \/ \E gone \in Id \ {id} : Apply(id, n, gone)

Next ==
    \/ Begin \/ End \/ Interrupt \/ StagingFails
    \/ Operation \/ Advance
    \/ \E id \in Id : OutsideChange(id)

Spec == Init /\ [][Next]_vars

\* A command goes on until it ends or is interrupted.
FairSpec == Spec /\ WF_vars(Advance)
-----------------------------------------------------------------------------
(* The errors of ensureActiveDirectory and ensureTrashDirectory, after     *)
(* which no command could recover the transaction any more, do not occur:  *)
(* whatever was interrupted, each directory is where the journal needs it. *)
NeverConflicts ==
    /\ step = "active" => \A id \in todo : ~ActiveConflict(id)
    /\ step = "trash" => \A id \in todo : ~TrashConflict(id)

(* With no transaction pending, the audit of the state (auditState) finds  *)
(* nothing: the two files, the directories and their metadata agree, and   *)
(* so do the Compose document and the containers.  A storage threshold is  *)
(* excused, which storage set writes to config.yaml alone.                 *)
AuditPasses ==
    journal = None =>
        /\ Ids(secrets) = Ids(config) /\ Ids(active) = Ids(config)
        /\ \A id \in Ids(active) :
              /\ ~active[id].deleted
              /\ active[id].info \in {config[id], [config[id] EXCEPT !.warn = FALSE]}
        /\ \A id \in Ids(trash) : config[id] = None /\ trash[id].deleted
        /\ \A id \in Id : stage[id] = "none"
        /\ doc = Rendered(config)
        /\ \A id \in Ids(container) : config[id] # None /\ container[id].name = config[id].name

(* A token that was replaced or removed is never accepted again, although  *)
(* recovery writes the secrets of a journal over those of the state: what  *)
(* is written is what was there, or the token of the latest transaction.   *)
RevokedForever ==
    [][\A id \in Id : secrets'[id] \in {secrets[id], None, ops}]_vars

(* A command that resumes a transaction ends it, unless it is interrupted: *)
(* nothing on disk and no container blocks the recovery, but one that      *)
(* somebody stopped or started.                                            *)
RecoveryEnds ==
    (step = "recover" /\ run)
        ~> (journal = None \/ step = "idle" \/ \E id \in Ids(container) : container[id].moved)

(***************************************************************************)
(* The registry that the files implement.  A transaction has taken effect  *)
(* as soon as its journal is there, that of a backup restore when its      *)
(* directory is complete.                                                  *)
(***************************************************************************)
TakesEffect == journal # None /\ journal.phase = "prepared" /\ ~Incomplete

Live == IF TakesEffect THEN journal.config ELSE config
Tokens == IF TakesEffect THEN journal.secrets ELSE secrets

InTrash(id) ==
    IF trash[id] # None /\ ~(TakesEffect /\ journal.source[id] = "trash") THEN trash[id].info
    ELSE IF TakesEffect THEN journal.trash[id]
    ELSE None

(* Commands and their recoveries change the registry at once.              *)
Registry ==
    INSTANCE ComputerRegistry WITH
        live <- Live, token <- Tokens, trashed <- [id \in Id |-> InTrash(id)],
        NameOf <- LAMBDA info : info.name

ImplementsRegistry == Registry!Spec
=============================================================================
