----------------------------- MODULE BoundedFiles -----------------------------
(***************************************************************************)
(* The mutations of the bounded file system (packages/control/src/         *)
(* bounded-files.ts): each prepares its result under a hidden name, moves  *)
(* what it replaces to another, and puts the result in place by a rename   *)
(* that never replaces anything.  Mutations wait for each other; processes *)
(* of the workload use the same directory at any time.                     *)
(*                                                                         *)
(* One directory is modelled, without symbolic links.  What is in a file   *)
(* or a directory matters only in so far as it changed.                    *)
(***************************************************************************)
EXTENDS Naturals, FiniteSets

CONSTANTS
    FileName,   \* names the workload and the tools use
    Object,     \* inodes, used again when they are free
    Absent,
    Faults      \* whether system calls fail for reasons of their own

ASSUME FilesAssumption == Absent \notin FileName \cup Object /\ Faults \in BOOLEAN

VARIABLES
    entry,      \* the directory: what is at each name
    kind,       \* what each inode is
    read,       \* the identity an edit has read, before it waits for its turn
    mutation,   \* the mutation in progress, or the outcome of the last one
    left        \* what mutations have left behind under hidden names

filesVars == <<entry, kind, read, mutation, left>>

Op == {"write", "create", "edit", "mkdir", "copy", "copyOver", "move", "moveOver",
       "remove", "removeAll"}

MutationStep == {"idle", "stage", "recheck", "hideSource", "inspectSource", "hideTarget",
         "inspectTarget", "reinspect", "merge", "verify", "commit", "open", "confirm", "unlink",
         "sync", "recoverTarget", "recoverSource", "unstage", "ended"}

Outcome == {"ok", "error", "cleanup_incomplete", "durability_uncertain", "recovery_incomplete"}

(***************************************************************************)
(* An identity: the inode, and whether its change time (touched) and its   *)
(* size are others since.  A change of the content touches the inode.      *)
(***************************************************************************)
Identity == [object : Object, touched : BOOLEAN, resized : BOOLEAN]
IdentityOf(o) == [object |-> o, touched |-> FALSE, resized |-> FALSE]

Same(id, o) == id.object = o /\ ~id.touched
\* Mutated form: the size is not compared.
SameRenamed_Bug(id, o) == id.object = o

SameRenamed(id, o) == id.object = o /\ ~id.resized

NoIdentity == [object |-> Absent, touched |-> FALSE, resized |-> FALSE]

(***************************************************************************)
(* hidden gives the inode under each hidden name of the mutation, source   *)
(* and target the identities that were taken of what it hides, and outcome *)
(* what it will answer.                                                    *)
(***************************************************************************)
Slot == {"staged", "merged", "source", "target"}
Mutation ==
    [step : MutationStep, op : Op, from : FileName \cup {Absent}, to : FileName \cup {Absent},
     hidden : [Slot -> Object \cup {Absent}],
     expected : Identity \cup {NoIdentity}, source : Identity \cup {NoIdentity},
     target : Identity \cup {NoIdentity},
     committed : BOOLEAN, outcome : Outcome]

NothingHidden == [s \in Slot |-> Absent]
HiddenBy(m) == {m.hidden[s] : s \in Slot} \ {Absent}

NoMutation ==
    [step |-> "idle", op |-> "write", from |-> Absent, to |-> Absent, hidden |-> NothingHidden,
     expected |-> NoIdentity, source |-> NoIdentity, target |-> NoIdentity,
     committed |-> FALSE, outcome |-> "ok"]

FilesTypeOK ==
    /\ entry \in [FileName -> Object \cup {Absent}]
    /\ kind \in [Object -> {"free", "file", "directory"}]
    /\ read \in [name : FileName \cup {Absent}, id : Identity \cup {NoIdentity}]
    /\ mutation \in Mutation
    /\ left \subseteq Object

NothingRead == [name |-> Absent, id |-> NoIdentity]

FilesInit ==
    /\ entry \in [FileName -> Object \cup {Absent}]
    /\ \A n, p \in FileName : n # p /\ entry[n] # Absent => entry[n] # entry[p]
    /\ kind \in [Object -> {"free", "file", "directory"}]
    /\ \A o \in Object : kind[o] = "free" <=> o \notin {entry[n] : n \in FileName}
    /\ read = NothingRead
    /\ mutation = NoMutation
    /\ left = {}

\* The mutation keeps its source open, so that inode is not used again.
Free == {o \in Object : kind[o] = "free" /\ o # mutation.source.object}

-----------------------------------------------------------------------------
(* What happens to an inode is noted in every identity taken of it.        *)

Noted(id, o, resized) ==
    IF id.object # o THEN id
    ELSE [id EXCEPT !.touched = TRUE, !.resized = @ \/ resized]

Note(o, resized) ==
    /\ read' = [read EXCEPT !.id = Noted(@, o, resized)]
    /\ mutation' = [mutation EXCEPT !.expected = Noted(@, o, resized),
                                    !.source = Noted(@, o, resized),
                                    !.target = Noted(@, o, resized)]

-----------------------------------------------------------------------------
(* The workload                                                            *)

\* An inode that is used again may be a file of the same size.
Make(n, o, k, resized) ==
    /\ entry[n] = Absent /\ o \in Free
    /\ entry' = [entry EXCEPT ![n] = o]
    /\ kind' = [kind EXCEPT ![o] = k]
    /\ Note(o, resized)
    /\ UNCHANGED left

\* In place, by the name or through a descriptor that was open already.
Change(o, resized) ==
    /\ kind[o] # "free" /\ o \notin {mutation.hidden["staged"], mutation.hidden["merged"]}
    /\ Note(o, resized)
    /\ UNCHANGED <<entry, kind, left>>

UnlinkEntry(n) ==
    /\ entry[n] # Absent
    /\ entry' = [entry EXCEPT ![n] = Absent]
    /\ kind' = [kind EXCEPT ![entry[n]] = "free"]
    /\ Note(entry[n], FALSE)
    /\ UNCHANGED left

RenameEntry(n, p) ==
    /\ n # p /\ entry[n] # Absent
    /\ entry' = [entry EXCEPT ![n] = Absent, ![p] = entry[n]]
    /\ kind' = IF entry[p] = Absent THEN kind ELSE [kind EXCEPT ![entry[p]] = "free"]
    /\ Note(entry[n], FALSE)
    /\ UNCHANGED left

-----------------------------------------------------------------------------
(* A mutation begins.  One that is refused at once changes nothing.        *)

\* readFile() of an edit or an optimistic save, before its turn comes.
ReadForEdit(n) ==
    /\ entry[n] # Absent /\ kind[entry[n]] = "file"
    /\ read' = [name |-> n, id |-> IdentityOf(entry[n])]
    /\ UNCHANGED <<entry, kind, mutation, left>>

Starts(m) ==
    /\ mutation.step = "idle"
    /\ mutation' = m
    /\ UNCHANGED <<entry, kind, left>>

BeginWrite(op, n) ==
    /\ entry[n] # Absent => op # "create" /\ kind[entry[n]] = "file"
    /\ Starts([NoMutation EXCEPT !.step = "stage", !.op = op, !.to = n])
    /\ UNCHANGED read

BeginEdit ==
    /\ read.id # NoIdentity /\ Same(read.id, entry[read.name])
    /\ Starts([NoMutation EXCEPT !.step = "stage", !.op = "edit", !.to = read.name, !.expected = read.id])
    /\ read' = NothingRead

\* mkdir() finds nothing at the name and makes the directory there itself.
BeginMkdir(n) ==
    /\ entry[n] = Absent
    /\ Starts([NoMutation EXCEPT !.step = "commit", !.op = "mkdir", !.to = n])
    /\ UNCHANGED read

BeginTransfer(op, n, p) ==
    /\ n # p /\ entry[n] # Absent
    /\ Starts([NoMutation EXCEPT !.step = IF op \in {"copy", "copyOver"} THEN "stage" ELSE "hideSource",
                           !.op = op, !.from = n, !.to = p, !.source = IdentityOf(entry[n])])
    /\ UNCHANGED read

BeginRemove(op, n) ==
    /\ entry[n] # Absent /\ (kind[entry[n]] = "directory" => op = "removeAll")
    /\ Starts([NoMutation EXCEPT !.step = "hideSource", !.op = op, !.from = n, !.to = n,
                           !.source = IdentityOf(entry[n])])
    /\ UNCHANGED read

-----------------------------------------------------------------------------
(* Its steps                                                               *)

In(step) == mutation.step = step

Goes(step) == mutation' = [mutation EXCEPT !.step = step]

\* The error is answered when what is hidden is back and what was staged is gone.
FailsWith(outcome) == mutation' = [mutation EXCEPT !.step = "recoverTarget", !.outcome = outcome]
Fails == FailsWith("error")

AfterStage ==
    CASE mutation.op = "edit" -> "recheck"
      [] mutation.op \in {"write", "copyOver"} -> "hideTarget"
      [] OTHER -> "commit"

\* The temporary file, or the copy of the source; a failure may leave a part of it.
Stage ==
    /\ In("stage")
    /\ \/ \E o \in Free :
             /\ mutation.op \in {"copy", "copyOver"} => Same(mutation.source, entry[mutation.from])
             /\ kind' = [kind EXCEPT ![o] = IF mutation.op \in {"copy", "copyOver"}
                                            THEN kind[mutation.source.object] ELSE "file"]
             /\ \/ mutation' = [mutation EXCEPT !.hidden["staged"] = o, !.step = AfterStage]
                \/ Faults /\ mutation' = [mutation EXCEPT !.hidden["staged"] = o, !.outcome = "error",
                                                          !.step = "recoverTarget"]
       \/ /\ \/ Faults
             \/ mutation.op \in {"copy", "copyOver"} /\ ~Same(mutation.source, entry[mutation.from])
          /\ Fails
          /\ UNCHANGED kind
    /\ UNCHANGED <<entry, read, left>>

\* The named entry is compared once more before anything is moved.
Recheck ==
    /\ In("recheck")
    /\ IF Same(mutation.expected, entry[mutation.to]) THEN Goes("hideTarget") ELSE Fails
    /\ UNCHANGED <<entry, kind, read, left>>

\* quarantineNamedEntry(): a rename, which changes the change time.
Hide(slot, name, next) ==
    /\ entry' = [entry EXCEPT ![name] = Absent]
    /\ mutation' = [mutation EXCEPT !.hidden[slot] = entry[name], !.step = next]
    /\ read' = [read EXCEPT !.id = Noted(@, entry[name], FALSE)]

HideSource ==
    /\ In("hideSource")
    /\ \/ entry[mutation.from] # Absent /\ Hide("source", mutation.from, "inspectSource")
       \/ /\ Faults \/ entry[mutation.from] = Absent
          /\ Fails /\ UNCHANGED <<entry, read>>
    /\ UNCHANGED <<kind, left>>

AfterSource ==
    CASE mutation.op = "moveOver" -> "hideTarget"
      [] mutation.op = "move" -> "verify"
      [] OTHER -> "confirm"

InspectSource ==
    LET o == mutation.hidden["source"]
    IN  /\ In("inspectSource")
        /\ \/ /\ SameRenamed(mutation.source, o)
              /\ mutation' = [mutation EXCEPT !.source = IdentityOf(o), !.step = AfterSource]
           \/ (Faults \/ ~SameRenamed(mutation.source, o)) /\ Fails
        /\ UNCHANGED <<entry, kind, read, left>>

\* Mutated form: the old entry is removed before the new one is in place.
AfterTarget_Bug ==
    CASE mutation.op = "moveOver" -> "verify"
      [] mutation.op # "moveOver" /\ mutation.hidden["target"] # Absent -> "confirm"
      [] OTHER -> "commit"

AfterTarget == IF mutation.op = "moveOver" THEN "verify" ELSE "commit"

\* Only an edit requires that there is something to replace.
HideTarget ==
    /\ In("hideTarget")
    /\ \/ entry[mutation.to] # Absent /\ Hide("target", mutation.to, "inspectTarget")
       \/ /\ entry[mutation.to] = Absent /\ mutation.op # "edit"
          /\ Goes(AfterTarget) /\ UNCHANGED <<entry, read>>
       \/ /\ Faults \/ (entry[mutation.to] = Absent /\ mutation.op = "edit")
          /\ Fails /\ UNCHANGED <<entry, read>>
    /\ UNCHANGED <<kind, left>>

Compatible(o) ==
    CASE mutation.op \in {"write", "edit"} -> kind[o] = "file"
      [] mutation.op = "copyOver" ->
            (kind[o] = "directory") = (kind[mutation.hidden["staged"]] = "directory")
      [] OTHER -> TRUE

Accepted(o) == Compatible(o) /\ (mutation.op = "edit" => SameRenamed(mutation.expected, o))

InspectTarget ==
    LET o == mutation.hidden["target"]
        next == CASE mutation.op = "edit" -> "reinspect"
                  [] mutation.op = "copyOver" /\ kind[o] = "directory" -> "merge"
                  [] OTHER -> AfterTarget
    IN  /\ In("inspectTarget")
        /\ \/ Accepted(o) /\ mutation' = [mutation EXCEPT !.target = IdentityOf(o), !.step = next]
           \/ (Faults \/ ~Accepted(o)) /\ Fails
        /\ UNCHANGED <<entry, kind, read, left>>

Reinspect ==
    /\ In("reinspect")
    /\ IF SameRenamed(mutation.expected, mutation.hidden["target"]) THEN Goes("commit") ELSE Fails
    /\ UNCHANGED <<entry, kind, read, left>>

\* A directory over a directory: a copy of the old one takes in the staged one.
Merge ==
    LET o == mutation.hidden["target"]
    IN  /\ In("merge")
        /\ \/ \E c \in Free :
                 /\ Same(mutation.target, o)
                 /\ kind' = [kind EXCEPT ![c] = "directory"]
                 /\ \/ mutation' = [mutation EXCEPT !.hidden["merged"] = c, !.step = "commit"]
                    \/ Faults /\ mutation' = [mutation EXCEPT !.hidden["merged"] = c,
                                                 !.outcome = "error", !.step = "recoverTarget"]
           \/ (Faults \/ ~Same(mutation.target, o)) /\ Fails /\ UNCHANGED kind
        /\ UNCHANGED <<entry, read, left>>

\* A source that changed since it was hidden is answered as an incomplete recovery.
Verify ==
    /\ In("verify")
    /\ IF Same(mutation.source, mutation.hidden["source"]) THEN Goes("commit")
       ELSE FailsWith("recovery_incomplete")
    /\ UNCHANGED <<entry, kind, read, left>>

\* What the last rename puts in place, and from where.
Result ==
    CASE mutation.op \in {"move", "moveOver"} -> "source"
      [] mutation.op = "copyOver" /\ mutation.hidden["merged"] # Absent -> "merged"
      [] OTHER -> "staged"

AfterCommit(m) ==
    IF m.hidden["staged"] # Absent THEN "unstage" ELSE IF m.hidden["target"] # Absent THEN "confirm" ELSE "sync"

PutInPlace ==
    /\ In("commit")
    /\ \/ /\ entry[mutation.to] = Absent /\ mutation.op # "mkdir"
          /\ entry' = [entry EXCEPT ![mutation.to] = mutation.hidden[Result]]
          /\ LET m == [mutation EXCEPT !.hidden[Result] = Absent, !.committed = TRUE]
             IN  mutation' = [m EXCEPT !.step = AfterCommit(m)]
          /\ UNCHANGED kind
       \/ /\ entry[mutation.to] = Absent /\ mutation.op = "mkdir"
          /\ \E o \in Free : /\ entry' = [entry EXCEPT ![mutation.to] = o]
                             /\ kind' = [kind EXCEPT ![o] = "directory"]
          /\ mutation' = [mutation EXCEPT !.step = "open", !.committed = TRUE]
       \/ (Faults \/ entry[mutation.to] # Absent) /\ Fails /\ UNCHANGED <<entry, kind>>
    /\ UNCHANGED <<read, left>>

\* mkdir() opens what it has made; that this fails does not undo it.
OpenMade ==
    LET made == entry[mutation.to] \in {o \in Object : kind[o] = "directory"}
    IN  /\ In("open")
        /\ \/ made /\ Goes("sync")
           \/ /\ Faults \/ ~made
              /\ mutation' = [mutation EXCEPT !.step = "ended", !.outcome = "error"]
        /\ UNCHANGED <<entry, kind, read, left>>

IsRemoval == mutation.op \in {"remove", "removeAll"}
Doomed == IF IsRemoval THEN "source" ELSE "target"

\* A removal that fails puts the entry back, and says so when it may have begun.
RemovalFails ==
    FailsWith(IF mutation.op = "removeAll" /\ kind[mutation.hidden["source"]] = "directory"
              THEN "recovery_incomplete" ELSE "error")

\* Mutated form: a failure of the cleanup is not answered.
CleanupFails_Bug == IF IsRemoval THEN RemovalFails ELSE Goes("sync")

CleanupFails ==
    IF IsRemoval THEN RemovalFails
    ELSE mutation' = [mutation EXCEPT !.step = "sync", !.outcome = "cleanup_incomplete"]

Confirm ==
    /\ In("confirm")
    /\ IF Same(IF IsRemoval THEN mutation.source ELSE mutation.target, mutation.hidden[Doomed])
       THEN Goes("unlink") ELSE CleanupFails
    /\ UNCHANGED <<entry, kind, read, left>>

UnlinkHidden ==
    /\ In("unlink")
    /\ \/ /\ kind' = [kind EXCEPT ![mutation.hidden[Doomed]] = "free"]
          /\ mutation' = [mutation EXCEPT !.hidden[Doomed] = Absent, !.committed = TRUE, !.step = "sync"]
       \/ Faults /\ CleanupFails /\ UNCHANGED kind
    /\ UNCHANGED <<entry, read, left>>

\* Doubt about durability is answered even when the cleanup has failed too.
Sync ==
    /\ In("sync")
    /\ \/ Goes("ended")
       \/ Faults /\ mutation' = [mutation EXCEPT !.step = "ended", !.outcome = "durability_uncertain"]
    /\ UNCHANGED <<entry, kind, read, left>>

-----------------------------------------------------------------------------
(* After an error: recoverEntries(), then the staged entries are removed.  *)

\* Mutated form: a rename back that replaces.
PutBack_Bug(slot, name, next) ==
    /\ IF mutation.hidden[slot] = Absent
       THEN Goes(next) /\ UNCHANGED <<entry, read>>
       ELSE /\ entry' = [entry EXCEPT ![name] = mutation.hidden[slot]]
            /\ mutation' = [mutation EXCEPT !.hidden[slot] = Absent, !.step = next]
            /\ UNCHANGED read
    /\ UNCHANGED <<kind, left>>

\* The rename back replaces nothing that was put there in the meantime, and is
\* not complete before the directory is synced.
PutBack(slot, name, next) ==
    /\ IF mutation.hidden[slot] = Absent
       THEN Goes(next) /\ UNCHANGED <<entry, read>>
       ELSE \/ /\ entry[name] = Absent
               /\ entry' = [entry EXCEPT ![name] = mutation.hidden[slot]]
               /\ read' = [read EXCEPT !.id = Noted(@, mutation.hidden[slot], FALSE)]
               /\ \E synced \in {TRUE} \cup {~Faults} :
                     mutation' = [mutation EXCEPT !.hidden[slot] = Absent, !.step = next,
                                     !.outcome = IF synced THEN @ ELSE "recovery_incomplete"]
            \/ /\ Faults \/ entry[name] # Absent
               /\ mutation' = [mutation EXCEPT !.step = next, !.outcome = "recovery_incomplete"]
               /\ UNCHANGED <<entry, read>>
    /\ UNCHANGED <<kind, left>>

RecoverTarget == In("recoverTarget") /\ PutBack("target", mutation.to, "recoverSource")
RecoverSource == In("recoverSource") /\ PutBack("source", mutation.from, "unstage")

AfterUnstage(m) == IF m.committed THEN (IF m.hidden["target"] # Absent THEN "confirm" ELSE "sync") ELSE "ended"

Unstage ==
    LET staged == {s \in {"staged", "merged"} : mutation.hidden[s] # Absent}
    IN  /\ In("unstage")
        /\ \E kept \in SUBSET staged :
              /\ kept # {} => Faults
              /\ kind' = [o \in Object |->
                            IF \E s \in staged \ kept : mutation.hidden[s] = o THEN "free" ELSE kind[o]]
              /\ LET m == [mutation EXCEPT !.hidden = [s \in Slot |-> IF s \in staged \ kept THEN Absent ELSE @[s]]]
                 IN  mutation' = IF kept = {} THEN [m EXCEPT !.step = AfterUnstage(m)]
                                 ELSE [m EXCEPT !.step = "ended", !.outcome = "recovery_incomplete"]
        /\ UNCHANGED <<entry, read, left>>

\* The answer is given, and the next mutation may begin.
Answer ==
    /\ In("ended")
    /\ left' = left \cup HiddenBy(mutation)
    /\ mutation' = NoMutation
    /\ UNCHANGED <<entry, kind, read>>

\* The service ends and starts again; nothing looks for what it was doing.
Restart ==
    /\ left' = left \cup HiddenBy(mutation)
    /\ mutation' = NoMutation
    /\ read' = NothingRead
    /\ UNCHANGED <<entry, kind>>

-----------------------------------------------------------------------------
Proceed ==
    \/ Stage \/ Recheck \/ HideSource \/ InspectSource \/ HideTarget \/ InspectTarget
    \/ Reinspect \/ Merge \/ Verify \/ PutInPlace \/ OpenMade \/ Confirm \/ UnlinkHidden \/ Sync
    \/ RecoverTarget \/ RecoverSource \/ Unstage \/ Answer

Request ==
    \/ BeginEdit
    \/ \E n \in FileName :
          \/ ReadForEdit(n) \/ BeginMkdir(n)
          \/ \E op \in {"write", "create"} : BeginWrite(op, n)
          \/ \E op \in {"remove", "removeAll"} : BeginRemove(op, n)
          \/ \E p \in FileName, op \in {"copy", "copyOver", "move", "moveOver"} : BeginTransfer(op, n, p)

Workload ==
    \/ \E n \in FileName :
          \/ UnlinkEntry(n)
          \/ \E p \in FileName : RenameEntry(n, p)
          \/ \E o \in Object, k \in {"file", "directory"}, resized \in BOOLEAN : Make(n, o, k, resized)
    \/ \E o \in Object, resized \in BOOLEAN : Change(o, resized)

FilesNext == Request \/ Proceed \/ Workload \/ Restart

FilesSpec == FilesInit /\ [][FilesNext]_filesVars

-----------------------------------------------------------------------------
(* Nothing that exists is without a name, and nothing has two: no rename of a  *)
(* mutation replaces what a process of the workload put there in the meantime, *)
(* and what is hidden is put in place, put back, removed or left behind.       *)
NothingLost ==
    \A o \in Object :
        LET names == {n \in FileName : entry[n] = o}
            slots == {s \in Slot : mutation.hidden[s] = o}
        IN  Cardinality(names) + Cardinality(slots) + Cardinality({o} \cap left)
              = (IF kind[o] = "free" THEN 0 ELSE 1)

(* The answer tells what is on disk.  A success or a plain error leaves nothing *)
(* under a hidden name, and of what answers a plain error only mkdir() may have *)
(* taken effect, when the directory is gone before it is opened or the open     *)
(* fails for another reason.  A cleanup that is incomplete is that of an old    *)
(* entry, after the new one was put in place; a recovery that is incomplete is  *)
(* that of a mutation that did not take effect, or of a copy into a directory   *)
(* of which staged entries remain.                                              *)
OutcomeTells ==
    mutation.step = "ended" =>
        LET m == mutation
        IN  CASE m.outcome = "ok" -> m.committed /\ HiddenBy(m) = {}
              [] m.outcome = "error" -> (m.committed => m.op = "mkdir") /\ HiddenBy(m) = {}
              [] m.outcome = "cleanup_incomplete" -> m.committed /\ HiddenBy(m) = {m.hidden["target"]}
              [] m.outcome = "durability_uncertain" -> m.committed /\ HiddenBy(m) \subseteq {m.hidden["target"]}
              [] m.outcome = "recovery_incomplete" -> m.committed => m.hidden["staged"] # Absent

(* The file that an edit removes is the one it has read, at its size, up to the *)
(* last comparison: another mutation, a process of the workload or a new file   *)
(* under the same inode may come at any time between the read and the removal.  *)
EditKeepsOthersWork ==
    [][mutation.op = "edit" /\ mutation.step = "confirm" /\ mutation'.step = "unlink"
         => /\ mutation.expected.object = mutation.hidden["target"]
            /\ ~mutation.expected.resized]_filesVars

(* An overwritten entry is kept until the new one is in place: whatever fails,  *)
(* and wherever the service ends, the old or the new one is on disk.            *)
OldUntilNew ==
    [][LET old == mutation.hidden["target"]
       IN  old # Absent /\ kind'[old] = "free" => mutation.committed]_filesVars
=============================================================================
