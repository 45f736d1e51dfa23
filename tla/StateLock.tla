------------------------------ MODULE StateLock ------------------------------
(***************************************************************************)
(* The lock of the state directory (withStateLock of                       *)
(* packages/cli/src/state.ts): a file created exclusively, which names the *)
(* process that owns it.  A command that finds the file of a process that  *)
(* is gone removes it under a second such file, the reclaimer's.  Every    *)
(* call of the file system is a step of its own, and a command may crash   *)
(* between any two of them.                                                *)
(***************************************************************************)
EXTENDS FiniteSets, Naturals

CONSTANTS
    Command,       \* running commands, each in a process of its own
    Inode,         \* identities of files: one is taken again once it is free
    Crashing,      \* the commands that may crash
    SlowWriter,    \* whether a command may take 30 s to write its record
    WritesFail,    \* whether the write of a record may fail
    NoFile         \* no file; no nonce

Path == {"lock", "reclaim"}

\* The four calls of createOwnedStateLock, the two of staleStateLock and the
\* four of removeStateLockIfMatches.
Creating == {"first", "again", "guard", "final"}
Looking  == {"check", "recheck"}
Removing == {"remove", "cleanup", "unguard", "release"}

Place == Creating \cup Looking \cup Removing \cup {"idle", "held"}

ASSUME CommandAssumption ==
    /\ NoFile \notin Command \cup Inode
    /\ Crashing \subseteq Command
    /\ SlowWriter \in BOOLEAN
    /\ WritesFail \in BOOLEAN

VARIABLES
    file,      \* the two lock files
    command,   \* what each command is doing
    alive      \* the commands whose process exists

lockVars == <<file, command, alive>>

\* The nonce of a record is its owner: a command has one file of a path at a
\* time.  old: more than 30 s have passed since the file was changed.
File == [owner : Command, ino : Inode, written : BOOLEAN, old : BOOLEAN]

ASSUME FileAssumption == NoFile \notin File

(***************************************************************************)
(* A command is at a call of one of the functions above, at one of its     *)
(* steps.  ino and guardIno are the identities of the files it created     *)
(* (StateLockOwner), snap is the snapshot of the file to be removed, from  *)
(* is the createOwnedStateLock that failed, and won says that the lock was *)
(* acquired.                                                               *)
(***************************************************************************)
Snapshot == [ino : Inode \cup {NoFile}, nonce : Command \cup {NoFile}, old : BOOLEAN]

NoSnapshot == [ino |-> NoFile, nonce |-> NoFile, old |-> FALSE]

CommandState ==
    [place : Place, step : {"create", "write", "stat", "read", "unlink", "run"},
     ino : Inode \cup {NoFile}, guardIno : Inode \cup {NoFile},
     snap : Snapshot, from : Creating, won : BOOLEAN]

LockTypeOK ==
    /\ file \in [Path -> File \cup {NoFile}]
    /\ command \in [Command -> CommandState]
    /\ alive \subseteq Command
    /\ \A c \in Command :
          command[c].place \in {"idle", "check", "guard", "release"} => command[c].ino = NoFile

Idle == [place |-> "idle", step |-> "run", ino |-> NoFile, guardIno |-> NoFile,
         snap |-> NoSnapshot, from |-> "first", won |-> FALSE]

LockInit ==
    /\ file = [path \in Path |-> NoFile]
    /\ command = [c \in Command |-> Idle]
    /\ alive = Command

-----------------------------------------------------------------------------
At(c, places, step) == c \in alive /\ command[c].place \in places /\ command[c].step = step

\* The file that a step of the command is about.
PathOf(s) ==
    IF s.place \in {"guard", "unguard"} \/ (s.place = "cleanup" /\ s.from = "guard")
    THEN "reclaim" ELSE "lock"

Current(c) == file[PathOf(command[c])]

Exists(c) == Current(c) # NoFile

Set(c, state) == command' = [command EXCEPT ![c] = state]

Call(s, place, step) == [s EXCEPT !.place = place, !.step = step]

\* releaseOwnedStateLock(reclaimerPath, reclaimer), which closes the handle.
Unguard(s, c, won) ==
    [Call(s, "unguard", "stat") EXCEPT
        !.won = won, !.guardIno = NoFile, !.from = "first",
        !.snap = [ino |-> s.guardIno, nonce |-> c, old |-> FALSE]]

\* An error: the finally clause gives back the reclaimer's file, if there is one.
Fail(s, c) == IF s.guardIno = NoFile THEN Idle ELSE Unguard(s, c, FALSE)

\* The identities that files or open handles have.
InUse ==
    {file[path].ino : path \in {q \in Path : file[q] # NoFile}}
        \cup {command[c].ino : c \in alive} \cup {command[c].guardIno : c \in alive}

StartCommand(c) ==
    /\ At(c, {"idle"}, "run")
    /\ Set(c, Call(Idle, "first", "create"))
    /\ UNCHANGED <<file, alive>>

-----------------------------------------------------------------------------
(* createOwnedStateLock(path): open with O_EXCL, then write the record.    *)

CreateLock(c) ==
    LET s == command[c] IN
    /\ At(c, Creating, "create")
    /\ ~Exists(c)
    /\ \E i \in Inode \ InUse :
          /\ file' = [file EXCEPT ![PathOf(s)] =
                 [owner |-> c, ino |-> i, written |-> FALSE, old |-> FALSE]]
          /\ Set(c, IF s.place = "guard" THEN [s EXCEPT !.step = "write", !.guardIno = i]
                                         ELSE [s EXCEPT !.step = "write", !.ino = i])
    /\ UNCHANGED alive

CreateFails(c) ==
    LET s == command[c] IN
    /\ At(c, Creating, "create")
    /\ Exists(c)
    /\ Set(c, IF s.place = "first" THEN Call(s, "check", "stat") ELSE Fail(s, c))
    /\ UNCHANGED <<file, alive>>

\* The inode the command's handle is open on.
Written(s) == IF s.place = "guard" THEN s.guardIno ELSE s.ino

\* The write goes to the handle, whether or not the path still names its file.
Write(c) ==
    LET s == command[c] IN
    /\ At(c, Creating, "write")
    /\ file' = IF Exists(c) /\ Current(c).ino = Written(s)
               THEN [file EXCEPT ![PathOf(s)].written = TRUE, ![PathOf(s)].old = FALSE]
               ELSE file
    /\ Set(c, CASE s.place = "guard" -> Call(s, "recheck", "stat")
                [] s.place = "final" -> Unguard(s, c, TRUE)
                [] OTHER -> Call([s EXCEPT !.won = TRUE], "held", "run"))
    /\ UNCHANGED alive

\* The error path of the same function: the file is removed by its identity,
\* and the handle is closed before.
WriteFails(c) ==
    LET s == command[c] IN
    /\ WritesFail
    /\ At(c, Creating, "write")
    /\ Set(c, [Call(s, "cleanup", "stat") EXCEPT
                  !.from = s.place,
                  !.snap = [ino |-> Written(s), nonce |-> NoFile, old |-> FALSE],
                  !.ino = NoFile,
                  !.guardIno = IF s.place = "guard" THEN NoFile ELSE s.guardIno])
    /\ UNCHANGED <<file, alive>>

-----------------------------------------------------------------------------
(* staleStateLock(path)                                                    *)

\* Nothing to remove: create.
Vanished(s) == Call(s, IF s.place = "check" THEN "again" ELSE "final", "create")

Stat(c) ==
    LET s == command[c] IN
    /\ At(c, Looking, "stat")
    /\ Set(c, IF Exists(c)
              THEN [s EXCEPT !.step = "read",
                             !.snap = [ino |-> Current(c).ino, nonce |-> NoFile,
                                       old |-> Current(c).old]]
              ELSE Vanished(s))
    /\ UNCHANGED <<file, alive>>

Stale_Bug(s, f) == s.snap.old

\* A record without an owner is stale after 30 s, one with an owner at once
\* when that process does not exist.
Stale(s, f) == IF f.written THEN f.owner \notin alive ELSE s.snap.old

Observed_Bug(s, f) ==
    Call([s EXCEPT !.snap.nonce = IF f.written THEN f.owner ELSE NoFile], "remove", "stat")

Observed(s, f) ==
    IF s.place = "check" THEN Call([s EXCEPT !.snap = NoSnapshot], "guard", "create")
    ELSE Call([s EXCEPT !.snap.nonce = IF f.written THEN f.owner ELSE NoFile], "remove", "stat")

Read(c) ==
    LET s == command[c] IN
    /\ At(c, Looking, "read")
    /\ Set(c, IF ~Exists(c) THEN Vanished(s)
              ELSE IF Stale(s, Current(c)) THEN Observed(s, Current(c))
              ELSE Fail(s, c))
    /\ UNCHANGED <<file, alive>>

-----------------------------------------------------------------------------
(* removeStateLockIfMatches(path, expected)                                *)

\* What follows, by the result.
Removed(s, c, matched) ==
    CASE s.place = "remove"  -> IF matched THEN Call(s, "final", "create") ELSE Fail(s, c)
      [] s.place = "cleanup" -> Fail(s, c)
      [] s.place = "unguard" -> IF s.won THEN Call(s, "held", "run") ELSE Idle
      [] s.place = "release" -> Idle

MatchFile(c) ==
    LET s == command[c] IN
    /\ At(c, Removing, "stat")
    /\ Set(c, IF ~Exists(c) \/ Current(c).ino # s.snap.ino THEN Removed(s, c, FALSE)
              ELSE [s EXCEPT !.step = IF s.snap.nonce = NoFile THEN "unlink" ELSE "read"])
    /\ UNCHANGED <<file, alive>>

MatchNonce(c) ==
    LET s == command[c] IN
    /\ At(c, Removing, "read")
    /\ Set(c, IF Exists(c) /\ Current(c).written /\ Current(c).owner = s.snap.nonce
              THEN [s EXCEPT !.step = "unlink"]
              ELSE Removed(s, c, FALSE))
    /\ UNCHANGED <<file, alive>>

\* rm(path, { force: true }) removes what the path names now.
Unlink(c) ==
    LET s == command[c] IN
    /\ At(c, Removing, "unlink")
    /\ file' = [file EXCEPT ![PathOf(s)] = NoFile]
    /\ Set(c, Removed(s, c, TRUE))
    /\ UNCHANGED alive

-----------------------------------------------------------------------------
Release_Bug(c) ==
    LET s == command[c] IN
    /\ At(c, {"held"}, "run")
    /\ Set(c, [Call(s, "release", "stat") EXCEPT
                  !.snap = [ino |-> s.ino, nonce |-> c, old |-> FALSE]])
    /\ UNCHANGED <<file, alive>>

\* releaseOwnedStateLock(paths.lock, owner) when the command's action has ended.
Release(c) ==
    LET s == command[c] IN
    /\ At(c, {"held"}, "run")
    /\ Set(c, [Idle EXCEPT !.place = "release", !.step = "stat",
                           !.snap = [ino |-> s.ino, nonce |-> c, old |-> FALSE]])
    /\ UNCHANGED <<file, alive>>

\* The process is gone, its files stay.
Crash(c) ==
    /\ c \in alive \cap Crashing
    /\ alive' = alive \ {c}
    /\ Set(c, Idle)
    /\ UNCHANGED file

\* 30 s pass without a write to the file.
Age(path) ==
    /\ file[path] # NoFile
    /\ file[path].owner \in alive => SlowWriter
    /\ file' = [file EXCEPT ![path].old = TRUE]
    /\ UNCHANGED <<command, alive>>

CommandStep(c) ==
    \/ CreateLock(c) \/ CreateFails(c) \/ Write(c)
    \/ Stat(c) \/ Read(c)
    \/ MatchFile(c) \/ MatchNonce(c) \/ Unlink(c)
    \/ Release(c)

LockNext ==
    \/ \E c \in Command : StartCommand(c) \/ CommandStep(c) \/ WriteFails(c) \/ Crash(c)
    \/ \E path \in Path : Age(path)

LockSpec == LockInit /\ [][LockNext]_lockVars

(***************************************************************************)
(* A command goes on as long as its process exists, and its action ends.   *)
(* That anyone starts a command, or that time passes, is not assumed.      *)
(***************************************************************************)
FairLockSpec == LockSpec /\ \A c \in Command : WF_lockVars(CommandStep(c))

-----------------------------------------------------------------------------
Holding(c) == c \in alive /\ command[c].place = "held"

(* Two commands never change the state directory at the same time,         *)
(* whatever crashed before and however many reclaim its lock.              *)
MutualExclusion == \A c, d \in Command : Holding(c) /\ Holding(d) => c = d

StaleLock == file["lock"] # NoFile /\ file["lock"].written /\ file["lock"].owner \notin alive

\* The reclaimer's file of a command that crashed while it had it.
ReclaimerLeft == file["reclaim"] # NoFile /\ file["reclaim"].owner \notin alive

Meets(c) == StaleLock /\ At(c, {"first"}, "create")

\* The record of a reclaimer's file cannot be written.
GuardFailing ==
    \E c \in Command : command[c].place = "cleanup" /\ command[c].from = "guard"

\* Has the reclaimer's file and will not remove the lock that is there now: it
\* has removed one before, or one has come since it took its identity.
PassesBy(c) ==
    \/ At(c, {"final"}, "create")
    \/ c \in alive /\ command[c].place = "unguard"
    \/ /\ At(c, {"recheck"}, "read") \/ (c \in alive /\ command[c].place = "remove")
       /\ file["lock"] # NoFile
       /\ command[c].snap.ino # file["lock"].ino

\* Found the lock stale, but the reclaimer's file is taken by such a command.
Refused(c) ==
    At(c, {"guard"}, "create") /\ \E d \in Command \ {c} : PassesBy(d)

(* A command that comes upon the lock of a process that is gone removes    *)
(* it, or another one does.  That is so unless a command crashed while it  *)
(* had the reclaimer's file or could not write the record of that file, or *)
(* the lock was taken and left once more behind the back of a reclaimer,   *)
(* whose file refuses the command that comes upon it.                      *)
StaleLockReclaimed ==
    \A c \in Command \ Crashing :
        Meets(c) ~> (~StaleLock \/ ReclaimerLeft \/ GuardFailing \/ Refused(c))
=============================================================================
