---------------------------- MODULE DirectoryProofs ----------------------------
(***************************************************************************)
(* Proofs about what is kept in directories: module StateLock, for every   *)
(* number of commands and files, whoever crashes and whatever writes fail; *)
(* module Transactions, for every set of computers and names and every     *)
(* number of commands, wherever each of them is interrupted; and module    *)
(* BoundedFiles, for every set of names and inodes, whatever fails and     *)
(* whatever the workload does in between.                                  *)
(***************************************************************************)
EXTENDS StateLock, Transactions, BoundedFiles, FiniteSetTheorems, TLAPS

-----------------------------------------------------------------------------
(* The lock                                                                *)

\* The file of that path is the command's.
Has(F, path, c) == F[path] # NoFile /\ F[path].owner = c

\* The file of that path is of a process that is gone.
Orphaned(F, path, A) == F[path] # NoFile /\ F[path].owner \notin A

(***************************************************************************)
(* From the creation of its lock to its removal the lock is the command's, *)
(* and likewise the reclaimer's file: it is never anybody else's to        *)
(* remove.                                                                 *)
(***************************************************************************)
Owning(s) ==
    \/ s.place \in {"first", "again", "final"} /\ s.step = "write"
    \/ s.place \in {"held", "release"}
    \/ s.place = "unguard" /\ s.won
    \/ s.place = "cleanup" /\ s.from # "guard"

Guarding(s) ==
    \/ s.place \in {"recheck", "remove", "final", "unguard"}
    \/ s.place = "guard" /\ s.step = "write"
    \/ s.place = "cleanup" /\ s.from \in {"guard", "final"}

\* The reclaimer's file is being removed, and its handle closed.
GivingBack(s) == s.place = "unguard" \/ (s.place = "cleanup" /\ s.from = "guard")

(***************************************************************************)
(* What a reclaimer goes by.  A record without an owner that is old, and a *)
(* file that it will unlink, are of a process that is gone: they stay      *)
(* until it has removed them, because no other command is a reclaimer.  A  *)
(* nonce is of such a process, whatever the path names in the meantime.    *)
(***************************************************************************)
Condemning(s) ==
    \/ s.place = "recheck" /\ s.step = "read" /\ s.snap.old
    \/ s.place = "remove" /\ (s.step = "unlink" \/ s.snap.nonce = NoFile)

CommandInv(c, s, F, A) ==
    /\ Owning(s) => Has(F, "lock", c)
    /\ Guarding(s) => Has(F, "reclaim", c)
    /\ s.guardIno # NoFile => Guarding(s) /\ ~GivingBack(s)
    /\ Condemning(s) => Orphaned(F, "lock", A)
    /\ s.place = "remove" => s.snap.nonce \notin A

\* Where only a process that is gone lets its record grow old.
AgeInv(F, A) == \A path \in Path : F[path] # NoFile /\ F[path].old => F[path].owner \notin A

\* The parts of the type invariant that concern one command.
StateType(s) ==
    /\ s \in CommandState
    /\ s.place \in {"idle", "check", "recheck", "guard", "remove", "cleanup", "release"} => s.ino = NoFile
    /\ s.place \in Creating /\ s.step = "create" => s.ino = NoFile

TypeInv ==
    /\ file \in [Path -> File \cup {NoFile}]
    /\ command \in [Command -> CommandState]
    /\ alive \subseteq Command
    /\ \A c \in Command : StateType(command[c])

LockInv == AgeInv(file, alive) /\ \A c \in alive : CommandInv(c, command[c], file, alive)
-----------------------------------------------------------------------------
(* The functions on the state of a command.                                *)

LEMMA Places ==
    \A place \in {"first", "again", "guard", "final", "check", "recheck", "remove", "cleanup",
                  "unguard", "release", "held"} : place \in Place
BY DEF Place, Creating, Looking, Removing

LEMMA IdleFields ==
    /\ StateType(Idle) /\ Idle.place = "idle" /\ Idle.guardIno = NoFile /\ Idle.ino = NoFile
    /\ Idle.step = "run"
BY DEF Idle, StateType, CommandState, Place, Creating, NoSnapshot, Snapshot

LEMMA UnguardFields ==
    ASSUME NEW s \in CommandState, NEW c \in Command, NEW won \in BOOLEAN
    PROVE  LET x == Unguard(s, c, won) IN
           /\ x \in CommandState /\ x.place = "unguard" /\ x.step = "stat"
           /\ x.ino = s.ino /\ x.guardIno = NoFile /\ x.won = won
<1> DEFINE y == Call(s, "unguard", "stat")
           n == [ino |-> s.guardIno, nonce |-> c, old |-> FALSE]
<1>1. y \in CommandState /\ y.place = "unguard" /\ y.step = "stat" /\ y.ino = s.ino
  <2>1. y = Call(s, "unguard", "stat")
    OBVIOUS
  <2> HIDE DEF y
  <2> QED
    BY <2>1, Places DEF Call, CommandState
<1>2. n \in Snapshot
  BY DEF Snapshot, CommandState
<1> HIDE DEF y, n
<1>3. Unguard(s, c, won) = [y EXCEPT !.won = won, !.guardIno = NoFile, !.from = "first", !.snap = n]
  BY DEF Unguard, y, n
<1> QED
  BY <1>1, <1>2, <1>3 DEF CommandState, Creating

(* A command goes back to idle, or gives back the reclaimer's file first.  *)
LEMMA FailInv ==
    ASSUME NEW s, StateType(s), NEW c \in Command, NEW F, NEW A,
           s.guardIno # NoFile => Has(F, "reclaim", c)
    PROVE  StateType(Fail(s, c)) /\ CommandInv(c, Fail(s, c), F, A)
<1>1. CASE s.guardIno = NoFile
  BY <1>1, IdleFields DEF Fail, CommandInv, Owning, Guarding, Condemning
<1>2. CASE s.guardIno # NoFile
  <2> DEFINE x == Unguard(s, c, FALSE)
  <2>1. /\ x \in CommandState /\ x.place = "unguard" /\ x.step = "stat"
        /\ x.guardIno = NoFile /\ ~x.won
    BY UnguardFields DEF StateType
  <2> HIDE DEF x
  <2>2. StateType(x) /\ CommandInv(c, x, F, A)
    BY <1>2, <2>1 DEF StateType, CommandInv, Owning, Guarding, Condemning, Creating
  <2> QED
    BY <1>2, <2>2 DEF Fail, x
<1> QED
  BY <1>1, <1>2

-----------------------------------------------------------------------------
(* What a step has to show.                                                *)

\* A command can only be in a step as long as its process exists.
StepOf(c, x) == /\ command' = [command EXCEPT ![c] = x]
                /\ StateType(x) /\ CommandInv(c, x, file', alive)
                /\ alive' = alive

LEMMA StepKeeps ==
    ASSUME TypeInv, LockInv, NEW c \in alive, NEW x, StepOf(c, x),
           file' \in [Path -> File \cup {NoFile}], AgeInv(file', alive),
           \A d \in alive \ {c} :
               CommandInv(d, command[d], file, alive) => CommandInv(d, command[d], file', alive)
    PROVE  TypeInv' /\ LockInv'
<1>1. c \in Command /\ command' \in [Command -> CommandState]
  BY DEF TypeInv, StepOf, StateType
<1>2. command'[c] = x /\ \A d \in Command \ {c} : command'[d] = command[d]
  BY <1>1 DEF TypeInv, StepOf
<1>3. TypeInv'
  BY <1>1, <1>2 DEF TypeInv, StepOf, StateType
<1>4. \A d \in alive : CommandInv(d, command'[d], file', alive)
  BY <1>2 DEF TypeInv, LockInv, StepOf
<1> QED
  BY <1>3, <1>4 DEF LockInv, StepOf

LEMMA QuietLockKeeps ==
    ASSUME TypeInv, LockInv, NEW c \in alive, NEW x, StepOf(c, x), file' = file
    PROVE  TypeInv' /\ LockInv'
BY StepKeeps DEF TypeInv, LockInv

(* What a step may go by.                                                  *)
LEMMA AtFacts ==
    ASSUME TypeInv, LockInv, NEW c, NEW places, NEW next, At(c, places, next)
    PROVE  /\ c \in alive /\ c \in Command
           /\ command[c].place \in places /\ command[c].step = next
           /\ StateType(command[c]) /\ command[c] \in CommandState
           /\ CommandInv(c, command[c], file, alive)
           /\ command[c].guardIno # NoFile => Has(file, "reclaim", c)
BY DEF At, TypeInv, LockInv, CommandInv, StateType
-----------------------------------------------------------------------------
(* Calls that change no file.                                              *)

LEMMA BeginLockStep ==
    ASSUME TypeInv, LockInv, NEW c \in Command, StartCommand(c)
    PROVE  TypeInv' /\ LockInv'
<1> DEFINE x == Call(Idle, "first", "create")
<1>1. c \in alive /\ file' = file /\ alive' = alive /\ command' = [command EXCEPT ![c] = x]
  BY AtFacts DEF StartCommand, Set
<1>2. /\ x \in CommandState /\ x.place = "first" /\ x.step = "create"
      /\ x.ino = NoFile /\ x.guardIno = NoFile
  <2>1. x = Call(Idle, "first", "create")
    OBVIOUS
  <2> HIDE DEF x
  <2> QED
    BY <2>1, IdleFields, Places DEF Call, CommandState, StateType
<1> HIDE DEF x
<1>3. StateType(x) /\ CommandInv(c, x, file, alive)
  BY <1>2 DEF StateType, CommandInv, Owning, Guarding, Condemning
<1> QED
  BY <1>1, <1>3, QuietLockKeeps DEF StepOf

LEMMA CreateFailsStep ==
    ASSUME TypeInv, LockInv, NEW c \in Command, CreateFails(c)
    PROVE  TypeInv' /\ LockInv'
<1> DEFINE s == command[c]
           x == IF s.place = "first" THEN Call(s, "check", "stat") ELSE Fail(s, c)
<1>1. /\ c \in alive /\ file' = file /\ alive' = alive /\ command' = [command EXCEPT ![c] = x]
      /\ s.place \in Creating /\ s.step = "create" /\ s \in CommandState /\ StateType(s)
      /\ CommandInv(c, s, file, alive) /\ (s.guardIno # NoFile => Has(file, "reclaim", c))
  BY AtFacts DEF CreateFails, Set
<1>2. StateType(x) /\ CommandInv(c, x, file, alive)
  <2>1. CASE s.place = "first"
    <3> DEFINE y == Call(s, "check", "stat")
    <3>1. /\ y \in CommandState /\ y.place = "check" /\ y.step = "stat"
          /\ y.ino = NoFile /\ y.guardIno = NoFile
      <4>1. y = Call(s, "check", "stat") /\ s.ino = NoFile /\ s.guardIno = NoFile
        BY <1>1, <2>1 DEF StateType, CommandInv, Guarding
      <4> HIDE DEF y
      <4> QED
        BY <1>1, <4>1, Places DEF Call, CommandState
    <3> HIDE DEF y
    <3>2. StateType(y) /\ CommandInv(c, y, file, alive)
      BY <3>1 DEF StateType, CommandInv, Owning, Guarding, Condemning
    <3> QED
      BY <2>1, <3>2 DEF y
  <2>2. CASE s.place # "first"
    BY <1>1, <2>2, FailInv
  <2> QED
    BY <2>1, <2>2
<1> HIDE DEF x
<1> QED
  BY <1>1, <1>2, QuietLockKeeps DEF StepOf

(* The file whose record could not be written is still the command's.      *)
LEMMA WriteFailsStep ==
    ASSUME TypeInv, LockInv, NEW c \in Command, WriteFails(c)
    PROVE  TypeInv' /\ LockInv'
<1> DEFINE s == command[c]
           y == Call(s, "cleanup", "stat")
           n == [ino |-> Written(s), nonce |-> NoFile, old |-> FALSE]
           i == IF s.place = "guard" THEN NoFile ELSE s.guardIno
           x == [y EXCEPT !.from = s.place, !.snap = n, !.ino = NoFile, !.guardIno = i]
<1>1. /\ c \in alive /\ file' = file /\ alive' = alive
      /\ s.place \in Creating /\ s.step = "write" /\ s \in CommandState /\ StateType(s)
      /\ CommandInv(c, s, file, alive)
  BY AtFacts DEF WriteFails
<1>2. y \in CommandState /\ y.place = "cleanup" /\ y.step = "stat"
  <2>1. y = Call(s, "cleanup", "stat")
    OBVIOUS
  <2> HIDE DEF y
  <2> QED
    BY <1>1, <2>1, Places DEF Call, CommandState
<1>3. n \in Snapshot /\ i \in Inode \cup {NoFile} /\ (i # NoFile => s.place # "guard" /\ i = s.guardIno)
  BY <1>1 DEF Snapshot, CommandState, Written
<1> HIDE DEF y, n, i
<1>4. command' = [command EXCEPT ![c] = x]
  BY DEF WriteFails, Set, y, n, i
<1>5. /\ x \in CommandState /\ x.place = "cleanup" /\ x.step = "stat" /\ x.from = s.place
      /\ x.ino = NoFile /\ x.guardIno = i
  BY <1>1, <1>2, <1>3 DEF CommandState
<1> HIDE DEF x
<1>6. StateType(x)
  BY <1>5 DEF StateType, Creating
<1>7. Owning(x) => Owning(s)
  BY <1>1, <1>5 DEF Owning, Creating
<1>8. Guarding(x) => Guarding(s)
  BY <1>1, <1>5 DEF Guarding
<1>9. x.guardIno # NoFile => Guarding(x) /\ ~GivingBack(x)
  BY <1>1, <1>3, <1>5 DEF CommandInv, Guarding, GivingBack, Creating
<1>10. ~Condemning(x) /\ x.place # "remove"
  BY <1>5 DEF Condemning
<1> QED
  BY <1>1, <1>4, <1>6, <1>7, <1>8, <1>9, <1>10, QuietLockKeeps DEF StepOf, CommandInv

(* Nothing is in the way any more.                                         *)
LEMMA VanishedInv ==
    ASSUME NEW s, StateType(s), s.place \in Looking, NEW c, NEW F, NEW A, CommandInv(c, s, F, A)
    PROVE  StateType(Vanished(s)) /\ CommandInv(c, Vanished(s), F, A)
<1> DEFINE place == IF s.place = "check" THEN "again" ELSE "final"
           x == Vanished(s)
<1>1. /\ x \in CommandState /\ x.place = place /\ x.step = "create"
      /\ x.ino = NoFile /\ x.guardIno = s.guardIno
  <2>1. x = Call(s, place, "create") /\ place \in {"again", "final"} /\ s \in CommandState /\ s.ino = NoFile
    BY DEF Vanished, StateType, Looking
  <2> HIDE DEF x, place
  <2> QED
    BY <2>1, Places DEF Call, CommandState
<1> HIDE DEF x
<1>2. StateType(x)
  BY <1>1 DEF StateType
<1>3. /\ (Guarding(x) <=> Guarding(s)) /\ ~GivingBack(x)
      /\ ~Owning(x) /\ ~Condemning(x) /\ x.place # "remove"
  BY <1>1 DEF Guarding, GivingBack, Owning, Condemning, Looking
<1> QED
  BY <1>1, <1>2, <1>3 DEF CommandInv, x

LEMMA StatStep ==
    ASSUME TypeInv, LockInv, NEW c \in Command, Stat(c)
    PROVE  TypeInv' /\ LockInv'
<1> DEFINE s == command[c]
           n == [ino |-> Current(c).ino, nonce |-> NoFile, old |-> Current(c).old]
           y == [s EXCEPT !.step = "read", !.snap = n]
           x == IF Exists(c) THEN y ELSE Vanished(s)
<1>1. /\ c \in alive /\ file' = file /\ alive' = alive /\ command' = [command EXCEPT ![c] = x]
      /\ s.place \in Looking /\ s.step = "stat" /\ s \in CommandState /\ StateType(s)
      /\ CommandInv(c, s, file, alive)
  BY AtFacts DEF Stat, Set
<1>2. StateType(x) /\ CommandInv(c, x, file, alive)
  <2>1. CASE ~Exists(c)
    BY <1>1, <2>1, VanishedInv
  <2>2. CASE Exists(c)
    <3>1. PathOf(s) = "lock" /\ Current(c) = file["lock"] /\ file["lock"] # NoFile
      BY <1>1, <2>2 DEF PathOf, Current, Exists, Looking
    <3>2. file["lock"] \in File
      BY <3>1 DEF TypeInv, Path
    <3>3. n \in Snapshot /\ n.old = file["lock"].old
      BY <3>1, <3>2 DEF Snapshot, File
    <3> HIDE DEF n
    <3>4. /\ y \in CommandState /\ y.place = s.place /\ y.step = "read" /\ y.snap = n
          /\ y.ino = s.ino /\ y.guardIno = s.guardIno
      BY <1>1, <3>3 DEF CommandState
    <3> HIDE DEF y
    <3>5. StateType(y)
      BY <1>1, <3>4 DEF StateType
    <3>6. (Guarding(y) <=> Guarding(s)) /\ ~GivingBack(y) /\ ~Owning(y) /\ y.place # "remove"
      BY <1>1, <3>4 DEF Guarding, GivingBack, Owning, Looking
    <3>7. Condemning(y) => Orphaned(file, "lock", alive)
      BY <3>1, <3>3, <3>4, <3>6 DEF Condemning, Orphaned, LockInv, AgeInv, Path
    <3> QED
      BY <1>1, <2>2, <3>4, <3>5, <3>6, <3>7 DEF CommandInv
  <2> QED
    BY <2>1, <2>2
<1> HIDE DEF x
<1> QED
  BY <1>1, <1>2, QuietLockKeeps DEF StepOf

(* A reclaimer goes by the second look at the file, under its own lock.    *)
LEMMA ReadStep ==
    ASSUME TypeInv, LockInv, NEW c \in Command, Read(c)
    PROVE  TypeInv' /\ LockInv'
<1> DEFINE s == command[c]
           f == Current(c)
           x == IF ~Exists(c) THEN Vanished(s)
                ELSE IF Stale(s, f) THEN Observed(s, f) ELSE Fail(s, c)
<1>1. /\ c \in alive /\ file' = file /\ alive' = alive /\ command' = [command EXCEPT ![c] = x]
      /\ s.place \in Looking /\ s.step = "read" /\ s \in CommandState /\ StateType(s)
      /\ CommandInv(c, s, file, alive) /\ (s.guardIno # NoFile => Has(file, "reclaim", c))
  BY AtFacts DEF Read, Set
<1>2. f = file["lock"]
  BY <1>1 DEF PathOf, Current, Looking
<1>3. StateType(x) /\ CommandInv(c, x, file, alive)
  <2>1. CASE ~Exists(c)
    BY <1>1, <2>1, VanishedInv
  <2>2. CASE Exists(c) /\ ~Stale(s, f)
    BY <1>1, <2>2, FailInv
  <2>3. CASE Exists(c) /\ Stale(s, f) /\ s.place = "check"
    <3> DEFINE z == [s EXCEPT !.snap = NoSnapshot]
               y == Call(z, "guard", "create")
    <3>1. z \in CommandState /\ z.ino = NoFile /\ z.guardIno = NoFile
      <4>1. NoSnapshot \in Snapshot
        BY DEF NoSnapshot, Snapshot
      <4> QED
        BY <1>1, <2>3, <4>1 DEF CommandState, StateType, CommandInv, Guarding
    <3> HIDE DEF z
    <3>2. /\ y \in CommandState /\ y.place = "guard" /\ y.step = "create"
          /\ y.ino = NoFile /\ y.guardIno = NoFile
      <4>1. y = Call(z, "guard", "create")
        OBVIOUS
      <4> HIDE DEF y
      <4> QED
        BY <3>1, <4>1, Places DEF Call, CommandState
    <3> HIDE DEF y
    <3>3. StateType(y) /\ CommandInv(c, y, file, alive)
      BY <3>2 DEF StateType, CommandInv, Owning, Guarding, Condemning
    <3>4. x = y
      BY <2>3 DEF Observed, y, z
    <3> QED
      BY <3>3, <3>4
  <2>4. CASE Exists(c) /\ Stale(s, f) /\ s.place = "recheck"
    <3> DEFINE nonce == IF f.written THEN f.owner ELSE NoFile
               n == [s.snap EXCEPT !.nonce = nonce]
               z == [s EXCEPT !.snap = n]
               y == Call(z, "remove", "stat")
    <3>1. f \in File /\ f # NoFile
      BY <1>2, <2>4 DEF Exists, TypeInv, Path
    <3>2. /\ nonce \in Command \cup {NoFile} /\ nonce \notin alive
          /\ nonce = NoFile => ~f.written /\ s.snap.old
      BY <2>4, <3>1, CommandAssumption DEF File, Stale, TypeInv
    <3> HIDE DEF nonce
    <3>3. n \in Snapshot /\ n.nonce = nonce
      BY <1>1, <3>2 DEF CommandState, Snapshot
    <3>4. z = [s EXCEPT !.snap.nonce = nonce]
      BY <1>1 DEF CommandState, Snapshot
    <3> HIDE DEF n
    <3>5. z \in CommandState /\ z.ino = NoFile /\ z.guardIno = s.guardIno /\ z.snap = n
      BY <1>1, <2>4, <3>3 DEF CommandState, StateType
    <3>6. x = y
      BY <2>4, <3>4 DEF Observed, nonce
    <3> HIDE DEF z
    <3>7. /\ y \in CommandState /\ y.place = "remove" /\ y.step = "stat"
          /\ y.ino = NoFile /\ y.guardIno = s.guardIno /\ y.snap.nonce = nonce
      <4>1. y = Call(z, "remove", "stat")
        OBVIOUS
      <4> HIDE DEF y
      <4> QED
        BY <3>3, <3>5, <4>1, Places DEF Call, CommandState
    <3> HIDE DEF y
    <3>8. StateType(y) /\ Guarding(y) /\ Guarding(s) /\ ~GivingBack(y) /\ ~Owning(y)
      BY <2>4, <3>7 DEF StateType, Guarding, GivingBack, Owning, Creating
    <3>9. Condemning(y) => Condemning(s)
      BY <1>1, <2>4, <3>2, <3>7 DEF Condemning
    <3>10. CommandInv(c, y, file, alive)
      BY <1>1, <3>2, <3>7, <3>8, <3>9 DEF CommandInv
    <3> QED
      BY <3>6, <3>8, <3>10
  <2> QED
    BY <1>1, <2>1, <2>2, <2>3, <2>4 DEF Looking
<1> HIDE DEF x
<1> QED
  BY <1>1, <1>3, QuietLockKeeps DEF StepOf
-----------------------------------------------------------------------------
(* The removal of a file that matches.                                     *)

LEMMA RemovedInv ==
    ASSUME NEW s, StateType(s), s.place \in Removing, NEW c \in Command, NEW matched \in BOOLEAN,
           NEW F, NEW A,
           s.place = "remove" \/ s.guardIno # NoFile => Has(F, "reclaim", c),
           s.place = "unguard" => s.guardIno = NoFile /\ (s.won => Has(F, "lock", c))
    PROVE  StateType(Removed(s, c, matched)) /\ CommandInv(c, Removed(s, c, matched), F, A)
<1>1. StateType(Fail(s, c)) /\ CommandInv(c, Fail(s, c), F, A)
  BY FailInv
<1>2. StateType(Idle) /\ CommandInv(c, Idle, F, A)
  BY IdleFields DEF CommandInv, Owning, Guarding, Condemning
<1>3. ASSUME s.place = "remove"
      PROVE  StateType(Call(s, "final", "create")) /\ CommandInv(c, Call(s, "final", "create"), F, A)
  <2> DEFINE x == Call(s, "final", "create")
  <2>1. /\ x \in CommandState /\ x.place = "final" /\ x.step = "create"
        /\ x.ino = NoFile /\ x.guardIno = s.guardIno
    BY <1>3, Places DEF Call, CommandState, StateType
  <2> HIDE DEF x
  <2>2. StateType(x) /\ CommandInv(c, x, F, A)
    BY <1>3, <2>1 DEF StateType, CommandInv, Owning, Guarding, GivingBack, Condemning
  <2> QED
    BY <2>2 DEF x
<1>4. ASSUME s.place = "unguard", s.won
      PROVE  StateType(Call(s, "held", "run")) /\ CommandInv(c, Call(s, "held", "run"), F, A)
  <2> DEFINE x == Call(s, "held", "run")
  <2>1. x \in CommandState /\ x.place = "held" /\ x.step = "run" /\ x.guardIno = NoFile
    BY <1>4, Places DEF Call, CommandState, StateType
  <2> HIDE DEF x
  <2>2. StateType(x) /\ CommandInv(c, x, F, A)
    BY <1>4, <2>1 DEF StateType, CommandInv, Owning, Guarding, Condemning, Creating
  <2> QED
    BY <2>2 DEF x
<1> QED
  BY <1>1, <1>2, <1>3, <1>4 DEF Removed, Removing

(* A removal goes on to its next call.                                     *)
LEMMA RemovalGoesOn ==
    ASSUME NEW s, StateType(s), s.place \in Removing, NEW next \in {"read", "unlink"},
           NEW c, NEW F, NEW A, CommandInv(c, s, F, A),
           next = "unlink" /\ s.place = "remove" => Orphaned(F, "lock", A)
    PROVE  LET x == [s EXCEPT !.step = next] IN StateType(x) /\ CommandInv(c, x, F, A)
<1> DEFINE x == [s EXCEPT !.step = next]
<1>1. /\ x \in CommandState /\ x.place = s.place /\ x.step = next
      /\ x.ino = s.ino /\ x.guardIno = s.guardIno /\ x.snap = s.snap /\ x.from = s.from /\ x.won = s.won
  BY DEF StateType, CommandState
<1> HIDE DEF x
<1>2. StateType(x)
  BY <1>1 DEF StateType, Creating, Removing
<1>3. /\ Owning(x) <=> Owning(s)
      /\ Guarding(x) <=> Guarding(s)
      /\ GivingBack(x) <=> GivingBack(s)
  BY <1>1 DEF Owning, Guarding, GivingBack, Removing
<1>4. Condemning(x) => Orphaned(F, "lock", A)
  BY <1>1 DEF Condemning, CommandInv, Removing
<1> QED
  BY <1>1, <1>2, <1>3, <1>4 DEF CommandInv, x

LEMMA MatchStep ==
    ASSUME TypeInv, LockInv, NEW c \in Command, MatchFile(c) \/ MatchNonce(c)
    PROVE  TypeInv' /\ LockInv'
<1> DEFINE s == command[c]
<1>1. /\ c \in alive /\ file' = file /\ alive' = alive
      /\ s.place \in Removing /\ s \in CommandState /\ StateType(s)
      /\ CommandInv(c, s, file, alive) /\ (s.guardIno # NoFile => Has(file, "reclaim", c))
  BY AtFacts DEF MatchFile, MatchNonce
<1>2. /\ s.place = "remove" \/ s.guardIno # NoFile => Has(file, "reclaim", c)
      /\ s.place = "unguard" => s.guardIno = NoFile /\ (s.won => Has(file, "lock", c))
  BY <1>1 DEF CommandInv, Guarding, GivingBack, Owning
<1>3. \/ command' = [command EXCEPT ![c] = Removed(s, c, FALSE)]
      \/ \E next \in {"read", "unlink"} :
            /\ command' = [command EXCEPT ![c] = [s EXCEPT !.step = next]]
            /\ next = "unlink" /\ s.place = "remove" => Orphaned(file, "lock", alive)
  <2>1. CASE MatchFile(c)
    BY <1>1, <2>1 DEF MatchFile, Set, CommandInv, Condemning
  <2>2. CASE MatchNonce(c)
    <3>1. s.place = "remove" => PathOf(s) = "lock" /\ s.snap.nonce \notin alive
      BY <1>1 DEF PathOf, CommandInv
    <3> QED
      BY <2>2, <3>1 DEF MatchNonce, Set, Orphaned, Exists, Current
  <2> QED
    BY <2>1, <2>2
<1>4. CASE command' = [command EXCEPT ![c] = Removed(s, c, FALSE)]
  BY <1>1, <1>2, <1>4, RemovedInv, QuietLockKeeps DEF StepOf
<1>5. CASE \E next \in {"read", "unlink"} :
              /\ command' = [command EXCEPT ![c] = [s EXCEPT !.step = next]]
              /\ next = "unlink" /\ s.place = "remove" => Orphaned(file, "lock", alive)
  <2>1. PICK next \in {"read", "unlink"} :
              /\ command' = [command EXCEPT ![c] = [s EXCEPT !.step = next]]
              /\ next = "unlink" /\ s.place = "remove" => Orphaned(file, "lock", alive)
    BY <1>5
  <2> DEFINE x == [s EXCEPT !.step = next]
  <2>2. StateType(x) /\ CommandInv(c, x, file, alive)
    BY <1>1, <2>1, RemovalGoesOn
  <2> HIDE DEF x
  <2> QED
    BY <1>1, <2>1, <2>2, QuietLockKeeps DEF StepOf, x
<1> QED
  BY <1>3, <1>4, <1>5

LEMMA ReleaseStep ==
    ASSUME TypeInv, LockInv, NEW c \in Command, Release(c)
    PROVE  TypeInv' /\ LockInv'
<1> DEFINE s == command[c]
           n == [ino |-> s.ino, nonce |-> c, old |-> FALSE]
           x == [Idle EXCEPT !.place = "release", !.step = "stat", !.snap = n]
<1>1. /\ c \in alive /\ file' = file /\ alive' = alive /\ command' = [command EXCEPT ![c] = x]
      /\ s.place = "held" /\ s \in CommandState /\ CommandInv(c, s, file, alive)
  BY AtFacts DEF Release, Set
<1>2. n \in Snapshot
  BY <1>1 DEF Snapshot, CommandState
<1> HIDE DEF n
<1>3. /\ x \in CommandState /\ x.place = "release" /\ x.step = "stat"
      /\ x.ino = NoFile /\ x.guardIno = NoFile
  BY <1>2, IdleFields, Places DEF StateType, CommandState
<1> HIDE DEF x
<1>4. StateType(x) /\ CommandInv(c, x, file, alive)
  BY <1>1, <1>3 DEF StateType, CommandInv, Owning, Guarding, Condemning, Creating
<1> QED
  BY <1>1, <1>4, QuietLockKeeps DEF StepOf
-----------------------------------------------------------------------------
(* Calls that change a file.                                               *)

\* The files there are stay, and stay whose they are.
Grows(F, G) == \A path \in Path : F[path] # NoFile => G[path] # NoFile /\ G[path].owner = F[path].owner

LEMMA GrowsKeeps ==
    ASSUME NEW F, NEW G, Grows(F, G), NEW c, NEW s, NEW A, CommandInv(c, s, F, A)
    PROVE  CommandInv(c, s, G, A)
BY DEF Grows, CommandInv, Has, Orphaned, Path

(* One file of the two.                                                    *)
LEMMA FileFields ==
    ASSUME NEW F \in [Path -> File \cup {NoFile}], NEW p \in Path, NEW f \in File \cup {NoFile},
           NEW G, G = [F EXCEPT ![p] = f]
    PROVE  /\ G \in [Path -> File \cup {NoFile}] /\ G[p] = f
           /\ \A q \in Path : q # p => G[q] = F[q]
OBVIOUS

LEMMA PathOfType == \A s : PathOf(s) \in Path
BY DEF PathOf, Path

LEMMA CreateLockStep ==
    ASSUME TypeInv, LockInv, NEW c \in Command, CreateLock(c)
    PROVE  TypeInv' /\ LockInv'
<1> DEFINE s == command[c]
           p == PathOf(s)
           f(i) == [owner |-> c, ino |-> i, written |-> FALSE, old |-> FALSE]
           g(i) == [s EXCEPT !.step = "write", !.guardIno = i]
           h(i) == [s EXCEPT !.step = "write", !.ino = i]
           x(i) == IF s.place = "guard" THEN g(i) ELSE h(i)
<1>1. /\ c \in alive /\ alive' = alive /\ s.place \in Creating /\ s.step = "create"
      /\ s \in CommandState /\ StateType(s) /\ CommandInv(c, s, file, alive)
      /\ p \in Path /\ file[p] = NoFile
  BY AtFacts, PathOfType DEF CreateLock, Exists, Current
<1>2. PICK i \in Inode : file' = [file EXCEPT ![p] = f(i)] /\ command' = [command EXCEPT ![c] = x(i)]
  BY DEF CreateLock, Set
<1>3. f(i) \in File /\ f(i).owner = c /\ ~f(i).old
  BY DEF File
<1>4. f(i) # NoFile
  BY <1>3, FileAssumption
<1> HIDE DEF f
<1>5. /\ file' \in [Path -> File \cup {NoFile}] /\ file'[p] = f(i)
      /\ \A q \in Path : q # p => file'[q] = file[q]
  BY <1>1, <1>2, <1>3, FileFields DEF TypeInv
<1>6. Grows(file, file')
  BY <1>1, <1>5 DEF Grows
<1>7. AgeInv(file', alive)
  BY <1>3, <1>5 DEF AgeInv, LockInv
<1>8. Has(file', p, c)
  BY <1>3, <1>4, <1>5 DEF Has
<1>9. CommandInv(c, s, file', alive)
  BY <1>1, <1>6, GrowsKeeps
<1>10. CASE s.place = "guard"
  <2>1. /\ g(i) \in CommandState /\ g(i).place = "guard" /\ g(i).step = "write"
        /\ g(i).ino = NoFile /\ g(i).guardIno = i
    BY <1>1, <1>10 DEF CommandState, StateType
  <2>2. p = "reclaim"
    BY <1>10 DEF PathOf
  <2> HIDE DEF g
  <2>3. StateType(g(i)) /\ CommandInv(c, g(i), file', alive)
    BY <1>8, <2>1, <2>2 DEF StateType, CommandInv, Owning, Guarding, GivingBack, Condemning
  <2>4. StepOf(c, g(i))
    BY <1>1, <1>2, <1>10, <2>3 DEF StepOf
  <2> HIDE DEF p, x, s
  <2> QED
    BY <1>1, <1>5, <1>6, <1>7, <2>4, GrowsKeeps, StepKeeps
<1>11. CASE s.place # "guard"
  <2>1. /\ h(i) \in CommandState /\ h(i).place = s.place /\ h(i).step = "write"
        /\ h(i).guardIno = s.guardIno
    BY <1>1 DEF CommandState
  <2>2. p = "lock"
    BY <1>1, <1>11 DEF PathOf, Creating
  <2> HIDE DEF h
  <2>3. StateType(h(i)) /\ (Guarding(h(i)) <=> Guarding(s)) /\ ~GivingBack(h(i))
    BY <1>1, <1>11, <2>1 DEF StateType, Guarding, GivingBack, Creating
  <2>4. CommandInv(c, h(i), file', alive)
    BY <1>1, <1>8, <1>9, <2>1, <2>2, <2>3 DEF CommandInv, Condemning, Creating
  <2>5. StepOf(c, h(i))
    BY <1>1, <1>2, <1>11, <2>3, <2>4 DEF StepOf
  <2> HIDE DEF p, x, s
  <2> QED
    BY <1>1, <1>5, <1>6, <1>7, <2>5, GrowsKeeps, StepKeeps
<1> QED
  BY <1>10, <1>11

(* The record is written, wherever the path leads by now.                  *)
LEMMA WriteStep ==
    ASSUME TypeInv, LockInv, NEW c \in Command, Write(c)
    PROVE  TypeInv' /\ LockInv'
<1> DEFINE s == command[c]
           p == PathOf(s)
           x == CASE s.place = "guard" -> Call(s, "recheck", "stat")
                  [] s.place = "final" -> Unguard(s, c, TRUE)
                  [] OTHER -> Call([s EXCEPT !.won = TRUE], "held", "run")
<1>1. /\ c \in alive /\ alive' = alive /\ s.place \in Creating /\ s.step = "write"
      /\ s \in CommandState /\ StateType(s) /\ CommandInv(c, s, file, alive)
      /\ p \in Path /\ command' = [command EXCEPT ![c] = x]
  BY AtFacts, PathOfType DEF Write, Set
<1>2. /\ file' \in [Path -> File \cup {NoFile}] /\ Grows(file, file') /\ AgeInv(file', alive)
  <2>1. CASE file' = file
    BY <2>1 DEF TypeInv, LockInv, Grows
  <2>2. CASE Exists(c) /\ file' = [file EXCEPT ![p].written = TRUE, ![p].old = FALSE]
    <3> DEFINE f == [file[p] EXCEPT !.written = TRUE, !.old = FALSE]
    <3>1. file[p] \in File
      BY <1>1, <2>2 DEF Exists, Current, TypeInv
    <3>2. f \in File /\ f.owner = file[p].owner /\ ~f.old
      BY <3>1 DEF File
    <3>3. f # NoFile
      BY <3>2, FileAssumption
    <3>4. file' = [file EXCEPT ![p] = f]
      BY <1>1, <2>2, <3>1 DEF TypeInv, File
    <3> HIDE DEF f
    <3>5. /\ file' \in [Path -> File \cup {NoFile}] /\ file'[p] = f
          /\ \A q \in Path : q # p => file'[q] = file[q]
      BY <1>1, <3>2, <3>4, FileFields DEF TypeInv
    <3> QED
      BY <3>2, <3>3, <3>5 DEF Grows, AgeInv, LockInv
  <2> QED
    BY <2>1, <2>2 DEF Write
<1>3. CommandInv(c, s, file', alive)
  BY <1>1, <1>2, GrowsKeeps
<1>4. StateType(x) /\ CommandInv(c, x, file', alive)
  <2>1. CASE s.place = "guard"
    <3> DEFINE y == Call(s, "recheck", "stat")
    <3>1. /\ y \in CommandState /\ y.place = "recheck" /\ y.step = "stat"
          /\ y.ino = NoFile /\ y.guardIno = s.guardIno
      BY <1>1, <2>1, Places DEF Call, CommandState, StateType
    <3> HIDE DEF y
    <3>2. StateType(y) /\ Guarding(s)
      BY <1>1, <2>1, <3>1 DEF StateType, Guarding, Creating
    <3>3. CommandInv(c, y, file', alive)
      BY <1>3, <3>1, <3>2 DEF CommandInv, Owning, Guarding, GivingBack, Condemning
    <3> QED
      BY <2>1, <3>2, <3>3 DEF y
  <2>2. CASE s.place = "final"
    <3> DEFINE y == Unguard(s, c, TRUE)
    <3>1. /\ y \in CommandState /\ y.place = "unguard" /\ y.step = "stat" /\ y.guardIno = NoFile
      BY <1>1, UnguardFields
    <3> HIDE DEF y
    <3>2. StateType(y) /\ Guarding(s) /\ Owning(s)
      BY <1>1, <2>2, <3>1 DEF StateType, Guarding, Owning, Creating
    <3>3. CommandInv(c, y, file', alive)
      BY <1>3, <3>1, <3>2 DEF CommandInv, Condemning
    <3> QED
      BY <2>2, <3>2, <3>3 DEF y
  <2>3. CASE s.place \in {"first", "again"}
    <3> DEFINE z == [s EXCEPT !.won = TRUE]
               y == Call(z, "held", "run")
    <3>1. z \in CommandState /\ z.guardIno = s.guardIno
      BY <1>1 DEF CommandState
    <3> HIDE DEF z
    <3>2. y \in CommandState /\ y.place = "held" /\ y.step = "run" /\ y.guardIno = s.guardIno
      BY <3>1, Places DEF Call, CommandState
    <3> HIDE DEF y
    <3>3. StateType(y) /\ ~Guarding(s) /\ Owning(s)
      BY <1>1, <2>3, <3>2 DEF StateType, Guarding, Owning, Creating
    <3>4. CommandInv(c, y, file', alive)
      BY <1>3, <3>2, <3>3 DEF CommandInv, Guarding, Condemning
    <3> QED
      BY <2>3, <3>3, <3>4 DEF y, z
  <2> QED
    BY <1>1, <2>1, <2>2, <2>3 DEF Creating
<1> HIDE DEF x
<1> QED
  BY <1>1, <1>2, <1>4, GrowsKeeps, StepKeeps DEF StepOf

(* A file is removed by the command that it is of, or by the reclaimer,    *)
(* when its process is gone: in either case nobody else relies on it.      *)
LEMMA UnlinkStep ==
    ASSUME TypeInv, LockInv, NEW c \in Command, Unlink(c)
    PROVE  TypeInv' /\ LockInv'
<1> DEFINE s == command[c]
           p == PathOf(s)
           x == Removed(s, c, TRUE)
<1>1. /\ c \in alive /\ alive' = alive /\ s.place \in Removing /\ s.step = "unlink"
      /\ s \in CommandState /\ StateType(s) /\ CommandInv(c, s, file, alive)
      /\ p \in Path /\ file' = [file EXCEPT ![p] = NoFile] /\ command' = [command EXCEPT ![c] = x]
  BY AtFacts, PathOfType DEF Unlink, Set
<1>2. /\ file' \in [Path -> File \cup {NoFile}] /\ file'[p] = NoFile
      /\ \A q \in Path : q # p => file'[q] = file[q]
  BY <1>1, FileFields DEF TypeInv
<1>3. AgeInv(file', alive)
  BY <1>2 DEF AgeInv, LockInv
<1>4. (p = "reclaim" <=> GivingBack(s)) /\ p \in {"lock", "reclaim"}
  BY <1>1 DEF PathOf, GivingBack, Removing
<1>5. /\ s.place = "remove" \/ s.guardIno # NoFile => Has(file', "reclaim", c)
      /\ s.place = "unguard" => s.guardIno = NoFile /\ (s.won => Has(file', "lock", c))
  <2>1. s.place = "remove" \/ s.guardIno # NoFile => Guarding(s) /\ ~GivingBack(s)
    BY <1>1 DEF CommandInv, Guarding, GivingBack
  <2>2. s.place = "unguard" => GivingBack(s) /\ (s.won => Owning(s))
    BY DEF GivingBack, Owning
  <2> QED
    BY <1>1, <1>2, <1>4, <2>1, <2>2 DEF CommandInv, Has, Path
<1>6. StateType(x) /\ CommandInv(c, x, file', alive)
  BY <1>1, <1>5, RemovedInv
<1>7. ASSUME NEW d \in alive \ {c}, CommandInv(d, command[d], file, alive)
      PROVE  CommandInv(d, command[d], file', alive)
  <2>1. CASE p = "reclaim"
    <3>1. Has(file, "reclaim", c)
      BY <1>1, <1>4, <2>1 DEF CommandInv, GivingBack, Guarding
    <3>2. ~Guarding(command[d])
      BY <1>7, <3>1 DEF CommandInv, Has
    <3> QED
      BY <1>2, <1>7, <2>1, <3>2 DEF CommandInv, Has, Orphaned, Path
  <2>2. CASE p = "lock"
    <3>1. Has(file, "lock", c) \/ (Orphaned(file, "lock", alive) /\ Has(file, "reclaim", c))
      BY <1>1, <1>4, <2>2 DEF CommandInv, GivingBack, Owning, Guarding, Condemning, Removing
    <3>2. ~Owning(command[d])
      BY <1>7, <3>1 DEF CommandInv, Has, Orphaned
    <3>3. ~Condemning(command[d])
      <4>1. Condemning(command[d]) => Guarding(command[d])
        BY DEF Condemning, Guarding
      <4> QED
        BY <1>1, <1>7, <3>1, <4>1 DEF CommandInv, Has, Orphaned
    <3> QED
      BY <1>2, <1>7, <2>2, <3>2, <3>3 DEF CommandInv, Has, Path
  <2> QED
    BY <1>4, <2>1, <2>2
<1> HIDE DEF x
<1> QED
  BY <1>1, <1>2, <1>3, <1>6, <1>7, StepKeeps DEF StepOf
-----------------------------------------------------------------------------
(* Time, crashes, and all steps together.                                  *)

(* Only the file of a process that is gone grows old.                      *)
LEMMA AgeStep ==
    ASSUME ~SlowWriter, TypeInv, LockInv, NEW path \in Path, Age(path)
    PROVE  TypeInv' /\ LockInv'
<1> DEFINE f == [file[path] EXCEPT !.old = TRUE]
<1>1. /\ file[path] # NoFile /\ file[path].owner \notin alive
      /\ file' = [file EXCEPT ![path].old = TRUE] /\ command' = command /\ alive' = alive
  BY DEF Age
<1>2. file[path] \in File
  BY <1>1 DEF TypeInv
<1>3. f \in File /\ f.owner = file[path].owner
  BY <1>2 DEF File
<1>4. f # NoFile
  BY <1>3, FileAssumption
<1>5. file' = [file EXCEPT ![path] = f]
  BY <1>1, <1>2 DEF TypeInv, File
<1> HIDE DEF f
<1>6. /\ file' \in [Path -> File \cup {NoFile}] /\ file'[path] = f
      /\ \A q \in Path : q # path => file'[q] = file[q]
  BY <1>3, <1>5, FileFields DEF TypeInv
<1>7. Grows(file, file') /\ AgeInv(file', alive)
  BY <1>1, <1>3, <1>4, <1>6 DEF Grows, AgeInv, LockInv
<1>8. TypeInv'
  BY <1>1, <1>6 DEF TypeInv
<1> QED
  BY <1>1, <1>7, <1>8, GrowsKeeps DEF LockInv

(* A crash makes nobody the owner of anything, and orphans stay orphans.   *)
LEMMA CrashStep ==
    ASSUME TypeInv, LockInv, NEW c \in Command, Crash(c)
    PROVE  TypeInv' /\ LockInv'
<1>1. /\ file' = file /\ alive' = alive \ {c} /\ command' = [command EXCEPT ![c] = Idle]
  BY DEF Crash, Set
<1>2. /\ command'[c] = Idle /\ command' \in [Command -> CommandState]
      /\ \A d \in Command \ {c} : command'[d] = command[d]
  BY <1>1, IdleFields DEF TypeInv, StateType
<1>3. TypeInv'
  BY <1>1, <1>2, IdleFields DEF TypeInv
<1>4. AgeInv(file, alive')
  BY <1>1 DEF AgeInv, LockInv
<1>5. ASSUME NEW d \in alive'
      PROVE  CommandInv(d, command'[d], file, alive')
  <2>1. command'[d] = command[d] /\ CommandInv(d, command[d], file, alive)
    BY <1>1, <1>2 DEF TypeInv, LockInv
  <2> QED
    BY <1>1, <2>1 DEF CommandInv, Orphaned
<1> QED
  BY <1>1, <1>3, <1>4, <1>5 DEF LockInv

LEMMA LockInitInv ==
    ASSUME LockInit
    PROVE  TypeInv /\ LockInv
<1>1. \A c \in Command : StateType(Idle) /\ CommandInv(c, Idle, file, alive)
  BY IdleFields DEF CommandInv, Owning, Guarding, Condemning
<1>2. TypeInv
  BY <1>1 DEF LockInit, TypeInv, StateType
<1>3. AgeInv(file, alive)
  BY DEF LockInit, AgeInv
<1> QED
  BY <1>1, <1>2, <1>3 DEF LockInit, LockInv

LEMMA LockNextStep ==
    ASSUME ~SlowWriter, TypeInv, LockInv, [LockNext]_lockVars
    PROVE  TypeInv' /\ LockInv'
<1>1. CASE UNCHANGED lockVars
  BY <1>1 DEF lockVars, TypeInv, LockInv
<1>2. ASSUME NEW c \in Command, StartCommand(c) \/ CommandStep(c) \/ WriteFails(c) \/ Crash(c)
      PROVE  TypeInv' /\ LockInv'
  BY <1>2, BeginLockStep, CreateLockStep, CreateFailsStep, WriteStep, StatStep, ReadStep, MatchStep,
     UnlinkStep, ReleaseStep, WriteFailsStep, CrashStep DEF CommandStep
<1>3. ASSUME NEW path \in Path, Age(path)
      PROVE  TypeInv' /\ LockInv'
  BY <1>3, AgeStep
<1> QED
  BY <1>1, <1>2, <1>3 DEF LockNext
-----------------------------------------------------------------------------
(* The theorems.  Their hypothesis is that a process which exists writes   *)
(* the record of its file within the 30 s that staleStateLock allows for   *)
(* it: after that its lock counts as one that was left behind.             *)

(* LockTypeOK: files and commands stay in their types.                     *)
THEOREM LockTypeCorrect ==
    ASSUME ~SlowWriter
    PROVE  LockSpec => []LockTypeOK
<1>1. TypeInv => LockTypeOK
  BY DEF TypeInv, LockTypeOK, StateType
<1> QED
  BY <1>1, LockInitInv, LockNextStep, PTL DEF LockSpec

(* MutualExclusion: two commands never hold the lock of the state          *)
(* directory at a time, whatever crashed before, however many reclaim the  *)
(* lock that it left, and whatever writes fail (withStateLock).            *)
THEOREM OneHolder ==
    ASSUME ~SlowWriter
    PROVE  LockSpec => []MutualExclusion
<1>1. TypeInv /\ LockInv => MutualExclusion
  BY DEF LockInv, MutualExclusion, Holding, CommandInv, Owning, Has
<1> QED
  BY <1>1, LockInitInv, LockNextStep, PTL DEF LockSpec

(* The reclaimer's file is one command's at a time as well: what it goes   *)
(* by, no other command removes (staleStateLock and                        *)
(* removeStateLockIfMatches under the reclaimer's lock).                   *)
OneReclaimer ==
    \A c, d \in alive : Guarding(command[c]) /\ Guarding(command[d]) => c = d

THEOREM ReclaimersTakeTurns ==
    ASSUME ~SlowWriter
    PROVE  LockSpec => []OneReclaimer
<1>1. TypeInv /\ LockInv => OneReclaimer
  BY DEF LockInv, OneReclaimer, CommandInv, Has
<1> QED
  BY <1>1, LockInitInv, LockNextStep, PTL DEF LockSpec

-----------------------------------------------------------------------------
(* The transactions                                                        *)

Pending == journal # None
Prepared == Pending /\ journal.phase = "prepared"
Committed == Pending /\ journal.phase = "state-committed"

Target(id) == journal.config[id]

\* A directory as the transaction leaves it.
Placed(id) == active[id] = [info |-> Target(id), deleted |-> FALSE]

(***************************************************************************)
(* A journal says the same of a computer in each of its parts.             *)
(***************************************************************************)
JournalInv ==
    Pending =>
        \A id \in Id :
            /\ journal.secrets[id] # None <=> Target(id) # None
            /\ journal.source[id] # None <=> Target(id) # None
            /\ journal.trash[id] # None => Target(id) = None
            /\ IF Target(id) = None THEN journal.work[id] \in {"none", "remove"}
                                    ELSE journal.work[id] # "remove"

(***************************************************************************)
(* Each directory is where the journal needs it, in whatever state it was  *)
(* interrupted.                                                            *)
(***************************************************************************)
Needed(id) ==
    LET source == journal.source[id] IN
    /\ source = "active" => active[id] # None
    /\ source \in {"create", "staged"} => trash[id] = None
    /\ source = "trash" => /\ active[id] # None \/ trash[id] # None
                           /\ trash[id] # None => trash[id].info = Target(id)
    /\ journal.trash[id] # None =>
          /\ active[id] # None \/ trash[id] # None
          /\ trash[id] # None => trash[id].info = journal.trash[id]
    /\ Target(id) = None /\ journal.trash[id] = None => active[id] = None

DirectoryInv ==
    /\ \A id \in Id :
          /\ active[id] = None \/ trash[id] = None
          /\ trash[id] # None => trash[id].deleted /\ trash[id].info # None
          /\ stage[id] # "none" => Pending /\ journal.source[id] = "staged" /\ active[id] = None
    /\ Pending => \A id \in Id : Needed(id)

(***************************************************************************)
(* How far the command is says what is done.                               *)
(***************************************************************************)
Writing == {"active", "config", "secrets", "render", "trash", "commit"}

StepInv ==
    /\ step \in Writing => Prepared /\ ~Incomplete
    /\ step \in {"staging", "undo"} => Prepared /\ Incomplete
    /\ step = "recover" => Pending
    /\ step = "ready" => ~Pending \/ (Committed /\ ~run)
    /\ step = "runtime" => Committed

DirectoriesDone ==
    /\ step = "active" => /\ todo \subseteq Ids(journal.config)
                          /\ \A id \in Ids(journal.config) \ todo : Placed(id)
    /\ step \in Writing \ {"active"} => \A id \in Ids(journal.config) : Placed(id)
    /\ step = "trash" => /\ todo \subseteq Ids(journal.trash)
                         /\ \A id \in Ids(journal.trash) \ todo : active[id] = None
    /\ step = "commit" => \A id \in Ids(journal.trash) : active[id] = None

StateDone ==
    /\ step \in {"secrets", "render", "trash", "commit"} => config = journal.config
    /\ step \in {"render", "trash", "commit"} => secrets = journal.secrets
    /\ step \in {"trash", "commit"} => doc = Rendered(journal.config)

(***************************************************************************)
(* After the commit only containers are left to be changed, and thresholds *)
(* by storage set.                                                         *)
(***************************************************************************)
CommittedInv ==
    Committed =>
        /\ secrets = journal.secrets /\ doc = Rendered(journal.config)
        /\ \A id \in Id :
              IF Target(id) = None THEN config[id] = None /\ active[id] = None
              ELSE /\ config[id] \in {Target(id), [Target(id) EXCEPT !.warn = TRUE]}
                   /\ Placed(id)

\* A container that agrees with the target.
Agrees(id) == container[id] # None => Target(id) # None /\ container[id].name = Target(id).name

ContainerInv ==
    /\ Pending => \A id \in Id : journal.work[id] \in {"none", "images"} => Agrees(id)
    /\ step = "runtime" => /\ todo \subseteq WorkIds
                           /\ \A id \in WorkIds \ todo : Agrees(id)

(***************************************************************************)
(* What the audit compares, but for the staging directories.               *)
(***************************************************************************)
Consistent ==
    /\ Ids(secrets) = Ids(config) /\ Ids(active) = Ids(config)
    /\ \A id \in Ids(active) :
          /\ ~active[id].deleted
          /\ active[id].info \in {config[id], [config[id] EXCEPT !.warn = FALSE]}
    /\ \A id \in Ids(trash) : config[id] = None
    /\ doc = Rendered(config)
    /\ \A id \in Ids(container) : config[id] # None /\ container[id].name = config[id].name

\* A backup restore whose directory is not complete has changed nothing.
Untouched ==
    \A id \in Id :
        Prepared /\ Incomplete /\ journal.source[id] = "staged" =>
            /\ config[id] = None /\ trash[id] = None
            /\ journal.config = With(config, id, Target(id))
            /\ journal.secrets = With(secrets, id, ops)
            /\ journal.trash = Empty
            /\ NameFree(Target(id).name, id)
            /\ \A d \in Id : secrets[d] # ops /\ (journal.source[d] = "staged" => d = id)

AuditInv ==
    /\ ~Pending => Consistent
    /\ Prepared /\ Incomplete => Consistent
    /\ Untouched

(***************************************************************************)
(* Tokens are those of transactions that were begun.                       *)
(***************************************************************************)
TokenInv ==
    /\ \A id \in Id : secrets[id] \in 1..ops \cup {None}
    /\ Pending => \A id \in Id : journal.secrets[id] \in 1..ops \cup {None}
    /\ Prepared => \A id \in Id : journal.secrets[id] \in {secrets[id], None, ops}

IInv ==
    /\ TypeOK /\ JournalInv /\ DirectoryInv /\ StepInv /\ DirectoriesDone /\ StateDone
    /\ CommittedInv /\ ContainerInv /\ AuditInv /\ TokenInv
-----------------------------------------------------------------------------
(* Steps that only move the command along leave every part of the          *)
(* invariant that is not about the command as it is.                       *)

LEMMA QuietKeeps ==
    ASSUME IInv, UNCHANGED <<files, doc, container, journal, ops>>
    PROVE  /\ JournalInv' /\ DirectoryInv' /\ CommittedInv' /\ AuditInv' /\ TokenInv'
           /\ \A id \in Id : Agrees(id)' <=> Agrees(id)
           /\ \A id \in Id : Placed(id)' <=> Placed(id)
           /\ Pending' <=> Pending
           /\ Prepared' <=> Prepared
           /\ Committed' <=> Committed
           /\ Incomplete' <=> Incomplete
           /\ WorkIds' = WorkIds
<1>1. /\ config' = config /\ secrets' = secrets /\ active' = active /\ trash' = trash
      /\ stage' = stage /\ doc' = doc /\ container' = container /\ journal' = journal
      /\ ops' = ops
  BY DEF files
<1>2. JournalInv'
  BY <1>1 DEF IInv, JournalInv, Pending, Target
<1>3. DirectoryInv'
  BY <1>1 DEF IInv, DirectoryInv, Pending, Needed, Target
<1>4. CommittedInv'
  BY <1>1 DEF IInv, CommittedInv, Committed, Pending, Target, Placed, Rendered
<1>5. AuditInv'
  <2>1. Consistent' <=> Consistent
    BY <1>1 DEF Consistent, Ids, Rendered
  <2>2. Untouched' <=> Untouched
    BY <1>1 DEF Untouched, Prepared, Pending, Incomplete, Target, NameFree, Ids, With
  <2>3. /\ Pending' <=> Pending
        /\ Prepared' <=> Prepared
        /\ Incomplete' <=> Incomplete
    BY <1>1 DEF Pending, Prepared, Incomplete
  <2>q. QED
    BY <2>1, <2>2, <2>3 DEF IInv, AuditInv
<1>6. TokenInv'
  BY <1>1 DEF IInv, TokenInv, Prepared, Pending
<1>7. /\ \A id \in Id : Agrees(id)' <=> Agrees(id)
      /\ \A id \in Id : Placed(id)' <=> Placed(id)
      /\ Pending' <=> Pending
      /\ Prepared' <=> Prepared
      /\ Committed' <=> Committed
      /\ Incomplete' <=> Incomplete
      /\ WorkIds' = WorkIds
  BY <1>1 DEF Agrees, Placed, Target, Pending, Prepared, Committed, Incomplete, WorkIds
<1>q. QED
  BY <1>2, <1>3, <1>4, <1>5, <1>6, <1>7

LEMMA QuietStep ==
    ASSUME IInv, UNCHANGED <<files, doc, container, journal, ops>>,
           step' \in Step, todo' \subseteq Id, run' \in BOOLEAN,
           StepInv', DirectoriesDone', StateDone',
           step' = "runtime" =>
              /\ todo' \subseteq WorkIds
              /\ \A id \in WorkIds \ todo' : Agrees(id)
    PROVE  IInv'
<1>1. TypeOK'
  BY DEF IInv, TypeOK, files, StepInv, Step, Writing, Prepared, Committed, Pending
<1>2. ContainerInv'
  <2>1. journal' = journal /\ container' = container
    OBVIOUS
  <2>2. ContainerInv
    BY DEF IInv
  <2>q. QED
    BY <2>1, <2>2 DEF ContainerInv, Pending, Agrees, Target, WorkIds
<1>q. QED
  BY <1>1, <1>2, QuietKeeps DEF IInv

LEMMA BeginStep ==
    ASSUME IInv, Begin
    PROVE  IInv'
<1>1. /\ UNCHANGED <<files, doc, container, journal, ops>> /\ UNCHANGED todo
      /\ step' \in {"ready", "recover"} /\ run' \in BOOLEAN
      /\ step' = "ready" <=> ~Pending
  BY DEF Begin, Pending
<1>2. StepInv'
  BY <1>1, QuietKeeps DEF StepInv, Writing
<1>3. DirectoriesDone' /\ StateDone'
  BY <1>1 DEF DirectoriesDone, StateDone, Writing
<1>4. step' \in Step /\ todo' \subseteq Id
  BY <1>1 DEF IInv, TypeOK, Step
<1>q. QED
  BY <1>1, <1>2, <1>3, <1>4, QuietStep

LEMMA EndStep ==
    ASSUME IInv, End \/ Interrupt
    PROVE  IInv'
<1>1. /\ UNCHANGED <<files, doc, container, journal, ops>>
      /\ step' = "idle" /\ run' \in BOOLEAN /\ todo' \subseteq Id
  BY DEF End, Interrupt, IInv, TypeOK
<1>2. StepInv' /\ DirectoriesDone' /\ StateDone'
  BY <1>1 DEF StepInv, DirectoriesDone, StateDone, Writing
<1>q. QED
  BY <1>1, <1>2, QuietStep DEF Step

LEMMA StagingFailsStep ==
    ASSUME IInv, StagingFails
    PROVE  IInv'
<1>1. /\ UNCHANGED <<files, doc, container, journal, ops>> /\ UNCHANGED <<todo, run>>
      /\ step = "staging" /\ step' = "undo"
  BY DEF StagingFails
<1>2. StepInv'
  BY <1>1, QuietKeeps DEF IInv, StepInv, Writing
<1>3. DirectoriesDone' /\ StateDone'
  BY <1>1 DEF DirectoriesDone, StateDone, Writing
<1>4. step' \in Step /\ todo' \subseteq Id /\ run' \in BOOLEAN
  BY <1>1 DEF IInv, TypeOK, Step
<1>q. QED
  BY <1>1, <1>2, <1>3, <1>4, QuietStep

\* The end of a recovery without containers, or the first step of one with them.
LEMMA ToRuntimeMoves ==
    ASSUME IInv, ToRuntime
    PROVE  /\ todo' \subseteq WorkIds
           /\ \/ step' = "ready" /\ ~run
              \/ step' = "runtime" /\ todo' = WorkIds
BY DEF ToRuntime

LEMMA RecoverStep ==
    ASSUME IInv, Recover
    PROVE  IInv'
<1>1. /\ UNCHANGED <<files, doc, container, journal, ops>> /\ UNCHANGED run
      /\ step = "recover" /\ Pending
  BY DEF Recover, IInv, StepInv
<1>2. journal \in Transaction
  BY <1>1 DEF IInv, TypeOK, Pending
<1>3. journal.phase \in {"prepared", "state-committed"}
  BY <1>2 DEF Transaction
<1>4. CASE Incomplete
  <2>1. step' = "undo" /\ UNCHANGED todo /\ Prepared
    BY <1>1, <1>4 DEF Recover, Incomplete, Prepared
  <2>2. StepInv' /\ DirectoriesDone' /\ StateDone'
    BY <2>1, <1>1, <1>4, QuietKeeps DEF StepInv, DirectoriesDone, StateDone, Writing
  <2>3. step' \in Step /\ todo' \subseteq Id /\ run' \in BOOLEAN
    BY <1>1, <2>1 DEF IInv, TypeOK, Step
  <2>q. QED
    BY <1>1, <2>1, <2>2, <2>3, QuietStep
<1>5. CASE ~Incomplete /\ journal.phase = "prepared"
  <2>1. step' = "active" /\ todo' = Ids(journal.config) /\ Prepared
    BY <1>1, <1>5 DEF Recover, Prepared
  <2>2. StepInv'
    BY <2>1, <1>1, <1>5, QuietKeeps DEF StepInv, Writing
  <2>3. DirectoriesDone' /\ StateDone'
    BY <2>1, <1>1 DEF DirectoriesDone, StateDone, Writing
  <2>4. step' \in Step /\ todo' \subseteq Id /\ run' \in BOOLEAN
    BY <1>1, <2>1 DEF IInv, TypeOK, Step, Ids
  <2>q. QED
    BY <1>1, <2>1, <2>2, <2>3, <2>4, QuietStep
<1>6. CASE journal.phase = "state-committed"
  <2>1. ToRuntime /\ Committed
    BY <1>1, <1>6 DEF Recover, Committed, Incomplete
  <2>2. StepInv'
    BY <2>1, <1>1, ToRuntimeMoves, QuietKeeps DEF StepInv, Writing
  <2>3. DirectoriesDone' /\ StateDone'
    BY <2>1, ToRuntimeMoves DEF DirectoriesDone, StateDone, Writing
  <2>4. step' \in Step /\ todo' \subseteq Id /\ run' \in BOOLEAN
    BY <1>1, <2>1, ToRuntimeMoves DEF IInv, TypeOK, Step, WorkIds
  <2>q. QED
    BY <1>1, <2>1, <2>2, <2>3, <2>4, QuietStep, ToRuntimeMoves
<1>q. QED
  BY <1>3, <1>4, <1>5, <1>6

LEMMA ActiveReadyStep ==
    ASSUME IInv, ActiveReady
    PROVE  IInv'
<1>1. /\ UNCHANGED <<files, doc, container, journal, ops>> /\ UNCHANGED <<todo, run>>
      /\ step = "active" /\ todo = {} /\ step' = "config"
  BY DEF ActiveReady, Turn
<1>2. StepInv'
  BY <1>1, QuietKeeps DEF IInv, StepInv, Writing
<1>3. DirectoriesDone'
  <2>1. \A id \in Ids(journal.config) : Placed(id)
    BY <1>1 DEF IInv, DirectoriesDone
  <2>2. Ids(journal.config)' = Ids(journal.config)
    BY <1>1
  <2>q. QED
    BY <1>1, <2>1, <2>2, QuietKeeps DEF DirectoriesDone, Writing, Ids
<1>4. StateDone'
  BY <1>1 DEF StateDone
<1>5. step' \in Step /\ todo' \subseteq Id /\ run' \in BOOLEAN
  BY <1>1 DEF IInv, TypeOK, Step
<1>q. QED
  BY <1>1, <1>2, <1>3, <1>4, <1>5, QuietStep

LEMMA TrashReadyStep ==
    ASSUME IInv, TrashReady
    PROVE  IInv'
<1>1. /\ UNCHANGED <<files, doc, container, journal, ops>> /\ UNCHANGED <<todo, run>>
      /\ step = "trash" /\ todo = {} /\ step' = "commit"
  BY DEF TrashReady, Turn
<1>2. StepInv'
  BY <1>1, QuietKeeps DEF IInv, StepInv, Writing
<1>3. DirectoriesDone'
  <2>1. /\ \A id \in Ids(journal.config) : Placed(id)
        /\ \A id \in Ids(journal.trash) : active[id] = None
    BY <1>1 DEF IInv, DirectoriesDone, Writing
  <2>2. active' = active /\ journal' = journal
    BY <1>1 DEF files
  <2>q. QED
    BY <1>1, <2>1, <2>2, QuietKeeps DEF DirectoriesDone, Writing, Ids
<1>4. StateDone'
  <2>1. UNCHANGED <<config, secrets, doc, journal>>
    BY <1>1 DEF files
  <2>q. QED
    BY <1>1, <2>1 DEF IInv, StateDone, Rendered
<1>5. step' \in Step /\ todo' \subseteq Id /\ run' \in BOOLEAN
  BY <1>1 DEF IInv, TypeOK, Step
<1>q. QED
  BY <1>1, <1>2, <1>3, <1>4, <1>5, QuietStep

-----------------------------------------------------------------------------
(* Steps that change containers.                                           *)

LEMMA ContainersKeep ==
    ASSUME IInv, UNCHANGED <<files, doc, journal, ops>>, UNCHANGED <<step, run>>,
           todo' \subseteq Id, todo' = todo \/ step = "runtime",
           container' \in [Id -> Container \cup {None}],
           ~Pending \/ Incomplete =>
               \A id \in Id : container'[id] # None =>
                   container[id] # None /\ container'[id].name = container[id].name,
           ContainerInv'
    PROVE  IInv'
<1>1. /\ config' = config /\ secrets' = secrets /\ active' = active /\ trash' = trash
      /\ stage' = stage /\ doc' = doc /\ journal' = journal /\ ops' = ops
      /\ step' = step /\ run' = run
  BY DEF files
<1>2. TypeOK'
  BY <1>1 DEF IInv, TypeOK
<1>3. JournalInv' /\ TokenInv'
  BY <1>1 DEF IInv, JournalInv, Pending, Target, TokenInv, Prepared
<1>4. DirectoryInv'
  BY <1>1 DEF IInv, DirectoryInv, Pending, Needed, Target
<1>5. StepInv'
  BY <1>1 DEF IInv, StepInv, Prepared, Committed, Pending, Incomplete, Writing
<1>6. DirectoriesDone' /\ StateDone'
  <2>1. CASE todo' = todo
    BY <1>1, <2>1 DEF IInv, DirectoriesDone, StateDone, Ids, Placed, Target, Writing, Rendered
  <2>2. CASE step = "runtime"
    BY <1>1, <2>2 DEF DirectoriesDone, StateDone, Writing
  <2>q. QED
    BY <2>1, <2>2
<1>7. CommittedInv'
  BY <1>1 DEF IInv, CommittedInv, Committed, Pending, Target, Placed, Rendered
<1>8. AuditInv'
  <2>1. ~Pending \/ Incomplete => (Consistent => Consistent')
    BY <1>1 DEF Consistent, Ids, Rendered
  <2>2. Untouched' <=> Untouched
    BY <1>1 DEF Untouched, Prepared, Pending, Incomplete, Target, NameFree, Ids, With
  <2>3. /\ Pending' <=> Pending
        /\ Prepared' <=> Prepared
        /\ Incomplete' <=> Incomplete
    BY <1>1 DEF Pending, Prepared, Incomplete
  <2>q. QED
    BY <2>1, <2>2, <2>3 DEF IInv, AuditInv
<1>q. QED
  BY <1>2, <1>3, <1>4, <1>5, <1>6, <1>7, <1>8 DEF IInv

\* By hand or by a command: containers stop and start.
LEMMA RunningStep ==
    ASSUME IInv, NEW id \in Id, StopComputer(id) \/ OutsideChange(id)
    PROVE  IInv'
<1>1. /\ UNCHANGED <<files, doc, journal, ops>> /\ UNCHANGED <<step, todo, run>>
      /\ container[id] # None
  BY DEF StopComputer, OutsideChange, progress
<1>2. container \in [Id -> Container \cup {None}] /\ container[id] \in Container
  BY <1>1 DEF IInv, TypeOK
<1>3. /\ container' \in [Id -> Container \cup {None}]
      /\ \A d \in Id : container'[d] # None =>
             container[d] # None /\ container'[d].name = container[d].name
  <2>1. CASE StopComputer(id)
    BY <2>1, <1>2 DEF StopComputer, Container
  <2>2. CASE OutsideChange(id)
    <3>1. PICK b \in BOOLEAN : container' = [container EXCEPT ![id].running = ~@, ![id].moved = b]
      <4>1. container[id].moved \in BOOLEAN
        BY <1>2 DEF Container
      <4>q. QED
        BY <4>1, <2>2 DEF OutsideChange
    <3>2. container'[id] = [container[id] EXCEPT !.running = ~container[id].running, !.moved = b]
      BY <3>1, <1>2 DEF Container
    <3>3. container'[id] \in Container /\ container'[id].name = container[id].name
      BY <3>2, <1>2 DEF Container
    <3>4. container' = [container EXCEPT ![id] = container'[id]]
      BY <3>1, <3>2, <1>2
    <3>q. QED
      BY <3>3, <3>4, <1>1, <1>2
  <2>q. QED
    BY <2>1, <2>2
<1>4. ContainerInv'
  <2>1. journal' = journal /\ step' = step /\ todo' = todo
    BY <1>1
  <2>2. ContainerInv
    BY DEF IInv
  <2>q. QED
    BY <2>1, <2>2, <1>3 DEF ContainerInv, Pending, Agrees, Target, WorkIds
<1>5. todo' \subseteq Id
  BY <1>1 DEF IInv, TypeOK
<1>q. QED
  BY <1>1, <1>3, <1>4, <1>5, ContainersKeep

\* At an entry of the loop of completeRuntime.
LEMMA EntryStep ==
    ASSUME IInv, NEW id \in Id, step = "runtime", id \in todo,
           journal.work[id] \notin {"none", "images"},
           UNCHANGED <<files, doc, journal, ops>>, UNCHANGED <<step, run>>,
           NEW v \in Container \cup {None}, container' = With(container, id, v),
           \/ todo' = todo
           \/ /\ todo' = todo \ {id}
              /\ v # None => Target(id) # None /\ v.name = Target(id).name
    PROVE  IInv'
<1>1. Committed /\ ~Incomplete /\ Pending
  BY DEF IInv, StepInv, Committed, Incomplete
<1>2. container \in [Id -> Container \cup {None}] /\ todo \subseteq Id
  BY DEF IInv, TypeOK
<1>3. /\ container' \in [Id -> Container \cup {None}]
      /\ container'[id] = v
      /\ \A d \in Id \ {id} : container'[d] = container[d]
  BY <1>2 DEF With
<1>4. ContainerInv'
  <2>1. ContainerInv
    BY DEF IInv
  <2>2. journal' = journal /\ step' = step
    OBVIOUS
  <2>3. \A d \in Id \ {id} : Agrees(d) => Agrees(d)'
    BY <2>2, <1>3 DEF Agrees, Target
  <2>4. todo' = todo \ {id} => Agrees(id)'
    <3>1. CASE todo' = todo
      BY <3>1
    <3>2. CASE v # None => Target(id) # None /\ v.name = Target(id).name
      BY <3>2, <2>2, <1>3 DEF Agrees, Target
    <3>q. QED
      BY <3>1, <3>2
  <2>q. QED
    BY <2>1, <2>2, <2>3, <2>4, <1>1 DEF ContainerInv, Pending, WorkIds
<1>q. QED
  BY <1>1, <1>2, <1>3, <1>4, ContainersKeep

\* docker compose up makes a container as the document says, which is the target.
LEMMA UpAgrees ==
    ASSUME IInv, NEW id \in Id, Committed, journal.work[id] # "none", journal.work[id] # "remove"
    PROVE  /\ Up(id) \in Container
           /\ Target(id) # None
           /\ Up(id).name = Target(id).name
<1>1. Pending
  BY DEF Committed
<1>2. Target(id) # None
  BY <1>1 DEF IInv, JournalInv
<1>3. journal \in Transaction
  BY <1>1 DEF IInv, TypeOK, Pending
<1>4. Target(id) \in Info
  BY <1>2, <1>3 DEF Target, Transaction
<1>5. doc[id] = Target(id).name
  BY <1>2 DEF IInv, CommittedInv, Rendered, Target
<1>6. container[id] \in Container \cup {None} /\ ops \in 0..MaxOps
  BY DEF IInv, TypeOK
<1>7. Up(id) \in Container
  <2>1. doc[id] \in Name
    BY <1>4, <1>5 DEF Info
  <2>q. QED
    BY <2>1, <1>6 DEF Up, Container
<1>q. QED
  BY <1>2, <1>5, <1>7 DEF Up

LEMMA RemoveContainerStep ==
    ASSUME IInv, NEW id \in Id, RemoveContainer(id)
    PROVE  IInv'
<1>1. /\ step = "runtime" /\ id \in todo /\ journal.work[id] = "remove"
      /\ UNCHANGED <<files, doc, journal, ops>> /\ UNCHANGED <<step, run>>
      /\ container' = With(container, id, None) /\ todo' = todo \ {id}
  BY DEF RemoveContainer, Working
<1>q. QED
  BY <1>1, EntryStep

LEMMA StartContainerStep ==
    ASSUME IInv, NEW id \in Id, StartContainer(id)
    PROVE  IInv'
<1>1. /\ step = "runtime" /\ id \in todo /\ journal.work[id] = "start"
      /\ UNCHANGED <<files, doc, journal, ops>> /\ UNCHANGED <<step, run>>
      /\ container' = With(container, id, Up(id)) /\ todo' = todo \ {id}
  BY DEF StartContainer, Working
<1>2. Committed
  BY <1>1 DEF IInv, StepInv
<1>3. Up(id) \in Container /\ Target(id) # None /\ Up(id).name = Target(id).name
  BY <1>1, <1>2, UpAgrees
<1>q. QED
  BY <1>1, <1>3, EntryStep

LEMMA RemoveSourceStep ==
    ASSUME IInv, NEW id \in Id, RemoveSource(id)
    PROVE  IInv'
<1>1. /\ step = "runtime" /\ id \in todo /\ journal.work[id] \in Replacing
      /\ UNCHANGED <<files, doc, journal, ops>> /\ UNCHANGED <<step, todo, run>>
      /\ container' = With(container, id, None)
  BY DEF RemoveSource, Working, progress
<1>2. journal.work[id] \notin {"none", "images"}
  BY <1>1 DEF Replacing
<1>q. QED
  BY <1>1, <1>2, EntryStep

LEMMA StartTargetStep ==
    ASSUME IInv, NEW id \in Id, StartTarget(id)
    PROVE  IInv'
<1>1. /\ step = "runtime" /\ id \in todo /\ journal.work[id] \in Replacing
      /\ UNCHANGED <<files, doc, journal, ops>> /\ UNCHANGED <<step, run>>
      /\ todo' = todo \ {id}
  BY DEF StartTarget, Working
<1>2. journal.work[id] \notin {"none", "images", "remove"} /\ Committed
  BY <1>1 DEF Replacing, IInv, StepInv
<1>3. Up(id) \in Container /\ Target(id) # None /\ Up(id).name = Target(id).name
  BY <1>1, <1>2, UpAgrees
<1>4. PICK v \in Container : container' = With(container, id, v) /\ v.name = Up(id).name
  <2>1. [Up(id) EXCEPT !.running = FALSE] \in Container /\ [Up(id) EXCEPT !.running = FALSE].name = Up(id).name
    BY <1>3 DEF Container
  <2>q. QED
    BY <2>1, <1>3 DEF StartTarget
<1>q. QED
  BY <1>1, <1>2, <1>3, <1>4, EntryStep

-----------------------------------------------------------------------------
(* Steps that move or write directories.                                   *)

\* ensureActiveDirectory
LEMMA PlaceDirectoryStep ==
    ASSUME IInv, NEW id \in Id, PlaceDirectory(id)
    PROVE  IInv'
<1>1. /\ step = "active" /\ id \in todo /\ active[id] = None
      /\ config' = config /\ secrets' = secrets /\ doc' = doc /\ container' = container
      /\ journal' = journal /\ step' = step /\ todo' = todo /\ run' = run /\ ops' = ops
      /\ trash' = With(trash, id, None) /\ stage' = With(stage, id, "none")
      /\ active' = With(active, id, IF journal.source[id] = "trash" THEN trash[id] ELSE Bare)
  BY DEF PlaceDirectory, progress
<1>2. Prepared /\ ~Incomplete /\ Pending
  BY <1>1 DEF IInv, StepInv, Writing, Prepared
<1>3. journal \in Transaction
  BY <1>2 DEF IInv, TypeOK, Pending
<1>4. Target(id) # None /\ journal.source[id] # None /\ journal.trash[id] = None
  BY <1>1, <1>2 DEF IInv, DirectoriesDone, JournalInv, Ids, Target
<1>5. journal.source[id] \in {"active", "create", "trash", "staged"}
  BY <1>3, <1>4 DEF Transaction
<1>6. /\ active \in [Id -> Metadata \cup {None}] /\ trash \in [Id -> Metadata \cup {None}]
      /\ stage \in [Id -> {"none", "filling", "ready"}]
  BY DEF IInv, TypeOK
<1>7. Needed(id)
  BY <1>2 DEF IInv, DirectoryInv
<1>8. journal.source[id] = "trash" => trash[id] \in Metadata
  BY <1>1, <1>6, <1>7 DEF Needed
<1>9. /\ active' \in [Id -> Metadata \cup {None}] /\ trash' \in [Id -> Metadata \cup {None}]
      /\ stage' \in [Id -> {"none", "filling", "ready"}]
      /\ active'[id] # None /\ trash'[id] = None /\ stage'[id] = "none"
      /\ \A d \in Id \ {id} : active'[d] = active[d] /\ trash'[d] = trash[d] /\ stage'[d] = stage[d]
  <2>1. PICK m \in Metadata : active' = With(active, id, m)
    <3>1. Bare \in Metadata
      BY DEF Bare, Metadata
    <3>q. QED
      BY <3>1, <1>1, <1>8
  <2>2. m # None
    BY NoneAssumption
  <2>3. /\ active' \in [Id -> Metadata \cup {None}] /\ active'[id] # None
        /\ \A d \in Id \ {id} : active'[d] = active[d]
    BY <2>1, <2>2, <1>6 DEF With
  <2>4. /\ trash' \in [Id -> Metadata \cup {None}] /\ trash'[id] = None
        /\ \A d \in Id \ {id} : trash'[d] = trash[d]
    BY <1>1, <1>6 DEF With
  <2>5. /\ stage' \in [Id -> {"none", "filling", "ready"}] /\ stage'[id] = "none"
        /\ \A d \in Id \ {id} : stage'[d] = stage[d]
    BY <1>1, <1>6 DEF With
  <2>q. QED
    BY <2>3, <2>4, <2>5
<1>10. TypeOK'
  BY <1>1, <1>9 DEF IInv, TypeOK
<1>11. JournalInv' /\ TokenInv' /\ StateDone' /\ ContainerInv'
  BY <1>1 DEF IInv, JournalInv, Pending, Target, TokenInv, Prepared, StateDone, Rendered,
              ContainerInv, Agrees, WorkIds
<1>12. DirectoryInv'
  <2>1. \A d \in Id : Needed(d)
    BY <1>2 DEF IInv, DirectoryInv
  <2>2. \A d \in Id \ {id} : Needed(d)'
    BY <2>1, <1>1, <1>9 DEF Needed, Target
  <2>3. Needed(id)'
    BY <1>1, <1>4, <1>9 DEF Needed, Target
  <2>4. DirectoryInv
    BY DEF IInv
  <2>q. QED
    BY <2>2, <2>3, <2>4, <1>1, <1>9 DEF DirectoryInv, Pending
<1>13. ~Incomplete'
  BY <1>1, <1>2, <1>9 DEF Incomplete, Prepared
<1>14. Prepared' /\ Pending'
  BY <1>1, <1>2 DEF Prepared, Pending
<1>15. StepInv'
  BY <1>1, <1>13, <1>14 DEF StepInv, Writing
<1>16. DirectoriesDone'
  <2>1. DirectoriesDone
    BY DEF IInv
  <2>q. QED
    BY <2>1, <1>1, <1>9 DEF DirectoriesDone, Writing, Ids, Placed, Target
<1>17. CommittedInv' /\ AuditInv'
  BY <1>13, <1>14 DEF CommittedInv, AuditInv, Committed, Prepared, Untouched
<1>q. QED
  BY <1>10, <1>11, <1>12, <1>15, <1>16, <1>17 DEF IInv

LEMMA WriteMetadataStep ==
    ASSUME IInv, NEW id \in Id, WriteMetadata(id)
    PROVE  IInv'
<1>1. /\ step = "active" /\ id \in todo /\ active[id] # None
      /\ config' = config /\ secrets' = secrets /\ doc' = doc /\ container' = container
      /\ trash' = trash /\ stage' = stage
      /\ journal' = journal /\ step' = step /\ todo' = todo \ {id} /\ run' = run /\ ops' = ops
      /\ active' = With(active, id, [info |-> Target(id), deleted |-> FALSE])
  BY DEF WriteMetadata, Target
<1>2. Prepared /\ ~Incomplete /\ Pending
  BY <1>1 DEF IInv, StepInv, Writing, Prepared
<1>3. journal \in Transaction
  BY <1>2 DEF IInv, TypeOK, Pending
<1>4. active \in [Id -> Metadata \cup {None}] /\ todo \subseteq Id
  BY DEF IInv, TypeOK
<1>5. [info |-> Target(id), deleted |-> FALSE] \in Metadata
  BY <1>3 DEF Transaction, Metadata, Target
<1>6. /\ active' \in [Id -> Metadata \cup {None}]
      /\ active'[id] = [info |-> Target(id), deleted |-> FALSE]
      /\ active'[id] # None
      /\ \A d \in Id \ {id} : active'[d] = active[d]
  BY <1>1, <1>4, <1>5, NoneAssumption DEF With
<1>7. TypeOK'
  BY <1>1, <1>4, <1>6 DEF IInv, TypeOK
<1>8. JournalInv' /\ TokenInv' /\ StateDone' /\ ContainerInv'
  BY <1>1 DEF IInv, JournalInv, Pending, Target, TokenInv, Prepared, StateDone, Rendered,
              ContainerInv, Agrees, WorkIds
<1>9. DirectoryInv'
  <2>1. \A d \in Id : Needed(d)
    BY <1>2 DEF IInv, DirectoryInv
  <2>2. Target(id) # None
    BY <1>1 DEF IInv, DirectoriesDone, Ids, Target
  <2>3. \A d \in Id : Needed(d)'
    BY <2>1, <2>2, <1>1, <1>6 DEF Needed, Target
  <2>4. DirectoryInv
    BY DEF IInv
  <2>q. QED
    BY <2>3, <2>4, <1>1, <1>6 DEF DirectoryInv, Pending
<1>10. ~Incomplete'
  BY <1>1, <1>2, <1>6 DEF Incomplete, Prepared
<1>11. Prepared' /\ Pending'
  BY <1>1, <1>2 DEF Prepared, Pending
<1>12. StepInv'
  BY <1>1, <1>10, <1>11 DEF StepInv, Writing
<1>13. DirectoriesDone'
  <2>1. DirectoriesDone
    BY DEF IInv
  <2>2. Placed(id)'
    BY <1>1, <1>6 DEF Placed, Target
  <2>3. \A d \in Id \ {id} : Placed(d) => Placed(d)'
    BY <1>1, <1>6 DEF Placed, Target
  <2>q. QED
    BY <2>1, <2>2, <2>3, <1>1 DEF DirectoriesDone, Writing, Ids
<1>14. CommittedInv' /\ AuditInv'
  BY <1>10, <1>11 DEF CommittedInv, AuditInv, Committed, Prepared, Untouched
<1>q. QED
  BY <1>7, <1>8, <1>9, <1>12, <1>13, <1>14 DEF IInv

\* ensureTrashDirectory works on computers that the target does not have.
LEMMA TrashEntry ==
    ASSUME IInv, NEW id \in Id, step = "trash", id \in todo
    PROVE  /\ Prepared /\ Pending /\ ~Incomplete /\ journal \in Transaction
           /\ journal.trash[id] \in Info /\ journal.trash[id] # None
           /\ Target(id) = None /\ journal.source[id] = None
           /\ [info |-> journal.trash[id], deleted |-> TRUE] \in Metadata
           /\ [info |-> journal.trash[id], deleted |-> TRUE] # None
<1>1. Prepared /\ Pending /\ ~Incomplete
  BY DEF IInv, StepInv, Writing, Prepared
<1>2. journal \in Transaction
  BY <1>1 DEF IInv, TypeOK, Pending
<1>3. journal.trash[id] \in Info /\ journal.trash[id] # None
  BY <1>2 DEF IInv, DirectoriesDone, Ids, Transaction
<1>4. Target(id) = None /\ journal.source[id] = None
  BY <1>1, <1>3 DEF IInv, JournalInv
<1>5. [info |-> journal.trash[id], deleted |-> TRUE] \in Metadata
  BY <1>3 DEF Metadata
<1>q. QED
  BY <1>1, <1>2, <1>3, <1>4, <1>5, NoneAssumption

LEMMA MarkDeletedStep ==
    ASSUME IInv, NEW id \in Id, MarkDeleted(id)
    PROVE  IInv'
<1>1. /\ step = "trash" /\ id \in todo /\ active[id] # None
      /\ config' = config /\ secrets' = secrets /\ doc' = doc /\ container' = container
      /\ trash' = trash /\ stage' = stage
      /\ journal' = journal /\ step' = step /\ todo' = todo /\ run' = run /\ ops' = ops
      /\ active' = With(active, id, [info |-> journal.trash[id], deleted |-> TRUE])
  BY DEF MarkDeleted, progress
<1>2. /\ Prepared /\ Pending /\ ~Incomplete /\ Target(id) = None
      /\ [info |-> journal.trash[id], deleted |-> TRUE] \in Metadata
      /\ [info |-> journal.trash[id], deleted |-> TRUE] # None
      /\ journal.trash[id] # None
  BY <1>1, TrashEntry
<1>3. active \in [Id -> Metadata \cup {None}]
  BY DEF IInv, TypeOK
<1>4. /\ active' \in [Id -> Metadata \cup {None}] /\ active'[id] # None
      /\ \A d \in Id \ {id} : active'[d] = active[d]
  BY <1>1, <1>2, <1>3 DEF With
<1>5. TypeOK'
  BY <1>1, <1>4 DEF IInv, TypeOK
<1>6. JournalInv' /\ TokenInv' /\ StateDone' /\ ContainerInv'
  BY <1>1 DEF IInv, JournalInv, Pending, Target, TokenInv, Prepared, StateDone, Rendered,
              ContainerInv, Agrees, WorkIds
<1>7. DirectoryInv'
  <2>1. \A d \in Id : Needed(d)
    BY <1>2 DEF IInv, DirectoryInv
  <2>2. \A d \in Id : Needed(d)'
    BY <2>1, <1>1, <1>2, <1>4 DEF Needed, Target
  <2>3. DirectoryInv
    BY DEF IInv
  <2>q. QED
    BY <2>2, <2>3, <1>1, <1>4 DEF DirectoryInv, Pending
<1>8. ~Incomplete' /\ Prepared' /\ Pending'
  BY <1>1, <1>2, <1>4 DEF Incomplete, Prepared, Pending
<1>9. StepInv'
  BY <1>1, <1>8 DEF StepInv, Writing
<1>10. DirectoriesDone'
  <2>1. DirectoriesDone
    BY DEF IInv
  <2>2. \A d \in Ids(journal.config) : Placed(d) => Placed(d)'
    BY <1>1, <1>2, <1>4 DEF Placed, Target, Ids
  <2>q. QED
    BY <2>1, <2>2, <1>1, <1>4 DEF DirectoriesDone, Writing, Ids
<1>11. CommittedInv' /\ AuditInv'
  BY <1>8 DEF CommittedInv, AuditInv, Committed, Prepared, Untouched
<1>q. QED
  BY <1>5, <1>6, <1>7, <1>9, <1>10, <1>11 DEF IInv

LEMMA MoveToTrashStep ==
    ASSUME IInv, NEW id \in Id, MoveToTrash(id)
    PROVE  IInv'
<1>1. /\ step = "trash" /\ id \in todo
      /\ config' = config /\ secrets' = secrets /\ doc' = doc /\ container' = container
      /\ stage' = stage
      /\ journal' = journal /\ step' = step /\ todo' = todo \ {id} /\ run' = run /\ ops' = ops
      /\ active' = With(active, id, None)
      /\ trash' = With(trash, id, [info |-> journal.trash[id], deleted |-> TRUE])
  BY DEF MoveToTrash
<1>2. /\ Prepared /\ Pending /\ ~Incomplete /\ Target(id) = None
      /\ [info |-> journal.trash[id], deleted |-> TRUE] \in Metadata
      /\ [info |-> journal.trash[id], deleted |-> TRUE] # None
      /\ journal.trash[id] # None /\ journal.source[id] = None
  BY <1>1, TrashEntry
<1>3. active \in [Id -> Metadata \cup {None}] /\ trash \in [Id -> Metadata \cup {None}] /\ todo \subseteq Id
  BY DEF IInv, TypeOK
<1>4. /\ active' \in [Id -> Metadata \cup {None}] /\ active'[id] = None
      /\ \A d \in Id \ {id} : active'[d] = active[d]
  BY <1>1, <1>3 DEF With
<1>5. /\ trash' \in [Id -> Metadata \cup {None}] /\ trash'[id] # None
      /\ trash'[id].info = journal.trash[id] /\ trash'[id].deleted
      /\ \A d \in Id \ {id} : trash'[d] = trash[d]
  BY <1>1, <1>2, <1>3 DEF With
<1>6. TypeOK'
  BY <1>1, <1>3, <1>4, <1>5 DEF IInv, TypeOK
<1>7. JournalInv' /\ TokenInv' /\ StateDone' /\ ContainerInv'
  BY <1>1 DEF IInv, JournalInv, Pending, Target, TokenInv, Prepared, StateDone, Rendered,
              ContainerInv, Agrees, WorkIds
<1>8. DirectoryInv'
  <2>1. \A d \in Id : Needed(d)
    BY <1>2 DEF IInv, DirectoryInv
  <2>2. \A d \in Id \ {id} : Needed(d)'
    <3>1. TAKE d \in Id \ {id}
    <3>2. Needed(d) /\ active'[d] = active[d] /\ trash'[d] = trash[d] /\ journal' = journal
      BY <2>1, <1>1, <1>4, <1>5
    <3>q. QED
      BY <3>2 DEF Needed, Target
  <2>3. Needed(id)'
    BY <1>1, <1>2, <1>4, <1>5, NoneAssumption DEF Needed, Target
  <2>4. DirectoryInv
    BY DEF IInv
  <2>5. /\ active'[id] = None /\ trash'[id].deleted /\ trash'[id].info # None
        /\ stage[id] # "none" => journal.source[id] = "staged"
    BY <2>4, <1>2, <1>4, <1>5 DEF DirectoryInv
  <2>6. \A d \in Id \ {id} : active'[d] = active[d] /\ trash'[d] = trash[d]
    BY <1>4, <1>5
  <2>7. Pending' = Pending /\ stage' = stage /\ journal' = journal
    BY <1>1 DEF Pending
  <2>q. QED
    BY <2>2, <2>3, <2>4, <2>5, <2>6, <2>7, <1>2 DEF DirectoryInv
<1>9. ~Incomplete' /\ Prepared' /\ Pending'
  BY <1>1, <1>2, <1>4, NoneAssumption DEF Incomplete, Prepared, Pending
<1>10. StepInv'
  BY <1>1, <1>9 DEF StepInv, Writing
<1>11. DirectoriesDone'
  <2>1. DirectoriesDone
    BY DEF IInv
  <2>2. \A d \in Ids(journal.config) : Placed(d) => Placed(d)'
    BY <1>1, <1>2, <1>4 DEF Placed, Target, Ids
  <2>q. QED
    BY <2>1, <2>2, <1>1, <1>4 DEF DirectoriesDone, Writing, Ids
<1>12. CommittedInv' /\ AuditInv'
  BY <1>9 DEF CommittedInv, AuditInv, Committed, Prepared, Untouched
<1>q. QED
  BY <1>6, <1>7, <1>8, <1>10, <1>11, <1>12 DEF IInv

\* A restore whose directory is not complete is the only one that is staged.
LEMMA StagedAlone ==
    ASSUME IInv, Prepared, Incomplete, NEW id \in Id, journal.source[id] = "staged"
    PROVE  active[id] = None /\ stage[id] # "ready" /\ Consistent
<1>1. PICK d \in Id : journal.source[d] = "staged" /\ active[d] = None /\ stage[d] # "ready"
  BY DEF Incomplete
<1>2. id = d
  BY <1>1 DEF IInv, AuditInv, Untouched
<1>q. QED
  BY <1>1, <1>2 DEF IInv, AuditInv

LEMMA FillStageStep ==
    ASSUME IInv, NEW id \in Id, FillStage(id)
    PROVE  IInv'
<1>1. /\ step = "staging" /\ journal.source[id] = "staged"
      /\ config' = config /\ secrets' = secrets /\ doc' = doc /\ container' = container
      /\ active' = active /\ trash' = trash
      /\ journal' = journal /\ todo' = todo /\ run' = run /\ ops' = ops
      /\ stage' = With(stage, id, IF stage[id] = "none" THEN "filling" ELSE "ready")
      /\ step' = IF stage[id] = "none" THEN "staging" ELSE "recover"
  BY DEF FillStage
<1>2. Prepared /\ Incomplete /\ Pending
  BY <1>1 DEF IInv, StepInv, Prepared
<1>3. active[id] = None /\ Consistent
  BY <1>1, <1>2, StagedAlone
<1>4. stage \in [Id -> {"none", "filling", "ready"}]
  BY DEF IInv, TypeOK
<1>5. /\ stage' \in [Id -> {"none", "filling", "ready"}]
      /\ step' = "staging" => stage'[id] = "filling"
      /\ \A d \in Id \ {id} : stage'[d] = stage[d]
  BY <1>1, <1>4 DEF With
<1>6. TypeOK'
  BY <1>1, <1>2, <1>5 DEF IInv, TypeOK, Step, Pending
<1>7. JournalInv' /\ TokenInv' /\ StateDone' /\ ContainerInv'
  BY <1>1 DEF IInv, JournalInv, Pending, Target, TokenInv, Prepared, StateDone, Rendered,
              ContainerInv, Agrees, WorkIds
<1>8. DirectoryInv'
  <2>1. \A d \in Id : Needed(d)
    BY <1>2 DEF IInv, DirectoryInv
  <2>2. \A d \in Id : Needed(d)'
    BY <2>1, <1>1 DEF Needed, Target
  <2>3. DirectoryInv
    BY DEF IInv
  <2>q. QED
    BY <2>2, <2>3, <1>1, <1>2, <1>3, <1>5 DEF DirectoryInv, Pending
<1>9. Prepared' /\ Pending' /\ (step' = "staging" => Incomplete')
  BY <1>1, <1>2, <1>3, <1>5 DEF Prepared, Pending, Incomplete
<1>10. StepInv'
  BY <1>1, <1>9 DEF StepInv, Writing
<1>11. DirectoriesDone' /\ CommittedInv'
  BY <1>1, <1>9 DEF DirectoriesDone, Writing, CommittedInv, Committed, Prepared
<1>12. AuditInv'
  <2>1. Consistent'
    BY <1>1, <1>3 DEF Consistent, Ids, Rendered
  <2>2. Untouched
    BY DEF IInv, AuditInv
  <2>3. Untouched'
    BY <2>2, <1>1, <1>2 DEF Untouched, Prepared, Pending, Target, NameFree, Ids, With
  <2>q. QED
    BY <2>1, <2>3 DEF AuditInv
<1>q. QED
  BY <1>6, <1>7, <1>8, <1>10, <1>11, <1>12 DEF IInv

LEMMA UndoStagingStep ==
    ASSUME IInv, UndoStaging
    PROVE  IInv'
<1>1. /\ step = "undo"
      /\ config' = config /\ secrets' = secrets /\ doc' = doc /\ container' = container
      /\ active' = active /\ trash' = trash
      /\ todo' = todo /\ run' = run /\ ops' = ops
  BY DEF UndoStaging
<1>2. Prepared /\ Incomplete /\ Pending
  BY <1>1 DEF IInv, StepInv, Prepared
<1>3. Consistent
  BY <1>2 DEF IInv, AuditInv
<1>4. Consistent'
  BY <1>1, <1>3 DEF Consistent, Ids, Rendered
<1>5. CASE stage' = [id \in Id |-> "none"] /\ journal' = journal /\ step' = step
  <2>1. TypeOK'
    BY <1>1, <1>5 DEF IInv, TypeOK
  <2>2. JournalInv' /\ TokenInv' /\ StateDone' /\ ContainerInv'
    BY <1>1, <1>5 DEF IInv, JournalInv, Pending, Target, TokenInv, Prepared, StateDone, Rendered,
                      ContainerInv, Agrees, WorkIds
  <2>3. DirectoryInv'
    BY <1>1, <1>5 DEF IInv, DirectoryInv, Pending, Needed, Target
  <2>4. Prepared' /\ Pending' /\ Incomplete'
    <3>1. PICK d \in Id : journal.source[d] = "staged" /\ active[d] = None
      BY <1>2 DEF Incomplete
    <3>q. QED
      BY <3>1, <1>1, <1>2, <1>5 DEF Prepared, Pending, Incomplete
  <2>5. StepInv' /\ DirectoriesDone' /\ CommittedInv'
    BY <1>1, <1>5, <2>4 DEF StepInv, DirectoriesDone, Writing, CommittedInv, Committed, Prepared
  <2>6. AuditInv'
    <3>1. Untouched
      BY DEF IInv, AuditInv
    <3>2. Untouched'
      BY <3>1, <1>1, <1>2, <1>5 DEF Untouched, Prepared, Pending, Target, NameFree, Ids, With
    <3>q. QED
      BY <3>2, <1>4 DEF AuditInv
  <2>q. QED
    BY <2>1, <2>2, <2>3, <2>5, <2>6 DEF IInv
<1>6. CASE journal' = None /\ step' = "ready" /\ stage' = stage /\ \A id \in Id : stage[id] = "none"
  <2>1. TypeOK'
    BY <1>1, <1>6 DEF IInv, TypeOK, Step
  <2>2. ~Pending' /\ ~Prepared' /\ ~Committed'
    BY <1>6 DEF Pending, Prepared, Committed
  <2>3. JournalInv' /\ StepInv' /\ DirectoriesDone' /\ StateDone' /\ CommittedInv' /\ ContainerInv'
    BY <1>6, <2>2 DEF JournalInv, StepInv, DirectoriesDone, StateDone, CommittedInv, ContainerInv, Writing
  <2>4. DirectoryInv'
    BY <1>1, <1>6, <2>2 DEF IInv, DirectoryInv
  <2>5. AuditInv' /\ TokenInv'
    BY <1>1, <1>4, <2>2 DEF IInv, AuditInv, Untouched, TokenInv
  <2>q. QED
    BY <2>1, <2>3, <2>4, <2>5 DEF IInv
<1>q. QED
  BY <1>1, <1>5, <1>6 DEF UndoStaging

-----------------------------------------------------------------------------
(* Steps that write the state, the document or the journal.                *)

LEMMA WriteConfigStep ==
    ASSUME IInv, WriteConfig
    PROVE  IInv'
<1>1. /\ step = "config" /\ step' = "secrets" /\ config' = journal.config
      /\ secrets' = secrets /\ active' = active /\ trash' = trash /\ stage' = stage
      /\ doc' = doc /\ container' = container /\ journal' = journal
      /\ todo' = todo /\ run' = run /\ ops' = ops
  BY DEF WriteConfig, Turn
<1>2. Prepared /\ ~Incomplete /\ Pending
  BY <1>1 DEF IInv, StepInv, Writing, Prepared
<1>3. journal \in Transaction
  BY <1>2 DEF IInv, TypeOK, Pending
<1>4. TypeOK'
  BY <1>1, <1>2, <1>3 DEF IInv, TypeOK, Step, Transaction, Pending
<1>5. JournalInv' /\ TokenInv' /\ ContainerInv'
  BY <1>1 DEF IInv, JournalInv, Pending, Target, TokenInv, Prepared, ContainerInv, Agrees, WorkIds
<1>6. DirectoryInv'
  BY <1>1 DEF IInv, DirectoryInv, Pending, Needed, Target
<1>7. Prepared' /\ ~Incomplete' /\ Pending'
  BY <1>1, <1>2 DEF Prepared, Pending, Incomplete
<1>8. StepInv'
  BY <1>1, <1>7 DEF StepInv, Writing
<1>9. DirectoriesDone' /\ StateDone'
  BY <1>1 DEF IInv, DirectoriesDone, StateDone, Writing, Ids, Placed, Target
<1>10. CommittedInv' /\ AuditInv'
  BY <1>7 DEF CommittedInv, AuditInv, Committed, Prepared, Untouched
<1>q. QED
  BY <1>4, <1>5, <1>6, <1>8, <1>9, <1>10 DEF IInv

LEMMA WriteSecretsStep ==
    ASSUME IInv, WriteSecrets
    PROVE  IInv'
<1>1. /\ step = "secrets" /\ step' = "render" /\ secrets' = journal.secrets
      /\ config' = config /\ active' = active /\ trash' = trash /\ stage' = stage
      /\ doc' = doc /\ container' = container /\ journal' = journal
      /\ todo' = todo /\ run' = run /\ ops' = ops
  BY DEF WriteSecrets, Turn
<1>2. Prepared /\ ~Incomplete /\ Pending
  BY <1>1 DEF IInv, StepInv, Writing, Prepared
<1>3. journal \in Transaction
  BY <1>2 DEF IInv, TypeOK, Pending
<1>4. TypeOK'
  BY <1>1, <1>2, <1>3 DEF IInv, TypeOK, Step, Transaction, Pending
<1>5. JournalInv' /\ ContainerInv'
  BY <1>1 DEF IInv, JournalInv, Pending, Target, ContainerInv, Agrees, WorkIds
<1>6. TokenInv'
  BY <1>1, <1>2 DEF IInv, TokenInv, Pending
<1>7. DirectoryInv'
  BY <1>1 DEF IInv, DirectoryInv, Pending, Needed, Target
<1>8. Prepared' /\ ~Incomplete' /\ Pending'
  BY <1>1, <1>2 DEF Prepared, Pending, Incomplete
<1>9. StepInv'
  BY <1>1, <1>8 DEF StepInv, Writing
<1>10. DirectoriesDone' /\ StateDone'
  BY <1>1 DEF IInv, DirectoriesDone, StateDone, Writing, Ids, Placed, Target
<1>11. CommittedInv' /\ AuditInv'
  BY <1>8 DEF CommittedInv, AuditInv, Committed, Prepared, Untouched
<1>q. QED
  BY <1>4, <1>5, <1>6, <1>7, <1>9, <1>10, <1>11 DEF IInv

LEMMA RenderedType ==
    ASSUME NEW state \in [Id -> Info \cup {None}]
    PROVE  Rendered(state) \in [Id -> Name \cup {None}]
BY DEF Rendered, Info

LEMMA RenderStep ==
    ASSUME IInv, Render
    PROVE  IInv'
<1>1. /\ step = "render" /\ step' = "trash" /\ doc' = Rendered(journal.config)
      /\ config' = config /\ secrets' = secrets /\ active' = active /\ trash' = trash
      /\ stage' = stage /\ container' = container /\ journal' = journal
      /\ todo' = Ids(journal.trash) /\ run' = run /\ ops' = ops
  BY DEF Render, Turn, files
<1>2. Prepared /\ ~Incomplete /\ Pending
  BY <1>1 DEF IInv, StepInv, Writing, Prepared
<1>3. journal \in Transaction
  BY <1>2 DEF IInv, TypeOK, Pending
<1>4. TypeOK'
  <2>1. doc' \in [Id -> Name \cup {None}]
    BY <1>1, <1>3, RenderedType DEF Transaction
  <2>q. QED
    BY <2>1, <1>1, <1>2 DEF IInv, TypeOK, Step, Ids, Pending
<1>5. JournalInv' /\ TokenInv' /\ ContainerInv'
  BY <1>1 DEF IInv, JournalInv, Pending, Target, TokenInv, Prepared, ContainerInv, Agrees, WorkIds
<1>6. DirectoryInv'
  BY <1>1 DEF IInv, DirectoryInv, Pending, Needed, Target
<1>7. Prepared' /\ ~Incomplete' /\ Pending'
  BY <1>1, <1>2 DEF Prepared, Pending, Incomplete
<1>8. StepInv'
  BY <1>1, <1>7 DEF StepInv, Writing
<1>9. DirectoriesDone'
  BY <1>1 DEF IInv, DirectoriesDone, Writing, Ids, Placed, Target
<1>10. StateDone'
  BY <1>1 DEF IInv, StateDone, Rendered
<1>11. CommittedInv' /\ AuditInv'
  BY <1>7 DEF CommittedInv, AuditInv, Committed, Prepared, Untouched
<1>q. QED
  BY <1>4, <1>5, <1>6, <1>8, <1>9, <1>10, <1>11 DEF IInv

LEMMA CommitStep ==
    ASSUME IInv, Commit
    PROVE  IInv'
<1>1. /\ step = "commit" /\ journal' = [journal EXCEPT !.phase = "state-committed"] /\ ToRuntime
      /\ config' = config /\ secrets' = secrets /\ active' = active /\ trash' = trash
      /\ stage' = stage /\ doc' = doc /\ container' = container /\ run' = run /\ ops' = ops
  BY DEF Commit, files
<1>2. Prepared /\ ~Incomplete /\ Pending
  BY <1>1 DEF IInv, StepInv, Writing, Prepared
<1>3. journal \in Transaction
  BY <1>2 DEF IInv, TypeOK, Pending
<1>4. /\ journal' \in Transaction /\ journal' # None /\ journal'.phase = "state-committed"
      /\ journal'.config = journal.config /\ journal'.secrets = journal.secrets
      /\ journal'.source = journal.source /\ journal'.trash = journal.trash
      /\ journal'.work = journal.work
  <2>1. journal' \in Transaction
    BY <1>1, <1>3 DEF Transaction
  <2>2. journal' # None
    BY <2>1, NoneAssumption
  <2>q. QED
    BY <2>1, <2>2, <1>1, <1>3 DEF Transaction
<1>5. Pending' /\ ~Prepared' /\ Committed' /\ WorkIds' = WorkIds
  BY <1>4 DEF Pending, Prepared, Committed, WorkIds
<1>6. /\ todo' \subseteq WorkIds
      /\ \/ step' = "ready" /\ ~run
         \/ step' = "runtime" /\ todo' = WorkIds
  BY <1>1, ToRuntimeMoves
<1>7. TypeOK'
  BY <1>1, <1>4, <1>6 DEF IInv, TypeOK, Step, WorkIds
<1>8. JournalInv' /\ TokenInv'
  BY <1>1, <1>2, <1>4, <1>5 DEF IInv, JournalInv, Target, TokenInv
<1>9. DirectoryInv'
  <2>1. \A d \in Id : Needed(d) => Needed(d)'
    BY <1>1, <1>4 DEF Needed, Target
  <2>q. QED
    BY <2>1, <1>1, <1>2, <1>4, <1>5 DEF IInv, DirectoryInv
<1>10. StepInv' /\ DirectoriesDone' /\ StateDone'
  BY <1>1, <1>5, <1>6 DEF StepInv, DirectoriesDone, StateDone, Writing
<1>11. ContainerInv'
  <2>1. \A d \in Id : Agrees(d) => Agrees(d)'
    BY <1>1, <1>4 DEF Agrees, Target
  <2>q. QED
    BY <2>1, <1>2, <1>4, <1>5, <1>6 DEF IInv, ContainerInv
<1>12. CommittedInv'
  <2>1. /\ config = journal.config /\ secrets = journal.secrets /\ doc = Rendered(journal.config)
        /\ \A d \in Id : Target(d) # None => Placed(d)
        /\ \A d \in Id : journal.trash[d] # None => active[d] = None
    BY <1>1 DEF IInv, StateDone, DirectoriesDone, Writing, Ids, Target
  <2>2. \A d \in Id : Target(d) = None => active[d] = None
    BY <2>1, <1>2 DEF IInv, DirectoryInv, Needed
  <2>3. \A d \in Id : Target(d) # None => Placed(d)'
    BY <2>1, <1>1, <1>4 DEF Placed, Target
  <2>4. doc' = Rendered(journal'.config)
    BY <2>1, <1>1, <1>4 DEF Rendered
  <2>5. \A d \in Id : Target(d)' = Target(d)
    BY <1>4 DEF Target
  <2>6. \A d \in Id : config'[d] = Target(d)
    BY <2>1, <1>1 DEF Target
  <2>q. QED
    BY <2>1, <2>2, <2>3, <2>4, <2>5, <2>6, <1>1, <1>4 DEF CommittedInv
<1>13. AuditInv'
  BY <1>5 DEF AuditInv, Untouched
<1>q. QED
  BY <1>7, <1>8, <1>9, <1>10, <1>11, <1>12, <1>13 DEF IInv

LEMMA AcquireImagesStep ==
    ASSUME IInv, NEW id \in Id, AcquireImages(id)
    PROVE  IInv'
<1>1. /\ step = "runtime" /\ id \in todo /\ journal.work[id] = "images"
      /\ config' = config /\ secrets' = secrets /\ active' = active /\ trash' = trash
      /\ stage' = stage /\ container' = container /\ journal' = journal
      /\ doc' = Rendered(journal.config)
      /\ todo' = todo \ {id} /\ step' = step /\ run' = run /\ ops' = ops
  BY DEF AcquireImages, Working, files
<1>2. Committed /\ Pending
  BY <1>1 DEF IInv, StepInv, Committed
<1>3. doc' = doc
  BY <1>1, <1>2 DEF IInv, CommittedInv
<1>4. UNCHANGED <<files, doc, journal, ops>> /\ UNCHANGED <<step, run>>
  BY <1>1, <1>3 DEF files
<1>5. container \in [Id -> Container \cup {None}] /\ todo' \subseteq Id
  BY <1>1 DEF IInv, TypeOK
<1>6. ContainerInv'
  <2>1. ContainerInv
    BY DEF IInv
  <2>2. \A d \in Id : Agrees(d) => Agrees(d)'
    BY <1>1 DEF Agrees, Target
  <2>q. QED
    BY <2>1, <2>2, <1>1, <1>2 DEF ContainerInv, Pending, WorkIds
<1>q. QED
  BY <1>1, <1>4, <1>5, <1>6, ContainersKeep

\* With nothing left to do the transaction is as the audit wants it.
LEMMA TransactionDone ==
    ASSUME IInv, step = "runtime", todo = {}
    PROVE  /\ Consistent
           /\ \A id \in Id : stage[id] = "none"
<1>1. Committed /\ Pending
  BY DEF IInv, StepInv, Committed
<1>2. journal \in Transaction
  BY <1>1 DEF IInv, TypeOK, Pending
<1>3. \A id \in Id : /\ Target(id) \in Info \cup {None}
                     /\ journal.work[id] \in Work
                     /\ config[id] \in Info \cup {None}
  BY <1>2 DEF IInv, TypeOK, Transaction, Target
<1>4. \A id \in Id : Agrees(id)
  BY <1>1 DEF IInv, ContainerInv, WorkIds
<1>5. \A id \in Id :
          IF Target(id) = None THEN config[id] = None /\ active[id] = None
          ELSE /\ config[id] \in {Target(id), [Target(id) EXCEPT !.warn = TRUE]}
               /\ Placed(id)
  BY <1>1 DEF IInv, CommittedInv
<1>6. \A id \in Id : Target(id) # None =>
          /\ Target(id) \in Info
          /\ config[id] \in Info /\ config[id] # None /\ config[id].name = Target(id).name
          /\ active[id] # None /\ ~active[id].deleted
          /\ active[id].info \in {config[id], [config[id] EXCEPT !.warn = FALSE]}
  <2>1. SUFFICES ASSUME NEW id \in Id, Target(id) # None
                 PROVE  /\ Target(id) \in Info
                        /\ config[id] \in Info /\ config[id] # None /\ config[id].name = Target(id).name
                        /\ active[id] # None /\ ~active[id].deleted
                        /\ active[id].info \in {config[id], [config[id] EXCEPT !.warn = FALSE]}
    OBVIOUS
  <2>2. Target(id) \in Info
    BY <2>1, <1>3
  <2>3. config[id] \in {Target(id), [Target(id) EXCEPT !.warn = TRUE]}
    BY <2>1, <1>5
  <2>4. config[id] \in Info /\ config[id].name = Target(id).name
    BY <2>2, <2>3 DEF Info
  <2>5. active[id] = [info |-> Target(id), deleted |-> FALSE]
    BY <2>1, <1>5 DEF Placed
  <2>6. active[id] \in Metadata
    BY <2>2, <2>5 DEF Metadata
  <2>7. Target(id) \in {config[id], [config[id] EXCEPT !.warn = FALSE]}
    BY <2>2, <2>3 DEF Info
  <2>8. active[id] # None /\ config[id] # None
    BY <2>4, <2>6, NoneAssumption
  <2>9. ~active[id].deleted /\ active[id].info \in {config[id], [config[id] EXCEPT !.warn = FALSE]}
    BY <2>5, <2>7
  <2>q. QED
    BY <2>2, <2>4, <2>8, <2>9
<1>7. Ids(secrets) = Ids(config)
  BY <1>1, <1>5, <1>6 DEF IInv, CommittedInv, JournalInv, Ids
<1>8. Ids(active) = Ids(config)
  BY <1>5, <1>6 DEF Ids
<1>9. \A id \in Ids(active) :
          /\ ~active[id].deleted
          /\ active[id].info \in {config[id], [config[id] EXCEPT !.warn = FALSE]}
  BY <1>5, <1>6 DEF Ids
<1>10. \A id \in Ids(trash) : config[id] = None
  BY <1>5, <1>6 DEF IInv, DirectoryInv, Ids
<1>11. doc = Rendered(config)
  <2>1. \A id \in Id : /\ Target(id) = None <=> config[id] = None
                       /\ Target(id) # None => config[id].name = Target(id).name
    BY <1>5, <1>6
  <2>2. doc = Rendered(journal.config)
    BY <1>1 DEF IInv, CommittedInv
  <2>q. QED
    BY <2>1, <2>2 DEF Rendered, Target
<1>12. \A id \in Ids(container) : config[id] # None /\ container[id].name = config[id].name
  BY <1>4, <1>6 DEF Agrees, Ids
<1>13. \A id \in Id : stage[id] = "none"
  <2>1. \A id \in Id : stage[id] # "none" => journal.source[id] = "staged" /\ active[id] = None
    BY DEF IInv, DirectoryInv
  <2>2. \A id \in Id : journal.source[id] = "staged" => Target(id) # None
    BY <1>1, NoneAssumption DEF IInv, JournalInv
  <2>q. QED
    BY <2>1, <2>2, <1>6
<1>q. QED
  BY <1>7, <1>8, <1>9, <1>10, <1>11, <1>12, <1>13 DEF Consistent

LEMMA FinishStep ==
    ASSUME IInv, Finish
    PROVE  IInv'
<1>1. /\ step = "runtime" /\ todo = {} /\ step' = "ready" /\ journal' = None
      /\ config' = config /\ secrets' = secrets /\ active' = active /\ trash' = trash
      /\ stage' = stage /\ doc' = doc /\ todo' = todo /\ run' = run /\ ops' = ops
      /\ container' = [id \in Id |-> IF container[id] = None THEN None
                                     ELSE [container[id] EXCEPT !.moved = FALSE]]
  BY DEF Finish, Turn, files
<1>2. Consistent /\ \A id \in Id : stage[id] = "none"
  BY <1>1, TransactionDone
<1>3. \A id \in Id : container[id] \in Container \cup {None}
  BY DEF IInv, TypeOK
<1>4. \A id \in Id : /\ container'[id] \in Container \cup {None}
                     /\ container'[id] # None => /\ container[id] # None
                                                 /\ container'[id].name = container[id].name
  BY <1>1, <1>3 DEF Container
<1>5. TypeOK'
  <2>1. container' \in [Id -> Container \cup {None}]
    BY <1>1, <1>4
  <2>q. QED
    BY <2>1, <1>1 DEF IInv, TypeOK, Step
<1>6. ~Pending' /\ ~Prepared' /\ ~Committed'
  BY <1>1 DEF Pending, Prepared, Committed
<1>7. JournalInv' /\ StepInv' /\ DirectoriesDone' /\ StateDone' /\ CommittedInv' /\ ContainerInv'
  BY <1>1, <1>6 DEF JournalInv, StepInv, DirectoriesDone, StateDone, CommittedInv, ContainerInv, Writing
<1>8. DirectoryInv'
  BY <1>1, <1>2, <1>6 DEF IInv, DirectoryInv
<1>9. AuditInv'
  <2>1. Consistent'
    BY <1>1, <1>2, <1>4 DEF Consistent, Ids, Rendered
  <2>q. QED
    BY <2>1, <1>6 DEF AuditInv, Untouched
<1>10. TokenInv'
  BY <1>1, <1>6 DEF IInv, TokenInv
<1>q. QED
  BY <1>5, <1>7, <1>8, <1>9, <1>10 DEF IInv

-----------------------------------------------------------------------------
(* Commands without a journal.                                             *)

LEMMA SetStorageStep ==
    ASSUME IInv, NEW id \in Id, SetStorage(id)
    PROVE  IInv'
<1>1. /\ step = "ready" /\ config[id] # None /\ config' = [config EXCEPT ![id].warn = TRUE]
      /\ secrets' = secrets /\ active' = active /\ trash' = trash /\ stage' = stage
      /\ doc' = doc /\ container' = container /\ journal' = journal
      /\ step' = step /\ todo' = todo /\ run' = run /\ ops' = ops
  BY DEF SetStorage, progress
<1>2. ~Pending \/ (Committed /\ Pending /\ ~run)
  BY <1>1 DEF IInv, StepInv, Committed
<1>3. config \in [Id -> Info \cup {None}] /\ config[id] \in Info
  BY <1>1 DEF IInv, TypeOK
<1>4. /\ config' \in [Id -> Info \cup {None}]
      /\ config'[id] = [config[id] EXCEPT !.warn = TRUE]
      /\ config'[id] \in Info /\ config'[id].name = config[id].name
      /\ \A d \in Id \ {id} : config'[d] = config[d]
  <2>1. [config[id] EXCEPT !.warn = TRUE] \in Info /\ [config[id] EXCEPT !.warn = TRUE].name = config[id].name
    BY <1>3 DEF Info
  <2>2. config' = [config EXCEPT ![id] = [config[id] EXCEPT !.warn = TRUE]]
    BY <1>1, <1>3
  <2>q. QED
    BY <2>1, <2>2, <1>3
<1>5. config'[id] # None
  BY <1>4, NoneAssumption
<1>6. TypeOK'
  BY <1>1, <1>4 DEF IInv, TypeOK
<1>7. JournalInv' /\ TokenInv' /\ ContainerInv'
  BY <1>1 DEF IInv, JournalInv, Pending, Target, TokenInv, Prepared, ContainerInv, Agrees, WorkIds
<1>8. DirectoryInv'
  BY <1>1 DEF IInv, DirectoryInv, Pending, Needed, Target
<1>9. StepInv' /\ DirectoriesDone' /\ StateDone'
  BY <1>1, <1>2 DEF StepInv, Committed, Pending, Writing, DirectoriesDone, StateDone
<1>10. CommittedInv'
  <2>1. CASE ~Pending
    BY <2>1, <1>1 DEF CommittedInv, Committed, Pending
  <2>2. CASE Committed /\ Pending
    <3>1. CommittedInv /\ journal \in Transaction
      BY <2>2 DEF IInv, TypeOK, Pending
    <3>2. Target(id) # None /\ config[id] \in {Target(id), [Target(id) EXCEPT !.warn = TRUE]}
      BY <2>2, <3>1, <1>1 DEF CommittedInv
    <3>3. Target(id) \in Info
      BY <3>1, <3>2 DEF Target, Transaction
    <3>4. config'[id] = [Target(id) EXCEPT !.warn = TRUE]
      BY <3>2, <3>3, <1>4 DEF Info
    <3>q. QED
      BY <2>2, <3>1, <3>2, <3>4, <1>1, <1>4 DEF CommittedInv, Target, Placed, Rendered
  <2>q. QED
    BY <2>1, <2>2, <1>2
<1>11. AuditInv'
  <2>1. CASE ~Pending
    <3>1. Consistent
      BY <2>1 DEF IInv, AuditInv
    <3>2. Ids(config)' = Ids(config) /\ Rendered(config)' = Rendered(config)
      BY <1>1, <1>4, <1>5 DEF Ids, Rendered
    <3>3. active[id].info \in {config'[id], [config'[id] EXCEPT !.warn = FALSE]}
      <4>1. active[id].info \in {config[id], [config[id] EXCEPT !.warn = FALSE]}
        BY <3>1, <1>1 DEF Consistent, Ids
      <4>2. config[id] = [config[id] EXCEPT !.warn = FALSE] \/ config[id] = config'[id]
        BY <1>3, <1>4 DEF Info
      <4>3. [config'[id] EXCEPT !.warn = FALSE] = [config[id] EXCEPT !.warn = FALSE]
        BY <1>3, <1>4 DEF Info
      <4>q. QED
        BY <4>1, <4>2, <4>3
    <3>4. Consistent'
      BY <3>1, <3>2, <3>3, <1>1, <1>4, <1>5 DEF Consistent, Ids
    <3>q. QED
      BY <3>4, <2>1, <1>1 DEF AuditInv, Untouched, Prepared, Pending
  <2>2. CASE Committed
    BY <2>2, <1>1 DEF AuditInv, Untouched, Prepared, Committed, Pending
  <2>q. QED
    BY <2>1, <2>2, <1>2
<1>q. QED
  BY <1>6, <1>7, <1>8, <1>9, <1>10, <1>11 DEF IInv

LEMMA PurgeStep ==
    ASSUME IInv, NEW id \in Id, Purge(id)
    PROVE  IInv'
<1>1. /\ step = "ready" /\ run /\ trash' = With(trash, id, None)
      /\ config' = config /\ secrets' = secrets /\ active' = active /\ stage' = stage
      /\ doc' = doc /\ container' = container /\ journal' = journal
      /\ step' = step /\ todo' = todo /\ run' = run /\ ops' = ops
  BY DEF Purge, progress
<1>2. ~Pending /\ ~Pending' /\ ~Prepared' /\ ~Committed'
  BY <1>1 DEF IInv, StepInv, Pending, Prepared, Committed
<1>3. trash \in [Id -> Metadata \cup {None}]
  BY DEF IInv, TypeOK
<1>4. /\ trash' \in [Id -> Metadata \cup {None}]
      /\ \A d \in Id : trash'[d] # None => trash'[d] = trash[d]
  BY <1>1, <1>3 DEF With
<1>5. TypeOK'
  BY <1>1, <1>4 DEF IInv, TypeOK
<1>6. /\ JournalInv' /\ StepInv' /\ DirectoriesDone' /\ StateDone' /\ CommittedInv' /\ ContainerInv'
      /\ TokenInv'
  BY <1>1, <1>2 DEF IInv, JournalInv, StepInv, DirectoriesDone, StateDone, CommittedInv,
                    ContainerInv, TokenInv, Writing
<1>7. DirectoryInv'
  BY <1>1, <1>2, <1>4 DEF IInv, DirectoryInv
<1>8. AuditInv'
  <2>1. Consistent
    BY <1>2 DEF IInv, AuditInv
  <2>2. Consistent'
    BY <2>1, <1>1, <1>4 DEF Consistent, Ids, Rendered
  <2>q. QED
    BY <2>2, <1>2 DEF AuditInv, Untouched
<1>q. QED
  BY <1>5, <1>6, <1>7, <1>8 DEF IInv

LEMMA StartComputerStep ==
    ASSUME IInv, NEW id \in Id, StartComputer(id)
    PROVE  IInv'
<1>1. /\ step = "ready" /\ run /\ config[id] # None /\ doc' = Rendered(config)
      /\ config' = config /\ secrets' = secrets /\ active' = active /\ trash' = trash
      /\ stage' = stage /\ journal' = journal
      /\ step' = step /\ todo' = todo /\ run' = run /\ ops' = ops
      /\ container' = With(container, id,
            IF container[id] = None
            THEN [name |-> config[id].name, running |-> TRUE, ref |-> ops, moved |-> FALSE]
            ELSE [container[id] EXCEPT !.running = TRUE])
  BY DEF StartComputer, progress, files
<1>2. ~Pending /\ ~Pending' /\ ~Prepared' /\ ~Committed'
  BY <1>1 DEF IInv, StepInv, Pending, Prepared, Committed
<1>3. Consistent
  BY <1>2 DEF IInv, AuditInv
<1>4. doc' = doc
  BY <1>1, <1>3 DEF Consistent
<1>5. /\ container \in [Id -> Container \cup {None}] /\ config[id] \in Info /\ ops \in 0..MaxOps
  BY <1>1 DEF IInv, TypeOK
<1>6. container[id] # None => container[id] \in Container /\ container[id].name = config[id].name
  BY <1>3, <1>5 DEF Consistent, Ids
<1>7. PICK v \in Container : container' = With(container, id, v) /\ v.name = config[id].name
  <2>1. CASE container[id] = None
    <3>1. [name |-> config[id].name, running |-> TRUE, ref |-> ops, moved |-> FALSE] \in Container
      BY <1>5 DEF Container, Info
    <3>q. QED
      BY <2>1, <3>1, <1>1
  <2>2. CASE container[id] # None
    <3>1. [container[id] EXCEPT !.running = TRUE] \in Container
      BY <2>2, <1>6 DEF Container
    <3>2. [container[id] EXCEPT !.running = TRUE].name = config[id].name
      BY <2>2, <1>6 DEF Container
    <3>q. QED
      BY <2>2, <3>1, <3>2, <1>1
  <2>q. QED
    BY <2>1, <2>2
<1>8. /\ container' \in [Id -> Container \cup {None}]
      /\ container'[id].name = config[id].name
      /\ \A d \in Id \ {id} : container'[d] = container[d]
  BY <1>5, <1>7 DEF With
<1>9. TypeOK'
  BY <1>1, <1>4, <1>8 DEF IInv, TypeOK
<1>10. /\ JournalInv' /\ StepInv' /\ DirectoriesDone' /\ StateDone' /\ CommittedInv' /\ ContainerInv'
       /\ TokenInv'
  BY <1>1, <1>2 DEF IInv, JournalInv, StepInv, DirectoriesDone, StateDone, CommittedInv,
                    ContainerInv, TokenInv, Writing
<1>11. DirectoryInv'
  BY <1>1, <1>2 DEF IInv, DirectoryInv
<1>12. AuditInv'
  <2>1. Consistent'
    BY <1>1, <1>3, <1>4, <1>8 DEF Consistent, Ids, Rendered
  <2>q. QED
    BY <2>1, <1>2 DEF AuditInv, Untouched
<1>q. QED
  BY <1>9, <1>10, <1>11, <1>12 DEF IInv

-----------------------------------------------------------------------------
(* Commands that begin a transaction.                                      *)

\* The journal of a command, where new are the computers whose directory comes
\* from elsewhere (source).
Prepares(target, tokens, new, source, dropped, work, binding) ==
    /\ step = "ready" /\ journal = None /\ ops < MaxOps /\ ops' = ops + 1 /\ run' = TRUE
    /\ UNCHANGED <<files, doc, container, todo>>
    /\ journal' = [phase |-> "prepared", config |-> target, secrets |-> tokens,
                   source |-> [id \in Id |-> IF target[id] = None THEN None
                                             ELSE IF id \in new THEN source ELSE "active"],
                   trash |-> dropped, work |-> work, binding |-> binding]

\* What it has to say of a computer.
Sound(id, target, tokens, new, source, dropped, work) ==
    /\ tokens[id] # None <=> target[id] # None
    /\ tokens[id] \in {secrets[id], None, ops + 1}
    /\ dropped[id] # None => target[id] = None /\ config[id] # None
    /\ target[id] = None /\ dropped[id] = None => config[id] = None
    /\ IF target[id] = None THEN work[id] \in {"none", "remove"} ELSE work[id] # "remove"
    /\ target[id] # None /\ id \notin new => config[id] # None
    /\ work[id] \in {"none", "images"} /\ container[id] # None =>
           target[id] # None /\ container[id].name = target[id].name
    /\ id \in new => CASE source \in {"create", "staged"} -> trash[id] = None
                       [] source = "trash" -> trash[id] # None /\ trash[id].info = target[id]

\* The journal of a restore, which has nothing but the new computer.
Alone(target, tokens, new, dropped) ==
    \A id \in new :
        /\ new = {id} /\ config[id] = None
        /\ target = With(config, id, target[id]) /\ tokens = With(secrets, id, ops + 1)
        /\ dropped = Empty /\ NameFree(target[id].name, id)

LEMMA PrepareStep ==
    ASSUME IInv,
           NEW target \in [Id -> Info \cup {None}], NEW tokens \in [Id -> Nat \cup {None}],
           NEW new \in SUBSET Id, NEW source \in {"create", "trash", "staged"},
           NEW dropped \in [Id -> Info \cup {None}],
           NEW work \in [Id -> Work], NEW binding \in [Id -> 0..MaxOps \cup {None}],
           Prepares(target, tokens, new, source, dropped, work, binding),
           \A id \in Id : Sound(id, target, tokens, new, source, dropped, work),
           source = "staged" => Alone(target, tokens, new, dropped),
           \/ step' = "recover"
           \/ step' = "staging" /\ source = "staged" /\ \E id \in new : active[id] = None /\ target[id] # None
    PROVE  IInv'
<1>1. /\ config' = config /\ secrets' = secrets /\ active' = active /\ trash' = trash
      /\ stage' = stage /\ doc' = doc /\ container' = container /\ todo' = todo
      /\ step = "ready" /\ journal = None /\ ops < MaxOps /\ ops' = ops + 1 /\ run' = TRUE
  BY DEF files, Prepares
<1>2. ~Pending /\ Consistent
  BY <1>1 DEF IInv, AuditInv, Pending
<1>3. journal' = [phase |-> "prepared", config |-> target, secrets |-> tokens,
                  source |-> [id \in Id |-> IF target[id] = None THEN None
                                            ELSE IF id \in new THEN source ELSE "active"],
                  trash |-> dropped, work |-> work, binding |-> binding]
  BY DEF Prepares
<1>4. /\ journal'.phase = "prepared" /\ journal'.config = target /\ journal'.secrets = tokens
      /\ journal'.trash = dropped /\ journal'.work = work /\ journal'.binding = binding
      /\ \A id \in Id : journal'.source[id] = IF target[id] = None THEN None
                                              ELSE IF id \in new THEN source ELSE "active"
  BY <1>3
<1>5. ops \in Nat /\ MaxOps \in Nat
  BY TransactionAssumption DEF IInv, TypeOK
<1>6. \A id \in Id : /\ tokens[id] # None <=> target[id] # None
                     /\ tokens[id] \in {secrets[id], None, ops + 1}
                     /\ dropped[id] # None => target[id] = None
                     /\ IF target[id] = None THEN work[id] \in {"none", "remove"} ELSE work[id] # "remove"
  BY DEF Sound
<1>7. ASSUME NEW id \in Id
      PROVE  secrets[id] \in 1..ops \cup {None} /\ tokens[id] \in 1..(ops + 1) \cup {None}
  <2>1. secrets[id] \in 1..ops \cup {None}
    BY DEF IInv, TokenInv
  <2>2. tokens[id] \in {secrets[id], None, ops + 1}
    BY <1>6
  <2>q. QED
    BY <2>1, <2>2, <1>5
<1>8. journal' \in Transaction
  <2>1. tokens \in [Id -> Token \cup {None}]
    BY <1>1, <1>5, <1>7 DEF Token
  <2>2. journal'.source \in [Id -> {"active", "create", "trash", "staged", None}]
    BY <1>3
  <2>q. QED
    BY <2>1, <2>2, <1>3 DEF Transaction
<1>9. Pending' /\ Prepared' /\ ~Committed'
  BY <1>4, <1>8, NoneAssumption DEF Pending, Prepared, Committed
<1>10. \A id \in Id : Target(id)' = target[id]
  BY <1>4 DEF Target
<1>11. TypeOK'
  <2>1. /\ step' \in Step /\ journal' # None
    BY <1>9 DEF Step, Pending
  <2>2. ops' \in 0..MaxOps
    BY <1>1, <1>5
  <2>q. QED
    BY <1>1, <1>8, <2>1, <2>2 DEF IInv, TypeOK
<1>12. JournalInv'
  <2>1. ASSUME NEW id \in Id
        PROVE  /\ journal'.secrets[id] # None <=> target[id] # None
               /\ journal'.source[id] # None <=> target[id] # None
               /\ journal'.trash[id] # None => target[id] = None
               /\ IF target[id] = None THEN journal'.work[id] \in {"none", "remove"}
                                       ELSE journal'.work[id] # "remove"
    <3>1. /\ tokens[id] # None <=> target[id] # None
          /\ dropped[id] # None => target[id] = None
          /\ IF target[id] = None THEN work[id] \in {"none", "remove"} ELSE work[id] # "remove"
      BY <1>6
    <3>2. journal'.source[id] = IF target[id] = None THEN None ELSE IF id \in new THEN source ELSE "active"
      BY <1>4
    <3>q. QED
      BY <3>1, <3>2, <1>4, NoneAssumption
  <2>q. QED
    BY <2>1, <1>10 DEF JournalInv
<1>13. DirectoryInv'
  <2>1. /\ \A id \in Id : active[id] # None <=> config[id] # None
        /\ \A id \in Id : trash[id] # None => config[id] = None
    BY <1>2 DEF Consistent, Ids
  <2>2. ASSUME NEW id \in Id PROVE Needed(id)'
    <3>1. Sound(id, target, tokens, new, source, dropped, work)
      OBVIOUS
    <3>q. QED
      BY <2>1, <3>1, <1>1, <1>4, <1>10, NoneAssumption DEF Needed, Sound
  <2>3. \A id \in Id : stage[id] = "none"
    BY <1>2 DEF IInv, DirectoryInv
  <2>q. QED
    BY <2>2, <2>3, <1>1 DEF IInv, DirectoryInv
<1>14. step' = "staging" => Incomplete'
  BY <1>1, <1>2, <1>4 DEF Incomplete, IInv, DirectoryInv
<1>15. StepInv' /\ DirectoriesDone' /\ StateDone' /\ CommittedInv'
  BY <1>9, <1>14 DEF StepInv, DirectoriesDone, StateDone, CommittedInv, Writing
<1>16. ContainerInv'
  BY <1>1, <1>4, <1>10 DEF ContainerInv, Agrees, Sound
<1>17. AuditInv'
  <2>1. Consistent'
    BY <1>1, <1>2 DEF Consistent, Ids, Rendered
  <2>2. Untouched'
    <3>1. SUFFICES ASSUME NEW id \in Id, journal'.source[id] = "staged"
                   PROVE  /\ config'[id] = None /\ trash'[id] = None
                          /\ journal'.config = With(config, id, Target(id))'
                          /\ journal'.secrets = With(secrets, id, ops)'
                          /\ journal'.trash = Empty
                          /\ NameFree(Target(id).name, id)'
                          /\ \A d \in Id : secrets'[d] # ops' /\ (journal'.source[d] = "staged" => d = id)
      BY DEF Untouched
    <3>2. id \in new /\ source = "staged"
      BY <3>1, <1>4, NoneAssumption
    <3>3. /\ new = {id} /\ config[id] = None /\ trash[id] = None
          /\ target = With(config, id, target[id]) /\ tokens = With(secrets, id, ops + 1)
          /\ dropped = Empty /\ NameFree(target[id].name, id)
      BY <3>2 DEF Alone, Sound
    <3>4. \A d \in Id : secrets'[d] # ops'
      BY <1>1, <1>5, <1>7, NoneAssumption, TransactionAssumption DEF Token
    <3>5. \A d \in Id : journal'.source[d] = "staged" => d = id
      BY <3>3, <1>4, NoneAssumption
    <3>6. NameFree(Target(id).name, id)'
      BY <3>3, <1>1, <1>10 DEF NameFree, Ids
    <3>7. journal'.config = With(config, id, Target(id))' /\ journal'.secrets = With(secrets, id, ops)'
      BY <3>3, <1>1, <1>4, <1>10 DEF With
    <3>q. QED
      BY <3>3, <3>4, <3>5, <3>6, <3>7, <1>1, <1>4
  <2>q. QED
    BY <2>1, <2>2, <1>9 DEF AuditInv
<1>18. TokenInv'
  <2>1. ops' = ops + 1 /\ secrets' = secrets /\ journal'.secrets = tokens
    BY <1>1, <1>4
  <2>2. 1..ops \subseteq 1..(ops + 1)
    BY <1>5
  <2>3. ASSUME NEW id \in Id
        PROVE  /\ secrets[id] \in 1..(ops + 1) \cup {None}
               /\ tokens[id] \in 1..(ops + 1) \cup {None}
               /\ tokens[id] \in {secrets[id], None, ops + 1}
    <3>1. secrets[id] \in 1..ops \cup {None} /\ tokens[id] \in 1..(ops + 1) \cup {None}
      BY <1>7
    <3>2. tokens[id] \in {secrets[id], None, ops + 1}
      BY <1>6
    <3>q. QED
      BY <3>1, <3>2, <2>2
  <2>q. QED
    BY <2>1, <2>3 DEF TokenInv
<1>q. QED
  BY <1>11, <1>12, <1>13, <1>15, <1>16, <1>17, <1>18 DEF IInv

\* What a command finds that begins a transaction.
LEMMA Nothing ==
    ASSUME IInv, journal = None, ops < MaxOps
    PROVE  /\ \A id \in Id :
                  /\ config[id] # None <=> active[id] # None
                  /\ config[id] # None <=> secrets[id] # None
                  /\ trash[id] # None => config[id] = None
                  /\ container[id] # None => config[id] # None /\ container[id].name = config[id].name
           /\ \A id \in Id : trash[id] # None => trash[id].info \in Info /\ trash[id].info # None
           /\ config \in [Id -> Info \cup {None}] /\ secrets \in [Id -> Token \cup {None}]
           /\ container \in [Id -> Container \cup {None}]
           /\ ops + 1 # None
<1>1. Consistent
  BY DEF IInv, AuditInv, Pending
<1>2. \A id \in Id : /\ config[id] # None <=> active[id] # None
                     /\ config[id] # None <=> secrets[id] # None
                     /\ trash[id] # None => config[id] = None
                     /\ container[id] # None => config[id] # None /\ container[id].name = config[id].name
  BY <1>1 DEF Consistent, Ids
<1>3. /\ config \in [Id -> Info \cup {None}] /\ secrets \in [Id -> Token \cup {None}]
      /\ container \in [Id -> Container \cup {None}]
      /\ trash \in [Id -> Metadata \cup {None}] /\ ops \in 0..MaxOps
  BY DEF IInv, TypeOK
<1>4. \A id \in Id : trash[id] # None => trash[id].info \in Info /\ trash[id].info # None
  BY <1>3 DEF IInv, DirectoryInv, Metadata
<1>5. ops + 1 # None
  BY <1>3, NoneAssumption, TransactionAssumption DEF Token
<1>q. QED
  BY <1>2, <1>3, <1>4, <1>5

LEMMA TokenType ==
    ASSUME IInv, ops < MaxOps, NEW id \in Id
    PROVE  /\ With(secrets, id, ops + 1) \in [Id -> Nat \cup {None}]
           /\ With(secrets, id, None) \in [Id -> Nat \cup {None}]
           /\ secrets \in [Id -> Nat \cup {None}]
<1>1. ops + 1 \in Nat /\ secrets \in [Id -> Nat \cup {None}]
  BY TransactionAssumption DEF IInv, TypeOK, Token
<1>q. QED
  BY <1>1 DEF With

LEMMA CreateStep ==
    ASSUME IInv, NEW id \in Id, NEW n \in Name, NEW start \in BOOLEAN, Create(id, n, start)
    PROVE  IInv'
<1> DEFINE target == With(config, id, [name |-> n, warn |-> FALSE])
           tokens == With(secrets, id, ops + 1)
           work == IF start THEN With(NoWork, id, "start") ELSE NoWork
<1>1. /\ config[id] = None /\ trash[id] = None /\ container[id] = None
      /\ journal = None /\ ops < MaxOps /\ step' = "recover"
  BY DEF Create, Prepare, Fresh
<1>2. Prepares(target, tokens, {id}, "create", Empty, work, Empty)
  BY DEF Create, Prepare, Prepares
<1>3. [name |-> n, warn |-> FALSE] \in Info
  BY DEF Info
<1>4. [name |-> n, warn |-> FALSE] # None
  BY <1>3, NoneAssumption
<1>5. /\ target \in [Id -> Info \cup {None}] /\ target[id] # None
      /\ \A d \in Id \ {id} : target[d] = config[d]
  BY <1>1, <1>3, <1>4, Nothing DEF With
<1>6. /\ tokens \in [Id -> Nat \cup {None}] /\ tokens[id] = ops + 1
      /\ \A d \in Id \ {id} : tokens[d] = secrets[d]
  <2>1. tokens \in [Id -> Nat \cup {None}]
    BY <1>1, TokenType
  <2>q. QED
    BY <2>1, <1>1, Nothing DEF With
<1>7. /\ work \in [Id -> Work] /\ work[id] \in {"none", "start"}
      /\ \A d \in Id \ {id} : work[d] = "none"
  BY DEF With, NoWork, Work
<1>8. /\ Empty \in [Id -> Info \cup {None}] /\ Empty \in [Id -> 0..MaxOps \cup {None}]
      /\ \A d \in Id : Empty[d] = None
  BY DEF Empty
<1> HIDE DEF target, tokens, work
<1>9. ASSUME NEW d \in Id
      PROVE  Sound(d, target, tokens, {id}, "create", Empty, work)
  <2>1. CASE d = id
    BY <2>1, <1>1, <1>5, <1>6, <1>7, <1>8, Nothing DEF Sound
  <2>2. CASE d # id
    BY <2>2, <1>1, <1>5, <1>6, <1>7, <1>8, Nothing DEF Sound
  <2>q. QED
    BY <2>1, <2>2
<1>q. QED
  BY <1>1, <1>2, <1>5, <1>6, <1>7, <1>8, <1>9, PrepareStep

LEMMA EmptyType ==
    /\ Empty \in [Id -> Info \cup {None}] /\ Empty \in [Id -> 0..MaxOps \cup {None}]
    /\ \A d \in Id : Empty[d] = None
BY DEF Empty

LEMMA RenameStep ==
    ASSUME IInv, NEW id \in Id, NEW n \in Name, Rename(id, n)
    PROVE  IInv'
<1> DEFINE target == [config EXCEPT ![id].name = n]
           work == With(NoWork, id, IF container[id] = None THEN "none"
                                    ELSE IF container[id].running THEN "replaceRunning"
                                    ELSE "replaceStopped")
           binding == IF container[id] = None THEN Empty ELSE With(Empty, id, container[id].ref)
<1>1. config[id] # None /\ journal = None /\ ops < MaxOps /\ step' = "recover"
  BY DEF Rename, Prepare
<1>2. Prepares(target, secrets, {}, "create", Empty, work, binding)
  BY DEF Rename, Prepare, Prepares
<1>3. config[id] \in Info /\ [config[id] EXCEPT !.name = n] \in Info
  BY <1>1, Nothing DEF Info
<1>4. /\ target \in [Id -> Info \cup {None}] /\ target[id] # None
      /\ \A d \in Id \ {id} : target[d] = config[d]
  <2>1. target = [config EXCEPT ![id] = [config[id] EXCEPT !.name = n]]
    BY <1>1, Nothing
  <2>2. [config[id] EXCEPT !.name = n] # None
    BY <1>3, NoneAssumption
  <2>q. QED
    BY <2>1, <2>2, <1>1, <1>3, Nothing
<1>5. secrets \in [Id -> Nat \cup {None}]
  BY <1>1, TokenType
<1>6. /\ work \in [Id -> Work] /\ work[id] # "remove"
      /\ work[id] \in {"none", "images"} => container[id] = None
      /\ \A d \in Id \ {id} : work[d] = "none"
  BY DEF With, NoWork, Work, Replacing
<1>7. binding \in [Id -> 0..MaxOps \cup {None}]
  <2>1. container[id] # None => container[id].ref \in 0..MaxOps
    BY <1>1, Nothing DEF Container
  <2>q. QED
    BY <2>1, EmptyType DEF With
<1> HIDE DEF target, work, binding
<1>8. ASSUME NEW d \in Id
      PROVE  Sound(d, target, secrets, {}, "create", Empty, work)
  <2>1. CASE d = id
    BY <2>1, <1>1, <1>4, <1>6, EmptyType, Nothing DEF Sound
  <2>2. CASE d # id
    BY <2>2, <1>1, <1>4, <1>6, EmptyType, Nothing DEF Sound
  <2>q. QED
    BY <2>1, <2>2
<1>q. QED
  BY <1>1, <1>2, <1>4, <1>5, <1>6, <1>7, <1>8, EmptyType, PrepareStep

LEMMA DeleteStep ==
    ASSUME IInv, NEW id \in Id, Delete(id)
    PROVE  IInv'
<1> DEFINE target == With(config, id, None)
           tokens == With(secrets, id, None)
           dropped == With(Empty, id, config[id])
           work == With(NoWork, id, "remove")
<1>1. config[id] # None /\ journal = None /\ ops < MaxOps /\ step' = "recover"
  BY DEF Delete, Prepare
<1>2. Prepares(target, tokens, {}, "create", dropped, work, Empty)
  BY DEF Delete, Prepare, Prepares
<1>3. config[id] \in Info
  BY <1>1, Nothing
<1>4. /\ target \in [Id -> Info \cup {None}] /\ target[id] = None
      /\ \A d \in Id \ {id} : target[d] = config[d]
  BY <1>1, Nothing DEF With
<1>5. /\ tokens \in [Id -> Nat \cup {None}] /\ tokens[id] = None
      /\ \A d \in Id \ {id} : tokens[d] = secrets[d]
  <2>1. tokens \in [Id -> Nat \cup {None}]
    BY <1>1, TokenType
  <2>q. QED
    BY <2>1, <1>1, Nothing DEF With
<1>6. /\ dropped \in [Id -> Info \cup {None}] /\ dropped[id] = config[id]
      /\ \A d \in Id \ {id} : dropped[d] = None
  BY <1>3, EmptyType DEF With
<1>7. /\ work \in [Id -> Work] /\ work[id] = "remove"
      /\ \A d \in Id \ {id} : work[d] = "none"
  BY DEF With, NoWork, Work
<1> HIDE DEF target, tokens, dropped, work
<1>8. ASSUME NEW d \in Id
      PROVE  Sound(d, target, tokens, {}, "create", dropped, work)
  <2>1. CASE d = id
    BY <2>1, <1>1, <1>4, <1>5, <1>6, <1>7, Nothing DEF Sound
  <2>2. CASE d # id
    BY <2>2, <1>1, <1>4, <1>5, <1>6, <1>7, Nothing DEF Sound
  <2>q. QED
    BY <2>1, <2>2
<1>q. QED
  BY <1>1, <1>2, <1>4, <1>5, <1>6, <1>7, <1>8, EmptyType, PrepareStep

LEMMA RestoreStep ==
    ASSUME IInv, NEW id \in Id, Restore(id)
    PROVE  IInv'
<1> DEFINE target == With(config, id, trash[id].info)
           tokens == With(secrets, id, ops + 1)
           work == With(NoWork, id, "start")
<1>1. trash[id] # None /\ journal = None /\ ops < MaxOps /\ step' = "recover"
  BY DEF Restore, Prepare
<1>2. Prepares(target, tokens, {id}, "trash", Empty, work, Empty)
  BY DEF Restore, Prepare, Prepares
<1>3. trash[id].info \in Info /\ trash[id].info # None
  BY <1>1, Nothing
<1>4. /\ target \in [Id -> Info \cup {None}] /\ target[id] = trash[id].info /\ target[id] # None
      /\ \A d \in Id \ {id} : target[d] = config[d]
  BY <1>1, <1>3, Nothing DEF With
<1>5. /\ tokens \in [Id -> Nat \cup {None}] /\ tokens[id] = ops + 1
      /\ \A d \in Id \ {id} : tokens[d] = secrets[d]
  <2>1. tokens \in [Id -> Nat \cup {None}]
    BY <1>1, TokenType
  <2>q. QED
    BY <2>1, <1>1, Nothing DEF With
<1>6. /\ work \in [Id -> Work] /\ work[id] = "start"
      /\ \A d \in Id \ {id} : work[d] = "none"
  BY DEF With, NoWork, Work
<1> HIDE DEF target, tokens, work
<1>7. ASSUME NEW d \in Id
      PROVE  Sound(d, target, tokens, {id}, "trash", Empty, work)
  <2>1. CASE d = id
    BY <2>1, <1>1, <1>4, <1>5, <1>6, EmptyType, Nothing DEF Sound
  <2>2. CASE d # id
    BY <2>2, <1>1, <1>4, <1>5, <1>6, EmptyType, Nothing DEF Sound
  <2>q. QED
    BY <2>1, <2>2
<1>q. QED
  BY <1>1, <1>2, <1>4, <1>5, <1>6, <1>7, EmptyType, PrepareStep

LEMMA ApplyStep ==
    ASSUME IInv, NEW id \in Id, NEW n \in Name, NEW gone \in Id \ {id}, Apply(id, n, gone)
    PROVE  IInv'
<1> DEFINE target == [config EXCEPT ![id] = [name |-> n, warn |-> FALSE], ![gone] = None]
           tokens == [secrets EXCEPT ![id] = ops + 1, ![gone] = None]
           dropped == With(Empty, gone, config[gone])
           work == [d \in Id |-> IF d = gone THEN "remove" ELSE IF target[d] # None THEN "start" ELSE "none"]
<1>1. /\ config[id] = None /\ trash[id] = None /\ config[gone] # None
      /\ journal = None /\ ops < MaxOps /\ step' = "recover"
  BY DEF Apply, Prepare, Fresh
<1>2. Prepares(target, tokens, {id}, "create", dropped, work, Empty)
  BY DEF Apply, Prepare, Prepares
<1>3. [name |-> n, warn |-> FALSE] \in Info /\ config[gone] \in Info
  BY <1>1, Nothing DEF Info
<1>4. [name |-> n, warn |-> FALSE] # None
  BY <1>3, NoneAssumption
<1>5. /\ target \in [Id -> Info \cup {None}] /\ target[id] # None /\ target[gone] = None
      /\ \A d \in Id \ {id, gone} : target[d] = config[d]
  BY <1>1, <1>3, <1>4, Nothing
<1>6. /\ tokens \in [Id -> Nat \cup {None}] /\ tokens[id] = ops + 1 /\ tokens[gone] = None
      /\ \A d \in Id \ {id, gone} : tokens[d] = secrets[d]
  <2>1. secrets \in [Id -> Nat \cup {None}] /\ ops + 1 \in Nat
    BY <1>1, TokenType, TransactionAssumption DEF IInv, TypeOK
  <2>q. QED
    BY <2>1
<1>7. /\ dropped \in [Id -> Info \cup {None}] /\ dropped[gone] = config[gone]
      /\ \A d \in Id \ {gone} : dropped[d] = None
  BY <1>3, EmptyType DEF With
<1> HIDE DEF target, tokens, dropped
<1>8. /\ work \in [Id -> Work] /\ work[gone] = "remove"
      /\ \A d \in Id \ {gone} : work[d] = IF target[d] # None THEN "start" ELSE "none"
  BY DEF Work
<1> HIDE DEF work
<1>9. ASSUME NEW d \in Id
      PROVE  Sound(d, target, tokens, {id}, "create", dropped, work)
  <2>1. CASE d = id
    BY <2>1, <1>1, <1>5, <1>6, <1>7, <1>8, Nothing DEF Sound
  <2>2. CASE d = gone
    BY <2>2, <1>1, <1>5, <1>6, <1>7, <1>8, Nothing DEF Sound
  <2>3. CASE d \notin {id, gone}
    BY <2>3, <1>1, <1>5, <1>6, <1>7, <1>8, Nothing DEF Sound
  <2>q. QED
    BY <2>1, <2>2, <2>3
<1>q. QED
  BY <1>1, <1>2, <1>5, <1>6, <1>7, <1>8, <1>9, EmptyType, PrepareStep

LEMMA BackupRestoreStep ==
    ASSUME IInv, NEW id \in Id, NEW n \in Name, NEW start \in BOOLEAN, BackupRestore(id, n, start)
    PROVE  IInv'
<1> DEFINE target == With(config, id, [name |-> n, warn |-> FALSE])
           tokens == With(secrets, id, ops + 1)
           work == With(NoWork, id, IF start THEN "start" ELSE "images")
<1>1. /\ config[id] = None /\ active[id] = None /\ trash[id] = None /\ container[id] = None
      /\ journal = None /\ ops < MaxOps /\ step' = "staging" /\ NameFree(n, id)
  BY DEF BackupRestore, Prepare, Fresh
<1>2. Prepares(target, tokens, {id}, "staged", Empty, work, Empty)
  BY DEF BackupRestore, Prepare, Prepares
<1>3. [name |-> n, warn |-> FALSE] \in Info
  BY DEF Info
<1>4. [name |-> n, warn |-> FALSE] # None
  BY <1>3, NoneAssumption
<1>5. /\ target \in [Id -> Info \cup {None}] /\ target[id] = [name |-> n, warn |-> FALSE]
      /\ \A d \in Id \ {id} : target[d] = config[d]
  BY <1>1, <1>3, <1>4, Nothing DEF With
<1>6. /\ tokens \in [Id -> Nat \cup {None}] /\ tokens[id] = ops + 1
      /\ \A d \in Id \ {id} : tokens[d] = secrets[d]
  <2>1. tokens \in [Id -> Nat \cup {None}]
    BY <1>1, TokenType
  <2>q. QED
    BY <2>1, <1>1, Nothing DEF With
<1>7. /\ work \in [Id -> Work] /\ work[id] \in {"start", "images"}
      /\ \A d \in Id \ {id} : work[d] = "none"
  BY DEF With, NoWork, Work
<1>8. Alone(target, tokens, {id}, Empty)
  BY <1>1, <1>5 DEF Alone
<1> HIDE DEF target, tokens, work
<1>9. ASSUME NEW d \in Id
      PROVE  Sound(d, target, tokens, {id}, "staged", Empty, work)
  <2>1. CASE d = id
    BY <2>1, <1>1, <1>4, <1>5, <1>6, <1>7, EmptyType, Nothing DEF Sound
  <2>2. CASE d # id
    BY <2>2, <1>1, <1>4, <1>5, <1>6, <1>7, EmptyType, Nothing DEF Sound
  <2>q. QED
    BY <2>1, <2>2
<1>q. QED
  BY <1>1, <1>2, <1>4, <1>5, <1>6, <1>7, <1>8, <1>9, EmptyType, PrepareStep

-----------------------------------------------------------------------------
LEMMA InitInv ==
    ASSUME Init
    PROVE  IInv
<1>1. /\ config = Empty /\ secrets = Empty /\ active = Empty /\ trash = Empty
      /\ stage = [id \in Id |-> "none"] /\ doc = Empty /\ container = Empty
      /\ journal = None /\ step = "idle" /\ todo = {} /\ run = FALSE /\ ops = 0
  BY DEF Init
<1>2. TypeOK
  <2>1. /\ Empty \in [Id -> Info \cup {None}] /\ Empty \in [Id -> Token \cup {None}]
        /\ Empty \in [Id -> Metadata \cup {None}] /\ Empty \in [Id -> Name \cup {None}]
        /\ Empty \in [Id -> Container \cup {None}]
    BY DEF Empty
  <2>2. 0 \in 0..MaxOps /\ stage \in [Id -> {"none", "filling", "ready"}]
    BY <1>1, TransactionAssumption
  <2>q. QED
    BY <1>1, <2>1, <2>2 DEF TypeOK, Step
<1>3. ~Pending /\ ~Prepared /\ ~Committed
  BY <1>1 DEF Pending, Prepared, Committed
<1>4. JournalInv /\ StepInv /\ DirectoriesDone /\ StateDone /\ CommittedInv
  BY <1>1, <1>3 DEF JournalInv, StepInv, DirectoriesDone, StateDone, CommittedInv, Writing
<1>5. DirectoryInv /\ ContainerInv
  BY <1>1, <1>3 DEF DirectoryInv, ContainerInv, Empty
<1>6. Consistent
  BY <1>1 DEF Consistent, Ids, Rendered, Empty
<1>7. AuditInv /\ TokenInv
  BY <1>1, <1>3, <1>6 DEF AuditInv, TokenInv, Untouched, Empty
<1>q. QED
  BY <1>2, <1>4, <1>5, <1>7 DEF IInv

LEMMA OperationStep ==
    ASSUME IInv, Operation
    PROVE  IInv'
<1>1. PICK id \in Id :
        \/ Delete(id) \/ Restore(id) \/ Purge(id) \/ SetStorage(id)
        \/ StartComputer(id) \/ StopComputer(id)
        \/ \E n \in Name :
              \/ Rename(id, n)
              \/ \E start \in BOOLEAN : Create(id, n, start) \/ BackupRestore(id, n, start)
              \/ \E gone \in Id \ {id} : Apply(id, n, gone)
  BY DEF Operation
<1>2. CASE Delete(id) \/ Restore(id) \/ Purge(id)
  BY <1>2, DeleteStep, RestoreStep, PurgeStep
<1>3. CASE SetStorage(id) \/ StartComputer(id) \/ StopComputer(id)
  BY <1>3, SetStorageStep, StartComputerStep, RunningStep
<1>4. ASSUME NEW n \in Name,
             \/ Rename(id, n)
             \/ \E start \in BOOLEAN : Create(id, n, start) \/ BackupRestore(id, n, start)
             \/ \E gone \in Id \ {id} : Apply(id, n, gone)
      PROVE  IInv'
  <2>1. CASE Rename(id, n)
    BY <2>1, RenameStep
  <2>2. ASSUME NEW start \in BOOLEAN, Create(id, n, start) \/ BackupRestore(id, n, start)
        PROVE  IInv'
    BY <2>2, CreateStep, BackupRestoreStep
  <2>3. ASSUME NEW gone \in Id \ {id}, Apply(id, n, gone)
        PROVE  IInv'
    BY <2>3, ApplyStep
  <2>q. QED
    BY <1>4, <2>1, <2>2, <2>3
<1>q. QED
  BY <1>1, <1>2, <1>3, <1>4

LEMMA AdvanceStep ==
    ASSUME IInv, Advance
    PROVE  IInv'
<1>1. CASE Recover \/ UndoStaging \/ ActiveReady \/ WriteConfig \/ WriteSecrets
  BY <1>1, RecoverStep, UndoStagingStep, ActiveReadyStep, WriteConfigStep, WriteSecretsStep
<1>2. CASE Render \/ TrashReady \/ Commit \/ Finish
  BY <1>2, RenderStep, TrashReadyStep, CommitStep, FinishStep
<1>3. ASSUME NEW id \in Id,
             FillStage(id) \/ PlaceDirectory(id) \/ WriteMetadata(id) \/ MarkDeleted(id) \/ MoveToTrash(id)
      PROVE  IInv'
  BY <1>3, FillStageStep, PlaceDirectoryStep, WriteMetadataStep, MarkDeletedStep, MoveToTrashStep
<1>4. ASSUME NEW id \in Id,
             \/ AcquireImages(id) \/ RemoveContainer(id) \/ StartContainer(id)
             \/ RemoveSource(id) \/ StartTarget(id)
      PROVE  IInv'
  BY <1>4, AcquireImagesStep, RemoveContainerStep, StartContainerStep, RemoveSourceStep, StartTargetStep
<1>q. QED
  BY <1>1, <1>2, <1>3, <1>4 DEF Advance

LEMMA NextStep ==
    ASSUME IInv, [Next]_vars
    PROVE  IInv'
<1>1. CASE Begin \/ End \/ Interrupt \/ StagingFails
  BY <1>1, BeginStep, EndStep, StagingFailsStep
<1>2. CASE Operation \/ Advance
  BY <1>2, OperationStep, AdvanceStep
<1>3. ASSUME NEW id \in Id, OutsideChange(id)
      PROVE  IInv'
  BY <1>3, RunningStep
<1>4. CASE UNCHANGED vars
  <2>1. /\ UNCHANGED <<files, doc, container, journal, ops>>
        /\ step' = step /\ todo' = todo /\ run' = run
    BY <1>4 DEF vars, progress
  <2>2. /\ StepInv' /\ step' \in Step /\ todo' \subseteq Id /\ run' \in BOOLEAN
        /\ step' = "runtime" => todo' \subseteq WorkIds /\ \A id \in WorkIds \ todo' : Agrees(id)
    BY <2>1, QuietKeeps DEF IInv, StepInv, TypeOK, ContainerInv
  <2>3. DirectoriesDone' /\ StateDone'
    BY <2>1 DEF files, IInv, DirectoriesDone, StateDone, Writing, Placed, Target, Ids, Rendered
  <2>q. QED
    BY <2>1, <2>2, <2>3, QuietStep
<1>q. QED
  BY <1>1, <1>2, <1>3, <1>4 DEF Next

LEMMA Invariance == Spec => []IInv
<1>1. Init => IInv
  BY InitInv
<1>2. IInv /\ [Next]_vars => IInv'
  BY NextStep
<1>q. QED
  BY <1>1, <1>2, PTL DEF Spec

(* TypeOK: the files, directories and containers stay in their types, and  *)
(* so does the journal, and a command without one is idle or ready.        *)
THEOREM TypeCorrect == Spec => []TypeOK
<1>1. IInv => TypeOK
  BY DEF IInv
<1>q. QED
  BY <1>1, Invariance, PTL

(* AuditPasses: whenever no transaction is pending auditState would find   *)
(* nothing, wherever the commands before were interrupted, whichever of    *)
(* them recovered without containers, and whatever was stopped or started  *)
(* by hand in the meantime.                                                *)
THEOREM AuditsPass == Spec => []AuditPasses
<1>1. ASSUME IInv
      PROVE  AuditPasses
  <2>1. SUFFICES ASSUME ~Pending PROVE AuditPasses
    BY DEF Pending, AuditPasses
  <2>2. Consistent
    BY <1>1, <2>1 DEF IInv, AuditInv
  <2>3. /\ \A id \in Ids(trash) : trash[id].deleted
        /\ \A id \in Id : stage[id] = "none"
    BY <1>1, <2>1 DEF IInv, DirectoryInv, Ids
  <2>q. QED
    BY <2>2, <2>3 DEF Consistent, AuditPasses
<1>q. QED
  BY <1>1, Invariance, PTL

(* NeverConflicts: the errors of ensureActiveDirectory and                 *)
(* ensureTrashDirectory, which no later command could get past, are never  *)
(* thrown.                                                                 *)
THEOREM NoConflicts == Spec => []NeverConflicts
<1>1. ASSUME IInv
      PROVE  NeverConflicts
  <2>1. ASSUME step = "active", NEW id \in todo, ActiveConflict(id)
        PROVE  FALSE
    <3>1. /\ Prepared /\ ~Incomplete /\ Pending /\ id \in Id /\ Target(id) # None
      BY <1>1, <2>1 DEF IInv, TypeOK, StepInv, Writing, Prepared, DirectoriesDone, Ids, Target
    <3>2. journal.source[id] # None /\ Needed(id) /\ (active[id] = None \/ trash[id] = None)
      BY <1>1, <3>1 DEF IInv, JournalInv, DirectoryInv
    <3>3. journal.source[id] = "staged" => active[id] # None \/ stage[id] = "ready"
      BY <3>1 DEF Incomplete, Prepared
    <3>q. QED
      BY <2>1, <3>2, <3>3 DEF ActiveConflict, Needed
  <2>2. ASSUME step = "trash", NEW id \in todo, TrashConflict(id)
        PROVE  FALSE
    <3>1. id \in Id
      BY <1>1 DEF IInv, TypeOK
    <3>2. Pending /\ journal.trash[id] # None
      BY <1>1, <2>2, <3>1, TrashEntry
    <3>q. QED
      BY <1>1, <2>2, <3>1, <3>2 DEF IInv, DirectoryInv, Needed, TrashConflict
  <2>q. QED
    BY <2>1, <2>2 DEF NeverConflicts
<1>q. QED
  BY <1>1, Invariance, PTL

(* Only the write of the secrets changes them.                             *)
LEMMA SecretsStep ==
    ASSUME [Next]_vars, ~WriteSecrets
    PROVE  UNCHANGED secrets
<1>1. CASE Begin \/ End \/ Interrupt \/ StagingFails \/ UNCHANGED vars
  BY <1>1 DEF Begin, End, Interrupt, StagingFails, vars, files
<1>2. CASE Operation
  <2>1. PICK id \in Id :
          \/ Delete(id) \/ Restore(id) \/ Purge(id) \/ SetStorage(id)
          \/ StartComputer(id) \/ StopComputer(id)
          \/ \E n \in Name :
                \/ Rename(id, n)
                \/ \E start \in BOOLEAN : Create(id, n, start) \/ BackupRestore(id, n, start)
                \/ \E gone \in Id \ {id} : Apply(id, n, gone)
    BY <1>2 DEF Operation
  <2>2. CASE Delete(id) \/ Restore(id)
    BY <2>2 DEF Delete, Restore, Prepare, files
  <2>3. CASE Purge(id) \/ SetStorage(id) \/ StartComputer(id) \/ StopComputer(id)
    BY <2>3 DEF Purge, SetStorage, StartComputer, StopComputer, files
  <2>4. ASSUME NEW n \in Name,
               \/ Rename(id, n)
               \/ \E start \in BOOLEAN : Create(id, n, start) \/ BackupRestore(id, n, start)
               \/ \E gone \in Id \ {id} : Apply(id, n, gone)
        PROVE  UNCHANGED secrets
    BY <2>4 DEF Rename, Create, BackupRestore, Apply, Prepare, files
  <2>q. QED
    BY <2>1, <2>2, <2>3, <2>4
<1>3. CASE Advance
  <2>1. CASE Recover \/ ActiveReady \/ Render \/ TrashReady \/ Commit \/ Finish
    BY <2>1 DEF Recover, ActiveReady, Render, TrashReady, Commit, Finish, files
  <2>2. CASE UndoStaging \/ WriteConfig
    BY <2>2 DEF UndoStaging, WriteConfig
  <2>3. ASSUME NEW id \in Id,
               FillStage(id) \/ PlaceDirectory(id) \/ WriteMetadata(id) \/ MarkDeleted(id) \/ MoveToTrash(id)
        PROVE  UNCHANGED secrets
    BY <2>3 DEF FillStage, PlaceDirectory, WriteMetadata, MarkDeleted, MoveToTrash
  <2>4. ASSUME NEW id \in Id,
               \/ AcquireImages(id) \/ RemoveContainer(id) \/ StartContainer(id)
               \/ RemoveSource(id) \/ StartTarget(id)
        PROVE  UNCHANGED secrets
    BY <2>4 DEF AcquireImages, RemoveContainer, StartContainer, RemoveSource, StartTarget, files
  <2>q. QED
    BY <1>3, <2>1, <2>2, <2>3, <2>4 DEF Advance
<1>4. CASE \E id \in Id : OutsideChange(id)
  BY <1>4 DEF OutsideChange, files
<1>q. QED
  BY <1>1, <1>2, <1>3, <1>4 DEF Next

(* RevokedForever: recoverPendingTransaction never brings a token back     *)
(* that was replaced or removed, although it writes secrets.yaml from a    *)
(* journal that may be old.                                                *)
THEOREM TokensRevoked == Spec => RevokedForever
<1>1. ASSUME IInv, [Next]_vars
      PROVE  [\A id \in Id : secrets'[id] \in {secrets[id], None, ops}]_vars
  <2>1. CASE WriteSecrets
    <3>1. step = "secrets" /\ secrets' = journal.secrets
      BY <2>1 DEF WriteSecrets, Turn
    <3>2. Prepared
      BY <1>1, <3>1 DEF IInv, StepInv, Writing
    <3>q. QED
      BY <1>1, <3>1, <3>2 DEF IInv, TokenInv
  <2>q. QED
    BY <1>1, <2>1, SecretsStep
<1>q. QED
  BY <1>1, Invariance, PTL DEF Spec, RevokedForever

-----------------------------------------------------------------------------
(* The registry changes when a journal is written, or the directory of a   *)
(* restored backup is complete; recovery does not change it.               *)

Trashed == [id \in Id |-> InTrash(id)]

LEMMA RegistrySame ==
    ASSUME UNCHANGED <<Live, Tokens>>, \A id \in Id : InTrash(id)' = InTrash(id)
    PROVE  UNCHANGED Registry!vars
<1>1. UNCHANGED Trashed
  BY DEF Trashed
<1>q. QED
  BY <1>1 DEF Registry!vars, Trashed

LEMMA FilesSame ==
    ASSUME UNCHANGED <<files, journal>>
    PROVE  UNCHANGED Registry!vars
<1>1. UNCHANGED <<Live, Tokens>> /\ \A id \in Id : InTrash(id)' = InTrash(id)
  BY DEF files, Live, Tokens, InTrash, TakesEffect, Incomplete
<1>q. QED
  BY <1>1, RegistrySame

\* While a transaction takes effect the journal counts, not the files.
LEMMA InEffect ==
    ASSUME Prepared, ~Incomplete
    PROVE  /\ Live = journal.config /\ Tokens = journal.secrets
           /\ \A id \in Id : InTrash(id) = IF trash[id] # None /\ journal.source[id] # "trash"
                                           THEN trash[id].info ELSE journal.trash[id]
BY DEF Prepared, Pending, Live, Tokens, InTrash, TakesEffect

LEMMA OutOfEffect ==
    ASSUME ~(Prepared /\ ~Incomplete)
    PROVE  /\ Live = config /\ Tokens = secrets
           /\ \A id \in Id : InTrash(id) = IF trash[id] # None THEN trash[id].info ELSE None
BY DEF Prepared, Pending, Live, Tokens, InTrash, TakesEffect

\* Before and after a step that changes one directory.
LEMMA DirectorySame ==
    ASSUME Prepared, ~Incomplete, Prepared', ~Incomplete', journal' = journal,
           NEW id \in Id, \A d \in Id \ {id} : trash'[d] = trash[d],
           InTrash(id)' = InTrash(id)
    PROVE  UNCHANGED Registry!vars
<1>1. UNCHANGED <<Live, Tokens>>
  BY InEffect DEF Prepared, Pending, Live, Tokens, TakesEffect
<1>2. ASSUME NEW d \in Id \ {id}
      PROVE  InTrash(d)' = InTrash(d)
  BY <1>2 DEF Prepared, Pending, InTrash, TakesEffect
<1>q. QED
  BY <1>1, <1>2, RegistrySame

LEMMA PlaceDirectorySame ==
    ASSUME IInv, IInv', NEW id \in Id, PlaceDirectory(id)
    PROVE  UNCHANGED Registry!vars
<1>1. /\ step = "active" /\ step' = step /\ journal' = journal /\ id \in todo
      /\ trash' = With(trash, id, None) /\ ~ActiveConflict(id) /\ active[id] = None
  BY DEF PlaceDirectory, progress
<1>2. Prepared /\ ~Incomplete /\ Prepared' /\ ~Incomplete' /\ Pending
  BY <1>1 DEF IInv, StepInv, Writing, Prepared
<1>3. trash \in [Id -> Metadata \cup {None}]
  BY DEF IInv, TypeOK
<1>4. Target(id) # None /\ journal.source[id] # None /\ journal.trash[id] = None
  BY <1>1, <1>2 DEF IInv, DirectoriesDone, Ids, Target, JournalInv
<1>5. journal \in Transaction
  BY <1>2 DEF IInv, TypeOK, Pending
<1>6. journal.source[id] \in {"active", "create", "trash", "staged", None}
  BY <1>5 DEF Transaction
<1>7. trash[id] = None \/ journal.source[id] = "trash"
  BY <1>1, <1>4, <1>6 DEF ActiveConflict
<1>8. InTrash(id) = None
  BY <1>2, <1>4, <1>7, InEffect
<1>9. trash'[id] = None /\ \A d \in Id \ {id} : trash'[d] = trash[d]
  BY <1>1, <1>3 DEF With
<1>10. InTrash(id)' = None
  BY <1>1, <1>2, <1>4, <1>9 DEF InTrash, TakesEffect, Prepared, Pending
<1>q. QED
  BY <1>1, <1>2, <1>8, <1>9, <1>10, DirectorySame

LEMMA MoveToTrashSame ==
    ASSUME IInv, IInv', NEW id \in Id, MoveToTrash(id)
    PROVE  UNCHANGED Registry!vars
<1>1. /\ step = "trash" /\ step' = step /\ journal' = journal /\ id \in todo
      /\ trash' = With(trash, id, [info |-> journal.trash[id], deleted |-> TRUE])
  BY DEF MoveToTrash
<1>2. Prepared /\ ~Incomplete /\ Prepared' /\ ~Incomplete' /\ Pending
  BY <1>1 DEF IInv, StepInv, Writing, Prepared
<1>3. trash \in [Id -> Metadata \cup {None}]
  BY DEF IInv, TypeOK
<1>4. journal.trash[id] \in Info /\ journal.trash[id] # None /\ journal.source[id] = None
  BY <1>1, TrashEntry
<1>5. trash[id] # None => trash[id].info = journal.trash[id]
  BY <1>2, <1>4 DEF IInv, DirectoryInv, Needed
<1>6. None # "trash"
  BY NoneAssumption
<1>7. InTrash(id) = journal.trash[id]
  BY <1>2, <1>5, <1>4, <1>6, InEffect
<1>8. [info |-> journal.trash[id], deleted |-> TRUE] # None
  <2>1. [info |-> journal.trash[id], deleted |-> TRUE] \in Metadata
    BY <1>4 DEF Metadata
  <2>q. QED
    BY <2>1, NoneAssumption
<1>9. /\ trash'[id] = [info |-> journal.trash[id], deleted |-> TRUE]
      /\ \A d \in Id \ {id} : trash'[d] = trash[d]
  BY <1>1, <1>3 DEF With
<1>10. InTrash(id)' = journal.trash[id]
  BY <1>1, <1>2, <1>4, <1>6, <1>8, <1>9 DEF InTrash, TakesEffect, Prepared, Pending
<1>q. QED
  BY <1>1, <1>2, <1>7, <1>9, <1>10, DirectorySame

\* The writes of the recovery while the transaction takes effect.
LEMMA WriteSame ==
    ASSUME IInv, IInv',
           \/ WriteConfig \/ WriteSecrets
           \/ \E id \in Id : WriteMetadata(id) \/ MarkDeleted(id)
    PROVE  UNCHANGED Registry!vars
<1>1. /\ step \in Writing /\ step' \in Writing /\ journal' = journal /\ trash' = trash
  BY DEF WriteConfig, WriteSecrets, WriteMetadata, MarkDeleted, Turn, Writing, progress
<1>2. Prepared /\ ~Incomplete /\ Prepared' /\ ~Incomplete'
  BY <1>1 DEF IInv, StepInv
<1>3. UNCHANGED <<Live, Tokens>> /\ \A id \in Id : InTrash(id)' = InTrash(id)
  BY <1>1, <1>2 DEF Live, Tokens, InTrash, TakesEffect, Prepared, Pending
<1>q. QED
  BY <1>3, RegistrySame

\* The commit makes the files count, which say what the journal says.
LEMMA CommitSame ==
    ASSUME IInv, Commit
    PROVE  UNCHANGED Registry!vars
<1>1. /\ step = "commit" /\ journal' = [journal EXCEPT !.phase = "state-committed"]
      /\ config' = config /\ secrets' = secrets /\ trash' = trash
  BY DEF Commit, files
<1>2. Prepared /\ ~Incomplete /\ Pending
  BY <1>1 DEF IInv, StepInv, Writing, Prepared
<1>3. journal \in Transaction
  BY <1>2 DEF IInv, TypeOK, Pending
<1>4. ~Prepared'
  BY <1>1, <1>3 DEF Prepared, Transaction
<1>5. Live' = config /\ Tokens' = secrets
  BY <1>1, <1>4 DEF Live, Tokens, TakesEffect, Prepared, Pending
<1>6. Live = config /\ Tokens = secrets
  BY <1>1, <1>2, InEffect DEF IInv, StateDone
<1>7. ASSUME NEW id \in Id
      PROVE  InTrash(id)' = InTrash(id)
  <2>1. InTrash(id)' = IF trash[id] # None THEN trash[id].info ELSE None
    BY <1>1, <1>4 DEF InTrash, TakesEffect, Prepared, Pending
  <2>2. journal.trash[id] # None => trash[id] # None
    BY <1>1, <1>2 DEF IInv, DirectoriesDone, DirectoryInv, Needed, Ids
  <2>3. journal.source[id] = "trash" => trash[id] = None
    <3>1. ASSUME journal.source[id] = "trash"
          PROVE  trash[id] = None
      <4>1. Target(id) # None
        BY <1>2, <3>1, NoneAssumption DEF IInv, JournalInv
      <4>2. Placed(id)
        BY <1>1, <4>1 DEF IInv, DirectoriesDone, Writing, Ids, Target
      <4>3. active[id] # None
        <5>1. journal.config[id] \in Info
          BY <1>3, <4>1 DEF Transaction, Target
        <5>2. [info |-> Target(id), deleted |-> FALSE] \in Metadata
          BY <5>1 DEF Metadata, Target
        <5>q. QED
          BY <4>2, <5>2, NoneAssumption DEF Placed
      <4>q. QED
        BY <4>3 DEF IInv, DirectoryInv
    <3>q. QED
      BY <3>1
  <2>4. InTrash(id) = IF trash[id] # None /\ journal.source[id] # "trash"
                      THEN trash[id].info ELSE journal.trash[id]
    BY <1>2, InEffect
  <2>q. QED
    BY <2>1, <2>2, <2>3, <2>4
<1>q. QED
  BY <1>1, <1>5, <1>6, <1>7, RegistrySame

\* Without effect before and after.
LEMMA OutOfEffectSame ==
    ASSUME ~(Prepared /\ ~Incomplete), ~(Prepared /\ ~Incomplete)',
           config' = config, secrets' = secrets, trash' = trash
    PROVE  UNCHANGED Registry!vars
<1>1. UNCHANGED <<Live, Tokens>> /\ \A id \in Id : InTrash(id)' = InTrash(id)
  BY DEF Live, Tokens, InTrash, TakesEffect, Prepared, Pending
<1>q. QED
  BY <1>1, RegistrySame

LEMMA UndoSame ==
    ASSUME IInv, IInv', UndoStaging \/ StagingFails \/ Finish
    PROVE  UNCHANGED Registry!vars
<1>1. /\ step \in {"staging", "undo", "runtime"}
      /\ step' = "undo" \/ journal' = None
      /\ config' = config /\ secrets' = secrets /\ trash' = trash
  BY DEF UndoStaging, StagingFails, Finish, Turn, files
<1>2. ~(Prepared /\ ~Incomplete)
  BY <1>1 DEF IInv, StepInv, Prepared, Committed
<1>3. ~(Prepared /\ ~Incomplete)'
  BY <1>1 DEF IInv, StepInv, Prepared, Pending
<1>q. QED
  BY <1>1, <1>2, <1>3, OutOfEffectSame

LEMMA FillStageMaps ==
    ASSUME IInv, IInv', NEW id \in Id, FillStage(id)
    PROVE  Registry!Next \/ UNCHANGED Registry!vars
<1>1. /\ step = "staging" /\ journal.source[id] = "staged"
      /\ stage' = With(stage, id, IF stage[id] = "none" THEN "filling" ELSE "ready")
      /\ step' = IF stage[id] = "none" THEN "staging" ELSE "recover"
      /\ config' = config /\ secrets' = secrets /\ active' = active /\ trash' = trash
      /\ journal' = journal
  BY DEF FillStage
<1>2. Prepared /\ Incomplete /\ Pending
  BY <1>1 DEF IInv, StepInv, Prepared
<1>3. CASE stage[id] = "none"
  <2>1. ~(Prepared /\ ~Incomplete)'
    BY <1>1, <1>3 DEF IInv, StepInv
  <2>q. QED
    BY <1>1, <1>2, <2>1, OutOfEffectSame
<1>4. CASE stage[id] # "none"
  <2>1. /\ config[id] = None /\ trash[id] = None
        /\ journal.config = With(config, id, Target(id))
        /\ journal.secrets = With(secrets, id, ops)
        /\ journal.trash = Empty
        /\ NameFree(Target(id).name, id)
        /\ \A d \in Id : secrets[d] # ops /\ (journal.source[d] = "staged" => d = id)
    BY <1>1, <1>2 DEF IInv, AuditInv, Untouched
  <2>2. Consistent
    BY <1>2 DEF IInv, AuditInv
  <2>3. stage'[id] = "ready"
    BY <1>1, <1>4 DEF IInv, TypeOK, With
  <2>4. ~Incomplete' /\ Prepared'
    BY <1>1, <1>2, <2>1, <2>3 DEF Incomplete, Prepared, Pending
  <2>5. Live' = [config EXCEPT ![id] = Target(id)] /\ Tokens' = [secrets EXCEPT ![id] = ops]
    BY <1>1, <2>1, <2>4 DEF Live, Tokens, TakesEffect, Prepared, Pending, With
  <2>6. Live = config /\ Tokens = secrets
    BY <1>2, OutOfEffect
  <2>7. journal \in Transaction /\ Target(id) # None
    BY <1>1, <1>2, NoneAssumption DEF IInv, TypeOK, JournalInv, Pending
  <2>8. Target(id) \in Info
    BY <2>7 DEF Transaction, Target
  <2>9. ops \in Token
    <3>1. journal.secrets[id] = ops
      <4>1. secrets \in [Id -> Token \cup {None}]
        BY DEF IInv, TypeOK
      <4>q. QED
        BY <2>1, <4>1 DEF With
    <3>2. journal.secrets[id] \in 1..ops /\ ops \in 0..MaxOps
      BY <1>2, <2>7 DEF IInv, TypeOK, JournalInv, TokenInv
    <3>q. QED
      BY <3>1, <3>2, TransactionAssumption DEF Token
  <2>10. ASSUME NEW d \in Id
         PROVE  InTrash(d)' = InTrash(d)
    <3>1. journal.trash[d] = None
      BY <2>1 DEF Empty
    <3>2. journal.source[d] = "trash" => trash[d] = None
      <4>1. ASSUME journal.source[d] = "trash"
            PROVE  trash[d] = None
        <5>1. Target(d) # None /\ d # id
          BY <1>1, <1>2, <4>1, NoneAssumption DEF IInv, JournalInv
        <5>2. config[d] # None
          <6>1. config \in [Id -> Info \cup {None}]
            BY DEF IInv, TypeOK
          <6>q. QED
            BY <5>1, <2>1, <6>1 DEF Target, With
        <5>q. QED
          BY <5>2, <2>2 DEF Consistent, Ids
      <4>q. QED
        BY <4>1
    <3>3. InTrash(d) = IF trash[d] # None THEN trash[d].info ELSE None
      BY <1>2, OutOfEffect
    <3>4. InTrash(d)' = IF trash[d] # None /\ journal.source[d] # "trash"
                        THEN trash[d].info ELSE journal.trash[d]
      BY <1>1, <2>4 DEF InTrash, TakesEffect, Prepared, Pending
    <3>q. QED
      BY <3>1, <3>2, <3>3, <3>4
  <2>11. Registry!Create(id, Target(id), ops)
    <3>1. Live[id] = None /\ Trashed[id] = None
      BY <1>2, <2>1, <2>6, OutOfEffect DEF Trashed
    <3>2. Registry!Free(Target(id))
      BY <2>1, <2>6 DEF Registry!Free, NameFree, Ids
    <3>3. Registry!NewToken(ops)
      BY <2>1, <2>6, <2>9 DEF Registry!NewToken
    <3>4. Trashed' = Trashed
      BY <2>10 DEF Trashed
    <3>q. QED
      BY <3>1, <3>2, <3>3, <3>4, <2>5, <2>6 DEF Registry!Create, Trashed
  <2>q. QED
    BY <2>8, <2>9, <2>11 DEF Registry!Next
<1>q. QED
  BY <1>3, <1>4

LEMMA SetStorageMaps ==
    ASSUME IInv, NEW id \in Id, SetStorage(id)
    PROVE  Registry!Next
<1>1. /\ step = "ready" /\ config[id] # None /\ config' = [config EXCEPT ![id].warn = TRUE]
      /\ secrets' = secrets /\ trash' = trash /\ journal' = journal
  BY DEF SetStorage
<1>2. ~(Prepared /\ ~Incomplete) /\ ~(Prepared /\ ~Incomplete)'
  BY <1>1 DEF IInv, StepInv, Prepared, Committed, Pending
<1>3. /\ Live = config /\ Tokens = secrets
      /\ Live' = config' /\ Tokens' = secrets
      /\ \A d \in Id : InTrash(d)' = InTrash(d)
  BY <1>1, <1>2 DEF Live, Tokens, InTrash, TakesEffect, Prepared, Pending
<1>4. config[id] \in Info
  BY <1>1 DEF IInv, TypeOK
<1> DEFINE info == [config[id] EXCEPT !.warn = TRUE]
<1>5. info \in Info /\ info.name = config[id].name /\ config' = [config EXCEPT ![id] = info]
  BY <1>1, <1>4 DEF Info
<1> HIDE DEF info
<1>6. Trashed' = Trashed
  BY <1>3 DEF Trashed
<1>7. Registry!Change(id, info)
  BY <1>1, <1>3, <1>5, <1>6 DEF Registry!Change, Trashed
<1>q. QED
  BY <1>5, <1>7 DEF Registry!Next

LEMMA PurgeMaps ==
    ASSUME IInv, NEW id \in Id, Purge(id)
    PROVE  Registry!Next
<1>1. /\ step = "ready" /\ trash[id] # None /\ trash' = With(trash, id, None)
      /\ config' = config /\ secrets' = secrets /\ journal' = journal
  BY DEF Purge
<1>2. ~(Prepared /\ ~Incomplete) /\ ~(Prepared /\ ~Incomplete)'
  BY <1>1 DEF IInv, StepInv, Prepared, Committed, Pending
<1>3. /\ Live' = Live /\ Tokens' = Tokens
      /\ \A d \in Id : InTrash(d) = IF trash[d] # None THEN trash[d].info ELSE None
      /\ \A d \in Id : InTrash(d)' = IF trash'[d] # None THEN trash'[d].info ELSE None
  BY <1>1, <1>2 DEF Live, Tokens, InTrash, TakesEffect, Prepared, Pending
<1>4. trash[id].info # None
  BY <1>1 DEF IInv, DirectoryInv
<1>5. trash'[id] = None /\ \A d \in Id \ {id} : trash'[d] = trash[d]
  BY <1>1 DEF IInv, TypeOK, With
<1>6. Trashed[id] # None /\ Trashed' = [Trashed EXCEPT ![id] = None]
  BY <1>1, <1>3, <1>4, <1>5 DEF Trashed
<1>7. Registry!Purge(id)
  BY <1>3, <1>6 DEF Registry!Purge, Trashed
<1>q. QED
  BY <1>7 DEF Registry!Next

\* The trash before a command and after it.
TrashedBefore(d) == IF trash[d] # None THEN trash[d].info ELSE None
TrashedAfter(d, target, new, source, dropped) ==
    IF trash[d] # None /\ ~(target[d] # None /\ d \in new /\ source = "trash")
    THEN trash[d].info ELSE dropped[d]

\* What the registry is before a command, and what its journal makes of it.
Effected(target, tokens, new, source, dropped) ==
    /\ Live = config /\ Tokens = secrets
    /\ Live' = target /\ Tokens' = tokens
    /\ \A d \in Id : Trashed[d] = TrashedBefore(d)
    /\ \A d \in Id : Trashed'[d] = TrashedAfter(d, target, new, source, dropped)
    /\ Registry!NewToken(ops + 1)

LEMMA Effect ==
    ASSUME IInv,
           NEW target \in [Id -> Info \cup {None}], NEW tokens,
           NEW new \in SUBSET Id, NEW source \in {"create", "trash"},
           NEW dropped, NEW work, NEW binding,
           Prepares(target, tokens, new, source, dropped, work, binding),
           IInv', step' = "recover"
    PROVE  Effected(target, tokens, new, source, dropped)
<1>1. /\ journal = None /\ config' = config /\ secrets' = secrets /\ trash' = trash
      /\ ops < MaxOps
  BY DEF Prepares, files
<1>2. journal' = [phase |-> "prepared", config |-> target, secrets |-> tokens,
                  source |-> [id \in Id |-> IF target[id] = None THEN None
                                            ELSE IF id \in new THEN source ELSE "active"],
                  trash |-> dropped, work |-> work, binding |-> binding]
  BY DEF Prepares
<1>3. ~Prepared
  BY <1>1 DEF Prepared, Pending
<1>4. journal' # None
  BY DEF IInv, StepInv, Pending
<1>5. None # "trash" /\ None # "staged"
  BY NoneAssumption
<1>6. \A id \in Id : journal'.source[id] # "staged"
  BY <1>2, <1>5
<1>7. Prepared' /\ ~Incomplete'
  BY <1>2, <1>4, <1>6 DEF Prepared, Pending, Incomplete
<1>8. Live' = target /\ Tokens' = tokens
  BY <1>2, <1>7 DEF Live, Tokens, TakesEffect, Prepared, Pending
<1>9. ASSUME NEW d \in Id
      PROVE  InTrash(d)' = IF trash[d] # None /\ ~(target[d] # None /\ d \in new /\ source = "trash")
                           THEN trash[d].info ELSE dropped[d]
  <2>1. InTrash(d)' = IF trash[d] # None /\ journal'.source[d] # "trash" THEN trash[d].info ELSE journal'.trash[d]
    BY <1>1, <1>7 DEF InTrash, TakesEffect, Prepared, Pending
  <2>2. journal'.trash[d] = dropped[d]
    BY <1>2
  <2>3. journal'.source[d] = "trash" <=> target[d] # None /\ d \in new /\ source = "trash"
    BY <1>2, <1>5
  <2>q. QED
    BY <2>1, <2>2, <2>3
<1>10. Registry!NewToken(ops + 1)
  <2>1. ops \in Nat /\ ops + 1 \in Token
    BY <1>1, TransactionAssumption DEF IInv, TypeOK, Token
  <2>2. \A d \in Id : secrets[d] # ops + 1
    BY <2>1, <1>1, Nothing DEF IInv, TokenInv
  <2>q. QED
    BY <2>1, <2>2, <1>3, OutOfEffect DEF Registry!NewToken
<1>q. QED
  BY <1>3, <1>8, <1>9, <1>10, OutOfEffect DEF Effected, Trashed, TrashedBefore, TrashedAfter

LEMMA CreateMaps ==
    ASSUME IInv, IInv', NEW id \in Id, NEW n \in Name, NEW start \in BOOLEAN, Create(id, n, start)
    PROVE  Registry!Next
<1> DEFINE info == [name |-> n, warn |-> FALSE]
           target == With(config, id, info)
           tokens == With(secrets, id, ops + 1)
           work == IF start THEN With(NoWork, id, "start") ELSE NoWork
<1>1. /\ config[id] = None /\ trash[id] = None
      /\ journal = None /\ ops < MaxOps /\ step' = "recover" /\ NameFree(n, id)
  BY DEF Create, Prepare, Fresh
<1>2. Prepares(target, tokens, {id}, "create", Empty, work, Empty)
  BY DEF Create, Prepare, Prepares
<1>3. info \in Info /\ info.name = n /\ target \in [Id -> Info \cup {None}]
  BY DEF Info, IInv, TypeOK, With
<1> HIDE DEF target, tokens, work
<1>4. Effected(target, tokens, {id}, "create", Empty)
  BY <1>1, <1>2, <1>3, Effect, {id} \in SUBSET Id
<1> USE DEF target, tokens, work
<1>5. Trashed[id] = None /\ Trashed' = Trashed
  BY <1>1, <1>4, EmptyType DEF Effected, Trashed, TrashedBefore, TrashedAfter
<1>6. Registry!Free(info)
  BY <1>1, <1>3, <1>4 DEF Effected, Registry!Free, NameFree, Ids
<1>7. Registry!Create(id, info, ops + 1)
  BY <1>1, <1>4, <1>5, <1>6 DEF Effected, Registry!Create, Trashed, With
<1> HIDE DEF info
<1>8. ops + 1 \in Token
  BY <1>4 DEF Effected, Registry!NewToken
<1>q. QED
  BY <1>3, <1>7, <1>8 DEF Registry!Next

LEMMA RenameMaps ==
    ASSUME IInv, IInv', NEW id \in Id, NEW n \in Name, Rename(id, n)
    PROVE  Registry!Next
<1> DEFINE info == [config[id] EXCEPT !.name = n]
           target == [config EXCEPT ![id].name = n]
           work == With(NoWork, id, IF container[id] = None THEN "none"
                                    ELSE IF container[id].running THEN "replaceRunning"
                                    ELSE "replaceStopped")
           binding == IF container[id] = None THEN Empty ELSE With(Empty, id, container[id].ref)
<1>1. /\ config[id] # None /\ config[id].name # n /\ NameFree(n, id)
      /\ journal = None /\ ops < MaxOps /\ step' = "recover"
  BY DEF Rename, Prepare
<1>2. Prepares(target, secrets, {}, "create", Empty, work, binding)
  BY DEF Rename, Prepare, Prepares
<1>3. config \in [Id -> Info \cup {None}]
  BY DEF IInv, TypeOK
<1>4. info \in Info /\ info.name = n /\ target = [config EXCEPT ![id] = info]
  BY <1>1, <1>3 DEF Info
<1>5. target \in [Id -> Info \cup {None}]
  BY <1>3, <1>4
<1> HIDE DEF target, work, binding
<1>6. Effected(target, secrets, {}, "create", Empty)
  BY <1>1, <1>2, <1>5, Effect, {} \in SUBSET Id
<1> USE DEF target, work, binding
<1>7. Trashed' = Trashed
  BY <1>6, EmptyType DEF Effected, Trashed, TrashedBefore, TrashedAfter
<1>8. Registry!Free(info)
  BY <1>1, <1>4, <1>6 DEF Effected, Registry!Free, NameFree, Ids
<1>9. Registry!Change(id, info)
  BY <1>1, <1>4, <1>6, <1>7, <1>8 DEF Effected, Registry!Change, Trashed
<1> HIDE DEF info
<1>q. QED
  BY <1>4, <1>9 DEF Registry!Next

LEMMA DeleteMaps ==
    ASSUME IInv, IInv', NEW id \in Id, Delete(id)
    PROVE  Registry!Next
<1> DEFINE target == With(config, id, None)
           tokens == With(secrets, id, None)
           dropped == With(Empty, id, config[id])
           work == With(NoWork, id, "remove")
<1>1. /\ config[id] # None /\ journal = None /\ ops < MaxOps /\ step' = "recover"
  BY DEF Delete, Prepare
<1>2. Prepares(target, tokens, {}, "create", dropped, work, Empty)
  BY DEF Delete, Prepare, Prepares
<1>3. target \in [Id -> Info \cup {None}] /\ trash[id] = None
  BY <1>1, Nothing DEF With
<1> HIDE DEF target, tokens, dropped, work
<1>4. Effected(target, tokens, {}, "create", dropped)
  BY <1>1, <1>2, <1>3, Effect, {} \in SUBSET Id
<1> USE DEF target, tokens, dropped, work
<1>5. dropped[id] = config[id] /\ \A d \in Id \ {id} : dropped[d] = None
  BY DEF With, Empty
<1>6. Trashed' = [Trashed EXCEPT ![id] = config[id]]
  BY <1>3, <1>4, <1>5 DEF Effected, Trashed, TrashedBefore, TrashedAfter
<1>7. Registry!Delete(id)
  BY <1>1, <1>4, <1>6 DEF Effected, Registry!Delete, Trashed, With
<1>q. QED
  BY <1>7 DEF Registry!Next

LEMMA RestoreMaps ==
    ASSUME IInv, IInv', NEW id \in Id, Restore(id)
    PROVE  Registry!Next
<1> DEFINE target == With(config, id, trash[id].info)
           tokens == With(secrets, id, ops + 1)
           work == With(NoWork, id, "start")
<1>1. /\ trash[id] # None /\ NameFree(trash[id].info.name, id)
      /\ journal = None /\ ops < MaxOps /\ step' = "recover"
  BY DEF Restore, Prepare
<1>2. Prepares(target, tokens, {id}, "trash", Empty, work, Empty)
  BY DEF Restore, Prepare, Prepares
<1>3. /\ target \in [Id -> Info \cup {None}] /\ config[id] = None
      /\ trash[id].info # None /\ target[id] = trash[id].info
  BY <1>1, Nothing DEF With
<1> HIDE DEF target, tokens, work
<1>4. Effected(target, tokens, {id}, "trash", Empty)
  BY <1>1, <1>2, <1>3, Effect, {id} \in SUBSET Id
<1> USE DEF target, tokens, work
<1>5. Trashed[id] = trash[id].info /\ Trashed' = [Trashed EXCEPT ![id] = None]
  BY <1>1, <1>3, <1>4, EmptyType DEF Effected, Trashed, TrashedBefore, TrashedAfter
<1>6. Registry!Free(trash[id].info)
  BY <1>1, <1>3, <1>4 DEF Effected, Registry!Free, NameFree, Ids
<1>7. Registry!Restore(id, ops + 1)
  BY <1>3, <1>4, <1>5, <1>6 DEF Effected, Registry!Restore, Trashed, With
<1>8. ops + 1 \in Token
  BY <1>4 DEF Effected, Registry!NewToken
<1>q. QED
  BY <1>7, <1>8 DEF Registry!Next

LEMMA ApplyMaps ==
    ASSUME IInv, IInv', NEW id \in Id, NEW n \in Name, NEW gone \in Id \ {id}, Apply(id, n, gone)
    PROVE  Registry!Next
<1> DEFINE info == [name |-> n, warn |-> FALSE]
           target == [config EXCEPT ![id] = info, ![gone] = None]
           tokens == [secrets EXCEPT ![id] = ops + 1, ![gone] = None]
           dropped == With(Empty, gone, config[gone])
           work == [d \in Id |-> IF d = gone THEN "remove"
                                 ELSE IF target[d] # None THEN "start" ELSE "none"]
<1>1. /\ config[id] = None /\ trash[id] = None /\ NameFree(n, id) /\ config[gone] # None
      /\ journal = None /\ ops < MaxOps /\ step' = "recover"
  BY DEF Apply, Prepare, Fresh
<1>2. Prepares(target, tokens, {id}, "create", dropped, work, Empty)
  BY DEF Apply, Prepare, Prepares
<1>3. info \in Info /\ info.name = n /\ target \in [Id -> Info \cup {None}] /\ trash[gone] = None
  BY <1>1, Nothing DEF Info
<1> HIDE DEF info, target, tokens, dropped, work
<1>4. Effected(target, tokens, {id}, "create", dropped)
  <2>1. {id} \in SUBSET Id /\ "create" \in {"create", "trash"} /\ step' = "recover"
    BY <1>1
  <2>2. target \in [Id -> Info \cup {None}]
    BY <1>3
  <2>q. QED
    BY <1>2, <2>1, <2>2, Effect
<1> USE DEF info, target, tokens, dropped, work
<1>5. dropped[gone] = config[gone] /\ \A d \in Id \ {gone} : dropped[d] = None
  BY DEF With, Empty
<1> HIDE DEF target, tokens, work, dropped
<1>6. Trashed[id] = None /\ Trashed' = [Trashed EXCEPT ![gone] = config[gone]]
  <2>1. \A d \in Id : Trashed[d] = IF trash[d] # None THEN trash[d].info ELSE None
    BY <1>4 DEF Effected, TrashedBefore
  <2>2. \A d \in Id : Trashed'[d] = IF trash[d] # None THEN trash[d].info ELSE dropped[d]
    BY <1>4 DEF Effected, TrashedAfter
  <2>3. Trashed'[gone] = config[gone] /\ \A d \in Id \ {gone} : Trashed'[d] = Trashed[d]
    BY <1>3, <1>5, <2>1, <2>2
  <2>q. QED
    BY <1>1, <2>1, <2>3 DEF Trashed
<1> USE DEF target, tokens
<1>7. Registry!Free(info)
  BY <1>1, <1>3, <1>4 DEF Effected, Registry!Free, NameFree, Ids
<1>8. Registry!Apply(id, info, ops + 1, gone)
  BY <1>1, <1>4, <1>6, <1>7 DEF Effected, Registry!Apply, Trashed
<1> HIDE DEF info
<1>9. ops + 1 \in Token
  BY <1>4 DEF Effected, Registry!NewToken
<1>q. QED
  BY <1>3, <1>8, <1>9 DEF Registry!Next

\* The journal of a backup restore takes no effect yet.
LEMMA BackupRestoreSame ==
    ASSUME IInv, IInv', NEW id \in Id, NEW n \in Name, NEW start \in BOOLEAN, BackupRestore(id, n, start)
    PROVE  UNCHANGED Registry!vars
<1>1. /\ config' = config /\ secrets' = secrets /\ trash' = trash
      /\ journal = None /\ step' = "staging"
  BY DEF BackupRestore, Prepare, files
<1>2. ~(Prepared /\ ~Incomplete) /\ ~(Prepared /\ ~Incomplete)'
  BY <1>1 DEF IInv, StepInv, Prepared, Pending
<1>q. QED
  BY <1>1, <1>2, OutOfEffectSame

LEMMA RegistryStep ==
    ASSUME IInv, IInv', [Next]_vars
    PROVE  Registry!Next \/ UNCHANGED Registry!vars
<1>1. CASE Begin \/ End \/ Interrupt \/ UNCHANGED vars
  BY <1>1, FilesSame DEF Begin, End, Interrupt, vars
<1>2. CASE StagingFails
  BY <1>2, UndoSame
<1>3. ASSUME NEW id \in Id, OutsideChange(id)
      PROVE  UNCHANGED Registry!vars
  BY <1>3, FilesSame DEF OutsideChange
<1>4. CASE Operation
  <2>1. PICK id \in Id :
          \/ Delete(id) \/ Restore(id) \/ Purge(id) \/ SetStorage(id)
          \/ StartComputer(id) \/ StopComputer(id)
          \/ \E n \in Name :
                \/ Rename(id, n)
                \/ \E start \in BOOLEAN : Create(id, n, start) \/ BackupRestore(id, n, start)
                \/ \E gone \in Id \ {id} : Apply(id, n, gone)
    BY <1>4 DEF Operation
  <2>2. CASE Delete(id) \/ Restore(id) \/ Purge(id) \/ SetStorage(id)
    BY <2>2, DeleteMaps, RestoreMaps, PurgeMaps, SetStorageMaps
  <2>3. CASE StartComputer(id) \/ StopComputer(id)
    BY <2>3, FilesSame DEF StartComputer, StopComputer
  <2>4. ASSUME NEW n \in Name, Rename(id, n)
        PROVE  Registry!Next
    BY <2>4, RenameMaps
  <2>5. ASSUME NEW n \in Name, NEW start \in BOOLEAN, Create(id, n, start) \/ BackupRestore(id, n, start)
        PROVE  Registry!Next \/ UNCHANGED Registry!vars
    BY <2>5, CreateMaps, BackupRestoreSame
  <2>6. ASSUME NEW n \in Name, NEW gone \in Id \ {id}, Apply(id, n, gone)
        PROVE  Registry!Next
    BY <2>6, ApplyMaps
  <2>q. QED
    BY <2>1, <2>2, <2>3, <2>4, <2>5, <2>6
<1>5. CASE Advance
  <2>1. CASE Recover \/ ActiveReady \/ Render \/ TrashReady
    BY <2>1, FilesSame DEF Recover, ActiveReady, Render, TrashReady
  <2>2. CASE UndoStaging \/ Finish \/ WriteConfig \/ WriteSecrets \/ Commit
    BY <2>2, UndoSame, WriteSame, CommitSame
  <2>3. ASSUME NEW id \in Id,
               FillStage(id) \/ PlaceDirectory(id) \/ WriteMetadata(id) \/ MarkDeleted(id) \/ MoveToTrash(id)
        PROVE  Registry!Next \/ UNCHANGED Registry!vars
    BY <2>3, FillStageMaps, PlaceDirectorySame, WriteSame, MoveToTrashSame
  <2>4. ASSUME NEW id \in Id,
               \/ AcquireImages(id) \/ RemoveContainer(id) \/ StartContainer(id)
               \/ RemoveSource(id) \/ StartTarget(id)
        PROVE  UNCHANGED Registry!vars
    BY <2>4, FilesSame DEF AcquireImages, RemoveContainer, StartContainer, RemoveSource, StartTarget
  <2>q. QED
    BY <1>5, <2>1, <2>2, <2>3, <2>4 DEF Advance
<1>q. QED
  BY <1>1, <1>2, <1>3, <1>4, <1>5 DEF Next

(* ImplementsRegistry: the files implement module ComputerRegistry.  Every *)
(* command changes the set of computers, the trash and the tokens in one   *)
(* step, with the write of its journal (that of a backup restore when its  *)
(* directory is complete), and neither an interruption nor the recovery by *)
(* a later command changes them again.                                     *)
THEOREM RegistryImplemented == Spec => ImplementsRegistry
<1>1. Init => Registry!Init
  <2>1. SUFFICES ASSUME Init PROVE Registry!Init
    OBVIOUS
  <2>2. config = Empty /\ secrets = Empty /\ trash = Empty /\ journal = None
    BY <2>1 DEF Init
  <2>3. Live = Empty /\ Tokens = Empty /\ Trashed = Empty
    BY <2>2 DEF Live, Tokens, InTrash, TakesEffect, Empty, Trashed
  <2>q. QED
    BY <2>3 DEF Registry!Init, Empty, Trashed
<1>2. IInv /\ IInv' /\ [Next]_vars => [Registry!Next]_Registry!vars
  BY RegistryStep
<1>q. QED
  BY <1>1, <1>2, Invariance, PTL DEF Spec, ImplementsRegistry, Registry!Spec

-----------------------------------------------------------------------------
(* The mutations of the bounded file system                                *)

(***************************************************************************)
(* Every inode that is not free is at one place: under one name, under one *)
(* hidden name of the mutation, or left behind.                            *)
(***************************************************************************)
PlaceOK(E, H, K, L) ==
    /\ \A n, p \in FileName : E[n] # Absent /\ E[n] = E[p] => n = p
    /\ \A s, t \in Slot : H[s] # Absent /\ H[s] = H[t] => s = t
    /\ \A n \in FileName, s \in Slot : E[n] # Absent => E[n] # H[s]
    /\ \A o \in L : (\A n \in FileName : E[n] # o) /\ (\A s \in Slot : H[s] # o)
    /\ \A o \in Object : K[o] = "free" <=> /\ \A n \in FileName : E[n] # o
                                           /\ \A s \in Slot : H[s] # o
                                           /\ o \notin L

PlaceInv == PlaceOK(entry, mutation.hidden, kind, left)

Entries == [FileName -> Object \cup {Absent}]
Hidings == [Slot -> Object \cup {Absent}]
Kinds == [Object -> {"free", "file", "directory"}]

(***************************************************************************)
(* What is hidden at each step of a mutation, and what it has done.        *)
(***************************************************************************)
Transfers == {"copy", "copyOver", "move", "moveOver", "remove", "removeAll"}
Moves == {"move", "moveOver", "remove", "removeAll"}
Stages == {"write", "create", "edit", "copy", "copyOver"}
Removals == {"remove", "removeAll"}

Begun == {"stage", "recheck", "hideSource", "inspectSource", "hideTarget", "inspectTarget",
          "reinspect", "merge", "verify", "commit"}

\* What a mutation hides that has yet to put its result in place.
HidesOnly(h, slots) == \A s \in Slot : h[s] # Absent => s \in slots
HidesAll(h, slots) == \A s \in slots : h[s] # Absent

Shape(m) ==
    CASE m.step = "stage" -> m.op \in Stages /\ HidesOnly(m.hidden, {})
      [] m.step = "recheck" -> m.op = "edit" /\ HidesOnly(m.hidden, {"staged"}) /\ HidesAll(m.hidden, {"staged"})
      [] m.step = "hideSource" -> m.op \in Moves /\ HidesOnly(m.hidden, {})
      [] m.step = "inspectSource" -> m.op \in Moves /\ HidesOnly(m.hidden, {"source"}) /\ HidesAll(m.hidden, {"source"})
      [] m.step = "hideTarget" ->
            \/ m.op \in {"write", "edit", "copyOver"} /\ HidesOnly(m.hidden, {"staged"}) /\ HidesAll(m.hidden, {"staged"})
            \/ m.op = "moveOver" /\ HidesOnly(m.hidden, {"source"}) /\ HidesAll(m.hidden, {"source"})
      [] m.step = "inspectTarget" ->
            \/ m.op \in {"write", "edit", "copyOver"} /\ HidesOnly(m.hidden, {"staged", "target"}) /\ HidesAll(m.hidden, {"staged", "target"})
            \/ m.op = "moveOver" /\ HidesOnly(m.hidden, {"source", "target"}) /\ HidesAll(m.hidden, {"source", "target"})
      [] m.step = "reinspect" -> m.op = "edit" /\ HidesOnly(m.hidden, {"staged", "target"}) /\ HidesAll(m.hidden, {"staged", "target"})
      [] m.step = "merge" -> m.op = "copyOver" /\ HidesOnly(m.hidden, {"staged", "target"}) /\ HidesAll(m.hidden, {"staged", "target"})
      [] m.step = "verify" -> m.op \in {"move", "moveOver"} /\ HidesOnly(m.hidden, {"source", "target"}) /\ HidesAll(m.hidden, {"source"})
      [] m.step = "commit" ->
            \/ m.op = "mkdir" /\ HidesOnly(m.hidden, {})
            \/ m.op \in {"move", "moveOver"} /\ HidesOnly(m.hidden, {"source", "target"}) /\ HidesAll(m.hidden, {"source"})
            \/ m.op \in Stages /\ HidesOnly(m.hidden, {"staged", "merged", "target"}) /\ HidesAll(m.hidden, {"staged"})
               /\ (m.hidden["merged"] # Absent => m.op = "copyOver")
      [] m.step = "open" -> m.op = "mkdir" /\ HidesOnly(m.hidden, {})
      [] m.step \in {"confirm", "unlink"} ->
            IF m.op \in Removals THEN HidesOnly(m.hidden, {"source"}) /\ HidesAll(m.hidden, {"source"})
            ELSE HidesOnly(m.hidden, {"target"}) /\ HidesAll(m.hidden, {"target"})
      [] m.step = "sync" ->
            IF m.outcome = "ok" THEN HidesOnly(m.hidden, {}) ELSE HidesOnly(m.hidden, {"target"}) /\ HidesAll(m.hidden, {"target"})
      [] m.step \in {"recoverTarget", "recoverSource", "unstage"} ->
            /\ m.hidden["source"] # Absent => m.op \in Moves
            /\ m.step # "recoverTarget" /\ m.hidden["target"] # Absent /\ ~m.committed => m.outcome = "recovery_incomplete"
            /\ m.step = "unstage" /\ m.hidden["source"] # Absent => m.outcome = "recovery_incomplete"
            /\ m.committed => m.op = "copyOver" /\ HidesOnly(m.hidden, {"staged", "target"}) /\ HidesAll(m.hidden, {"staged"})
      [] OTHER -> TRUE

Progress(m) ==
    CASE m.step \in Begun -> ~m.committed /\ m.outcome = "ok"
      [] m.step = "open" -> m.committed /\ m.outcome = "ok"
      [] m.step \in {"confirm", "unlink"} -> (m.committed <=> m.op \notin Removals) /\ m.outcome = "ok"
      [] m.step = "sync" -> m.committed /\ m.outcome \in {"ok", "cleanup_incomplete"}
      [] m.step \in {"recoverTarget", "recoverSource"} ->
            ~m.committed /\ m.outcome \in {"error", "recovery_incomplete"}
      [] m.step = "unstage" -> IF m.committed THEN m.outcome = "ok"
                               ELSE m.outcome \in {"error", "recovery_incomplete"}
      [] OTHER -> TRUE

NameInv(m) ==
    /\ m.step = "idle" => m = NoMutation
    /\ m.step # "idle" => /\ m.to \in FileName
                          /\ m.op \in Transfers => m.from \in FileName /\ m.source.object \in Object

\* What an edit has hidden is what it has read, as long as nobody has touched it.
EditInv(m) ==
    m.op = "edit" /\ m.step \in {"reinspect", "commit", "confirm"} =>
        /\ m.target.object = m.hidden["target"] /\ m.expected.object = m.hidden["target"]
        /\ m.expected.resized => m.target.touched

ReadInv == read.id # NoIdentity => read.name \in FileName

Told(m) ==
    m.step = "ended" =>
        CASE m.outcome = "ok" -> m.committed /\ HiddenBy(m) = {}
          [] m.outcome = "error" -> (m.committed => m.op = "mkdir") /\ HiddenBy(m) = {}
          [] m.outcome = "cleanup_incomplete" -> m.committed /\ HiddenBy(m) = {m.hidden["target"]}
          [] m.outcome = "durability_uncertain" -> m.committed /\ HiddenBy(m) \subseteq {m.hidden["target"]}
          [] m.outcome = "recovery_incomplete" -> m.committed => m.hidden["staged"] # Absent

MutationInv(m) ==
    m \in Mutation /\ Shape(m) /\ Progress(m) /\ NameInv(m) /\ EditInv(m) /\ Told(m)

FilesInv == FilesTypeOK /\ PlaceInv /\ ReadInv /\ MutationInv(mutation)
-----------------------------------------------------------------------------
(* What a step does to the places of inodes.                               *)

\* A rename to a hidden name.
LEMMA HideKeeps ==
    ASSUME NEW E \in Entries, NEW H \in Hidings, NEW K \in Kinds, NEW L \in SUBSET Object,
           PlaceOK(E, H, K, L),
           NEW n \in FileName, NEW s \in Slot, E[n] # Absent, H[s] = Absent
    PROVE  PlaceOK([E EXCEPT ![n] = Absent], [H EXCEPT ![s] = E[n]], K, L)
BY FilesAssumption DEF PlaceOK, Entries, Hidings, Kinds

\* A rename from a hidden name.
LEMMA PutKeeps ==
    ASSUME NEW E \in Entries, NEW H \in Hidings, NEW K \in Kinds, NEW L \in SUBSET Object,
           PlaceOK(E, H, K, L),
           NEW n \in FileName, NEW s \in Slot, E[n] = Absent, H[s] # Absent
    PROVE  PlaceOK([E EXCEPT ![n] = H[s]], [H EXCEPT ![s] = Absent], K, L)
BY FilesAssumption DEF PlaceOK, Entries, Hidings, Kinds

\* A new inode under a name.
LEMMA MakeKeeps ==
    ASSUME NEW E \in Entries, NEW H \in Hidings, NEW K \in Kinds, NEW L \in SUBSET Object,
           PlaceOK(E, H, K, L),
           NEW n \in FileName, NEW o \in Object, NEW k \in {"file", "directory"},
           E[n] = Absent, K[o] = "free"
    PROVE  PlaceOK([E EXCEPT ![n] = o], H, [K EXCEPT ![o] = k], L)
BY FilesAssumption DEF PlaceOK, Entries, Hidings, Kinds

\* A new inode under a hidden name.
LEMMA StageKeeps ==
    ASSUME NEW E \in Entries, NEW H \in Hidings, NEW K \in Kinds, NEW L \in SUBSET Object,
           PlaceOK(E, H, K, L),
           NEW s \in Slot, NEW o \in Object, NEW k \in {"file", "directory"},
           H[s] = Absent, K[o] = "free"
    PROVE  PlaceOK(E, [H EXCEPT ![s] = o], [K EXCEPT ![o] = k], L)
BY FilesAssumption DEF PlaceOK, Entries, Hidings, Kinds

\* A name is removed.
LEMMA UnlinkKeeps ==
    ASSUME NEW E \in Entries, NEW H \in Hidings, NEW K \in Kinds, NEW L \in SUBSET Object,
           PlaceOK(E, H, K, L),
           NEW n \in FileName, E[n] # Absent
    PROVE  PlaceOK([E EXCEPT ![n] = Absent], H, [K EXCEPT ![E[n]] = "free"], L)
BY FilesAssumption DEF PlaceOK, Entries, Hidings, Kinds

\* A name becomes another, and replaces what was there.
LEMMA RenameKeeps ==
    ASSUME NEW E \in Entries, NEW H \in Hidings, NEW K \in Kinds, NEW L \in SUBSET Object,
           PlaceOK(E, H, K, L),
           NEW n \in FileName, NEW p \in FileName, n # p, E[n] # Absent
    PROVE  PlaceOK([E EXCEPT ![n] = Absent, ![p] = E[n]], H,
                   IF E[p] = Absent THEN K ELSE [K EXCEPT ![E[p]] = "free"], L)
BY FilesAssumption DEF PlaceOK, Entries, Hidings, Kinds

\* Some of what is hidden is removed.
Dropped(H, D) == [s \in Slot |-> IF s \in D THEN Absent ELSE H[s]]
Freed(K, H, D) == [o \in Object |-> IF \E s \in D : H[s] = o THEN "free" ELSE K[o]]

LEMMA DropKeeps ==
    ASSUME NEW E \in Entries, NEW H \in Hidings, NEW K \in Kinds, NEW L \in SUBSET Object,
           PlaceOK(E, H, K, L),
           NEW D \in SUBSET Slot, \A s \in D : H[s] # Absent
    PROVE  PlaceOK(E, Dropped(H, D), Freed(K, H, D), L)
BY FilesAssumption DEF PlaceOK, Entries, Hidings, Kinds, Dropped, Freed

\* What is hidden is left behind.
LEMMA LeaveKeeps ==
    ASSUME NEW E \in Entries, NEW H \in Hidings, NEW K \in Kinds, NEW L \in SUBSET Object,
           PlaceOK(E, H, K, L)
    PROVE  PlaceOK(E, NothingHidden, K, L \cup ({H[s] : s \in Slot} \ {Absent}))
BY FilesAssumption DEF PlaceOK, Entries, Hidings, Kinds, NothingHidden

-----------------------------------------------------------------------------
(* Steps of a mutation that move no inode.                                 *)

LEMMA PlaceFacts ==
    ASSUME FilesInv
    PROVE  /\ entry \in Entries /\ mutation.hidden \in Hidings /\ kind \in Kinds /\ left \in SUBSET Object
           /\ PlaceOK(entry, mutation.hidden, kind, left)
           /\ mutation \in Mutation
BY DEF FilesInv, FilesTypeOK, PlaceInv, Entries, Hidings, Kinds, Mutation

LEMMA StillStep ==
    ASSUME FilesInv, UNCHANGED <<entry, kind, read, left>>, mutation'.hidden = mutation.hidden,
           MutationInv(mutation')
    PROVE  FilesInv'
BY DEF FilesInv, FilesTypeOK, PlaceInv, ReadInv, MutationInv

\* A mutation that fails before it has taken effect is undone.
LEMMA FailsKeeps ==
    ASSUME NEW m, MutationInv(m), m.step \in Begun \/ (m.step \in {"confirm", "unlink"} /\ m.op \in Removals),
           NEW o \in {"error", "recovery_incomplete"}
    PROVE  MutationInv([m EXCEPT !.step = "recoverTarget", !.outcome = o])
<1> DEFINE w == [m EXCEPT !.step = "recoverTarget", !.outcome = o]
<1>1. /\ m \in Mutation /\ Shape(m) /\ Progress(m) /\ NameInv(m)
  BY DEF MutationInv
<1>2. /\ w \in Mutation /\ w.step = "recoverTarget" /\ w.outcome = o /\ w.op = m.op /\ w.hidden = m.hidden
      /\ w.committed = m.committed /\ w.to = m.to /\ w.from = m.from /\ w.source = m.source
  BY <1>1 DEF Mutation, MutationStep, Outcome
<1> HIDE DEF w
<1>3. Progress(w)
  BY <1>1, <1>2 DEF Progress, Begun
<1>4. Shape(w)
  <2>1. m.hidden["source"] # Absent => m.op \in Moves
    BY <1>1 DEF Shape, HidesOnly, Slot, Begun, Moves, Removals
  <2>q. QED
    BY <1>2, <1>3, <2>1 DEF Shape, Progress
<1>5. NameInv(w)
  BY <1>1, <1>2 DEF NameInv, Begun
<1>q. QED
  BY <1>2, <1>3, <1>4, <1>5 DEF MutationInv, EditInv, Told, w

LEMMA FailStep ==
    ASSUME FilesInv, UNCHANGED <<entry, kind, read, left>>,
           mutation.step \in Begun \/ (mutation.step \in {"confirm", "unlink"} /\ mutation.op \in Removals),
           NEW o \in {"error", "recovery_incomplete"}, FailsWith(o)
    PROVE  FilesInv'
<1>1. MutationInv(mutation) /\ mutation \in Mutation
  BY DEF FilesInv, MutationInv
<1>2. mutation' = [mutation EXCEPT !.step = "recoverTarget", !.outcome = o]
  BY DEF FailsWith
<1>3. MutationInv(mutation')
  BY <1>1, <1>2, FailsKeeps
<1>4. mutation'.hidden = mutation.hidden
  BY <1>1, <1>2 DEF Mutation
<1>q. QED
  BY <1>3, <1>4, StillStep

LEMMA RecheckStep ==
    ASSUME FilesInv, Recheck
    PROVE  FilesInv'
<1>1. /\ MutationInv(mutation) /\ mutation \in Mutation /\ mutation.step = "recheck"
      /\ UNCHANGED <<entry, kind, read, left>>
  BY DEF FilesInv, MutationInv, Recheck, In
<1>2. ASSUME Goes("hideTarget")
      PROVE  FilesInv'
  <2> DEFINE w == mutation'
  <2>1. /\ w \in Mutation /\ w.step = "hideTarget" /\ w.op = mutation.op /\ w.from = mutation.from
        /\ w.to = mutation.to /\ w.hidden = mutation.hidden /\ w.source = mutation.source
        /\ w.committed = mutation.committed /\ w.outcome = mutation.outcome
    BY <1>1, <1>2 DEF Goes, Mutation, MutationStep
  <2> HIDE DEF w
  <2>2. Shape(w)
    BY <1>1, <2>1 DEF MutationInv, Shape
  <2>3. Progress(w)
    BY <1>1, <2>1 DEF MutationInv, Progress, Begun
  <2>4. NameInv(w) /\ EditInv(w) /\ Told(w)
    BY <1>1, <2>1 DEF MutationInv, NameInv, EditInv, Told
  <2>q. QED
    BY <1>1, <2>1, <2>2, <2>3, <2>4, StillStep DEF MutationInv, w
<1>q. QED
  BY <1>1, <1>2, FailStep DEF Recheck, Fails, Begun

\* What the mutation is about to hide, and what it has hidden, exists.
LEMMA NamesExist ==
    ASSUME FilesInv, mutation.step # "idle"
    PROVE  /\ mutation.to \in FileName
           /\ mutation.op \in Transfers => mutation.from \in FileName /\ mutation.source.object \in Object
           /\ \A s \in Slot : mutation.hidden[s] \in Object \cup {Absent}
           /\ MutationInv(mutation) /\ mutation \in Mutation
BY DEF FilesInv, MutationInv, NameInv, Mutation

LEMMA InspectSourceStep ==
    ASSUME FilesInv, InspectSource
    PROVE  FilesInv'
<1>1. /\ MutationInv(mutation) /\ mutation \in Mutation /\ mutation.step = "inspectSource"
      /\ UNCHANGED <<entry, kind, read, left>>
  BY DEF FilesInv, MutationInv, InspectSource, In
<1>2. /\ mutation.op \in Moves /\ HidesOnly(mutation.hidden, {"source"}) /\ HidesAll(mutation.hidden, {"source"})
      /\ mutation.hidden["source"] \in Object
  BY <1>1, NamesExist DEF MutationInv, Shape, HidesAll, Slot
<1>3. ASSUME mutation' = [mutation EXCEPT !.source = IdentityOf(mutation.hidden["source"]), !.step = AfterSource]
      PROVE  FilesInv'
  <2> DEFINE w == mutation'
  <2>1. AfterSource \in {"hideTarget", "verify", "confirm"}
    BY DEF AfterSource
  <2>2. /\ w \in Mutation /\ w.step = AfterSource /\ w.op = mutation.op /\ w.from = mutation.from
        /\ w.to = mutation.to /\ w.hidden = mutation.hidden /\ w.source.object \in Object
        /\ w.committed = mutation.committed /\ w.outcome = mutation.outcome
    BY <1>1, <1>2, <1>3, <2>1 DEF Mutation, MutationStep, IdentityOf, Identity
  <2> HIDE DEF w
  <2>3. Shape(w)
    <3>1. HidesOnly(w.hidden, {"source", "target"})
      BY <1>2, <2>2 DEF HidesOnly
    <3>q. QED
      BY <1>2, <2>2, <3>1 DEF Shape, AfterSource, Moves, Removals
  <2>4. Progress(w)
    BY <1>1, <1>2, <2>2 DEF MutationInv, Progress, Begun, AfterSource, Moves, Removals
  <2>5. NameInv(w) /\ EditInv(w) /\ Told(w)
    BY <1>1, <1>2, <2>1, <2>2 DEF MutationInv, NameInv, EditInv, Told, Moves
  <2>q. QED
    BY <1>1, <2>2, <2>3, <2>4, <2>5, StillStep DEF MutationInv, w
<1>q. QED
  BY <1>1, <1>3, FailStep DEF InspectSource, Fails, Begun

LEMMA InspectTargetStep ==
    ASSUME FilesInv, InspectTarget
    PROVE  FilesInv'
<1> DEFINE o == mutation.hidden["target"]
           next == CASE mutation.op = "edit" -> "reinspect"
                     [] mutation.op = "copyOver" /\ kind[o] = "directory" -> "merge"
                     [] OTHER -> AfterTarget
<1>1. /\ MutationInv(mutation) /\ mutation \in Mutation /\ mutation.step = "inspectTarget"
      /\ UNCHANGED <<entry, kind, read, left>>
  BY DEF FilesInv, MutationInv, InspectTarget, In
<1>2. \/ /\ mutation.op \in {"write", "edit", "copyOver"}
         /\ HidesOnly(mutation.hidden, {"staged", "target"}) /\ HidesAll(mutation.hidden, {"staged", "target"})
      \/ /\ mutation.op = "moveOver"
         /\ HidesOnly(mutation.hidden, {"source", "target"}) /\ HidesAll(mutation.hidden, {"source", "target"})
  BY <1>1 DEF MutationInv, Shape
<1>3. o \in Object
  BY <1>1, <1>2, NamesExist DEF HidesAll, Slot
<1>4. ASSUME Accepted(o), mutation' = [mutation EXCEPT !.target = IdentityOf(o), !.step = next]
      PROVE  FilesInv'
  <2> DEFINE w == mutation'
  <2>1. /\ mutation.op = "edit" => next = "reinspect"
        /\ mutation.op = "write" => next = "commit"
        /\ mutation.op = "copyOver" => next \in {"merge", "commit"}
        /\ mutation.op = "moveOver" => next = "verify"
        /\ next \in {"reinspect", "merge", "verify", "commit"}
    BY <1>2 DEF AfterTarget
  <2> HIDE DEF next
  <2>2. /\ w \in Mutation /\ w.step = next /\ w.op = mutation.op /\ w.from = mutation.from
        /\ w.to = mutation.to /\ w.hidden = mutation.hidden /\ w.source = mutation.source
        /\ w.committed = mutation.committed /\ w.outcome = mutation.outcome
        /\ w.expected = mutation.expected /\ w.target = IdentityOf(o)
    BY <1>1, <1>3, <1>4, <2>1 DEF Mutation, MutationStep, IdentityOf, Identity
  <2> HIDE DEF w
  <2>3. Shape(w)
    <3>1. /\ HidesOnly(w.hidden, {"staged", "target"}) => HidesOnly(w.hidden, {"staged", "merged", "target"})
          /\ HidesAll(w.hidden, {"staged", "target"}) => HidesAll(w.hidden, {"staged"})
          /\ HidesAll(w.hidden, {"source", "target"}) => HidesAll(w.hidden, {"source"})
          /\ HidesOnly(w.hidden, {"staged", "target"}) => w.hidden["merged"] = Absent
      BY DEF HidesOnly, HidesAll, Slot
    <3>q. QED
      BY <1>2, <2>1, <2>2, <3>1 DEF Shape, Stages
  <2>4. Progress(w)
    BY <1>1, <2>1, <2>2 DEF MutationInv, Progress, Begun
  <2>5. NameInv(w) /\ Told(w)
    BY <1>1, <2>1, <2>2 DEF MutationInv, NameInv, Told
  <2>6. EditInv(w)
    BY <1>4, <2>2 DEF EditInv, Accepted, SameRenamed, IdentityOf
  <2>q. QED
    BY <1>1, <2>2, <2>3, <2>4, <2>5, <2>6, StillStep DEF MutationInv, w
<1>q. QED
  BY <1>1, <1>4, FailStep DEF InspectTarget, Fails, Begun

LEMMA ToCommitStep ==
    ASSUME FilesInv, Reinspect \/ Verify
    PROVE  FilesInv'
<1>1. /\ MutationInv(mutation) /\ mutation \in Mutation /\ mutation.step \in {"reinspect", "verify"}
      /\ UNCHANGED <<entry, kind, read, left>>
  BY DEF FilesInv, MutationInv, Reinspect, Verify, In
<1>2. ASSUME Goes("commit")
      PROVE  FilesInv'
  <2> DEFINE w == mutation'
  <2>1. /\ w \in Mutation /\ w.step = "commit" /\ w.op = mutation.op /\ w.from = mutation.from
        /\ w.to = mutation.to /\ w.hidden = mutation.hidden /\ w.source = mutation.source
        /\ w.committed = mutation.committed /\ w.outcome = mutation.outcome
        /\ w.expected = mutation.expected /\ w.target = mutation.target
    BY <1>1, <1>2 DEF Goes, Mutation, MutationStep
  <2> HIDE DEF w
  <2>2. Shape(w)
    <3>1. /\ HidesOnly(w.hidden, {"staged", "target"}) => HidesOnly(w.hidden, {"staged", "merged", "target"})
          /\ HidesAll(w.hidden, {"staged", "target"}) => HidesAll(w.hidden, {"staged"})
          /\ HidesOnly(w.hidden, {"staged", "target"}) => w.hidden["merged"] = Absent
      BY DEF HidesOnly, HidesAll, Slot
    <3>q. QED
      BY <1>1, <2>1, <3>1 DEF MutationInv, Shape, Stages
  <2>3. Progress(w)
    BY <1>1, <2>1 DEF MutationInv, Progress, Begun
  <2>4. NameInv(w) /\ EditInv(w) /\ Told(w)
    <3>1. mutation.step = "verify" => mutation.op # "edit"
      BY <1>1 DEF MutationInv, Shape
    <3>q. QED
      BY <1>1, <2>1, <3>1 DEF MutationInv, NameInv, EditInv, Told
  <2>q. QED
    BY <1>1, <2>1, <2>2, <2>3, <2>4, StillStep DEF MutationInv, w
<1>q. QED
  BY <1>1, <1>2, FailStep DEF Reinspect, Verify, Fails, Begun

LEMMA OpenMadeStep ==
    ASSUME FilesInv, OpenMade
    PROVE  FilesInv'
<1>1. /\ MutationInv(mutation) /\ mutation \in Mutation /\ mutation.step = "open"
      /\ UNCHANGED <<entry, kind, read, left>>
      /\ \/ mutation' = [mutation EXCEPT !.step = "sync"]
         \/ mutation' = [mutation EXCEPT !.step = "ended", !.outcome = "error"]
  BY DEF FilesInv, MutationInv, OpenMade, In, Goes
<1>2. /\ mutation.op = "mkdir" /\ HidesOnly(mutation.hidden, {})
      /\ mutation.committed /\ mutation.outcome = "ok"
  BY <1>1 DEF MutationInv, Shape, Progress, Begun
<1> DEFINE w == mutation'
<1>3. /\ w \in Mutation /\ w.op = mutation.op /\ w.to = mutation.to /\ w.hidden = mutation.hidden
      /\ w.committed = mutation.committed
      /\ (w.step = "sync" /\ w.outcome = "ok") \/ (w.step = "ended" /\ w.outcome = "error")
  BY <1>1, <1>2 DEF Mutation, MutationStep, Outcome
<1> HIDE DEF w
<1>4. HiddenBy(w) = {}
  BY <1>2, <1>3 DEF HiddenBy, HidesOnly
<1>5. Shape(w) /\ Progress(w)
  BY <1>2, <1>3 DEF Shape, Progress, Begun
<1>6. NameInv(w) /\ EditInv(w) /\ Told(w)
  BY <1>1, <1>2, <1>3, <1>4 DEF MutationInv, NameInv, EditInv, Told, Transfers
<1>q. QED
  BY <1>1, <1>3, <1>5, <1>6, StillStep DEF MutationInv, w

\* The old entry stays when it cannot be removed.
LEMMA CleanupFailsStep ==
    ASSUME FilesInv, mutation.step \in {"confirm", "unlink"}, CleanupFails,
           UNCHANGED <<entry, kind, read, left>>
    PROVE  FilesInv'
<1>1. MutationInv(mutation) /\ mutation \in Mutation
  BY DEF FilesInv, MutationInv
<1>2. CASE IsRemoval
  BY <1>2, FailStep DEF CleanupFails, RemovalFails, IsRemoval, Removals
<1>3. CASE ~IsRemoval
  <2> DEFINE w == mutation'
  <2>1. mutation.op \notin Removals
    BY <1>3 DEF IsRemoval, Removals
  <2>2. /\ HidesOnly(mutation.hidden, {"target"}) /\ HidesAll(mutation.hidden, {"target"})
        /\ mutation.committed
    BY <1>1, <2>1 DEF MutationInv, Shape, Progress, Begun
  <2>3. mutation' = [mutation EXCEPT !.step = "sync", !.outcome = "cleanup_incomplete"]
    BY <1>3 DEF CleanupFails
  <2>4. /\ w \in Mutation /\ w.step = "sync" /\ w.outcome = "cleanup_incomplete" /\ w.op = mutation.op
        /\ w.to = mutation.to /\ w.hidden = mutation.hidden /\ w.committed = mutation.committed
        /\ w.from = mutation.from /\ w.source = mutation.source
    BY <1>1, <2>3 DEF Mutation, MutationStep, Outcome
  <2> HIDE DEF w
  <2>5. Shape(w) /\ Progress(w)
    BY <2>2, <2>4 DEF Shape, Progress, Begun
  <2>6. NameInv(w) /\ EditInv(w) /\ Told(w)
    BY <1>1, <2>4 DEF MutationInv, NameInv, EditInv, Told
  <2>q. QED
    BY <2>4, <2>5, <2>6, StillStep DEF MutationInv, w
<1>q. QED
  BY <1>2, <1>3

LEMMA ConfirmStep ==
    ASSUME FilesInv, Confirm
    PROVE  FilesInv'
<1>1. /\ MutationInv(mutation) /\ mutation \in Mutation /\ mutation.step = "confirm"
      /\ UNCHANGED <<entry, kind, read, left>>
  BY DEF FilesInv, MutationInv, Confirm, In
<1>2. ASSUME Goes("unlink")
      PROVE  FilesInv'
  <2> DEFINE w == mutation'
  <2>1. /\ w \in Mutation /\ w.step = "unlink" /\ w.op = mutation.op /\ w.from = mutation.from
        /\ w.to = mutation.to /\ w.hidden = mutation.hidden /\ w.source = mutation.source
        /\ w.committed = mutation.committed /\ w.outcome = mutation.outcome
    BY <1>1, <1>2 DEF Goes, Mutation, MutationStep
  <2> HIDE DEF w
  <2>2. Shape(w) /\ Progress(w)
    BY <1>1, <2>1 DEF MutationInv, Shape, Progress, Begun
  <2>3. NameInv(w) /\ EditInv(w) /\ Told(w)
    BY <1>1, <2>1 DEF MutationInv, NameInv, EditInv, Told
  <2>q. QED
    BY <1>1, <2>1, <2>2, <2>3, StillStep DEF MutationInv, w
<1>q. QED
  BY <1>1, <1>2, CleanupFailsStep DEF Confirm

LEMMA SyncStep ==
    ASSUME FilesInv, Sync
    PROVE  FilesInv'
<1>1. /\ MutationInv(mutation) /\ mutation \in Mutation /\ mutation.step = "sync"
      /\ UNCHANGED <<entry, kind, read, left>>
      /\ \/ mutation' = [mutation EXCEPT !.step = "ended"]
         \/ mutation' = [mutation EXCEPT !.step = "ended", !.outcome = "durability_uncertain"]
  BY DEF FilesInv, MutationInv, Sync, In, Goes
<1>2. /\ mutation.committed /\ mutation.outcome \in {"ok", "cleanup_incomplete"}
      /\ IF mutation.outcome = "ok" THEN HidesOnly(mutation.hidden, {})
         ELSE HidesOnly(mutation.hidden, {"target"}) /\ HidesAll(mutation.hidden, {"target"})
  BY <1>1 DEF MutationInv, Shape, Progress, Begun
<1> DEFINE w == mutation'
<1>3. /\ w \in Mutation /\ w.step = "ended" /\ w.outcome \in {mutation.outcome, "durability_uncertain"}
      /\ w.op = mutation.op /\ w.to = mutation.to /\ w.hidden = mutation.hidden
      /\ w.committed = mutation.committed /\ w.from = mutation.from /\ w.source = mutation.source
  BY <1>1 DEF Mutation, MutationStep, Outcome
<1> HIDE DEF w
<1>4. IF mutation.outcome = "ok" THEN HiddenBy(w) = {} ELSE HiddenBy(w) = {w.hidden["target"]}
  BY <1>2, <1>3 DEF HiddenBy, HidesOnly, HidesAll, Slot
<1>5. Shape(w) /\ Progress(w)
  BY <1>3 DEF Shape, Progress, Begun
<1>6. NameInv(w) /\ EditInv(w) /\ Told(w)
  BY <1>1, <1>2, <1>3, <1>4 DEF MutationInv, NameInv, EditInv, Told
<1>q. QED
  BY <1>1, <1>3, <1>5, <1>6, StillStep DEF MutationInv, w

-----------------------------------------------------------------------------
(* Steps of a mutation that move an inode.                                 *)

LEMMA MovingStep ==
    ASSUME FilesInv, entry' \in Entries, kind' \in Kinds, left' \in SUBSET Object,
           read' \in [name : FileName \cup {Absent}, id : Identity \cup {NoIdentity}], ReadInv',
           MutationInv(mutation'), PlaceOK(entry', mutation'.hidden, kind', left')
    PROVE  FilesInv'
BY DEF FilesInv, FilesTypeOK, PlaceInv, MutationInv, Entries, Kinds

LEMMA NotedType ==
    ASSUME NEW id \in Identity \cup {NoIdentity}, NEW o \in Object, NEW resized \in BOOLEAN
    PROVE  /\ Noted(id, o, resized) \in Identity \cup {NoIdentity}
           /\ Noted(id, o, resized).object = id.object
           /\ Noted(id, o, resized) # NoIdentity => id # NoIdentity
           /\ id = NoIdentity => Noted(id, o, resized) = NoIdentity
<1>1. CASE id = NoIdentity
  BY <1>1, FilesAssumption DEF Noted, NoIdentity
<1>2. CASE id \in Identity
  <2>1. id # NoIdentity
    BY <1>2, FilesAssumption DEF Identity, NoIdentity
  <2>q. QED
    BY <1>2, <2>1 DEF Noted, Identity
<1>q. QED
  BY <1>1, <1>2

LEMMA ReadKeeps ==
    ASSUME FilesInv, NEW o \in Object, NEW resized \in BOOLEAN,
           \/ UNCHANGED read
           \/ read' = [read EXCEPT !.id = Noted(@, o, resized)]
    PROVE  read' \in [name : FileName \cup {Absent}, id : Identity \cup {NoIdentity}] /\ ReadInv'
<1>1. read \in [name : FileName \cup {Absent}, id : Identity \cup {NoIdentity}] /\ ReadInv
  BY DEF FilesInv, FilesTypeOK
<1>2. CASE UNCHANGED read
  BY <1>1, <1>2 DEF ReadInv
<1>3. CASE read' = [read EXCEPT !.id = Noted(@, o, resized)]
  <2>1. read.id \in Identity \cup {NoIdentity}
    BY <1>1
  <2>2. read'.name = read.name /\ read'.id = Noted(read.id, o, resized)
    BY <1>1, <1>3
  <2>3. /\ Noted(read.id, o, resized) \in Identity \cup {NoIdentity}
        /\ Noted(read.id, o, resized) # NoIdentity => read.id # NoIdentity
    BY <2>1, NotedType
  <2>4. read' \in [name : FileName \cup {Absent}, id : Identity \cup {NoIdentity}]
    BY <1>1, <1>3, <2>3
  <2>q. QED
    BY <1>1, <2>2, <2>3, <2>4 DEF ReadInv
<1>q. QED
  BY <1>2, <1>3

\* A step that changes what is under one hidden name, and how it leaves the mutation.
Hiding(m, s, o, next) == [m EXCEPT !.hidden[s] = o, !.step = next]

Moved(w, m, hidden, next, outcome, committed) ==
    /\ w \in Mutation /\ w.op = m.op /\ w.from = m.from /\ w.to = m.to
    /\ w.hidden = hidden /\ w.source = m.source /\ w.expected = m.expected /\ w.target = m.target
    /\ w.step = next /\ w.outcome = outcome /\ w.committed = committed

LEMMA HidingFields ==
    ASSUME NEW m \in Mutation, NEW s \in Slot, NEW o \in Object \cup {Absent},
           NEW next \in MutationStep
    PROVE  Moved(Hiding(m, s, o, next), m, [m.hidden EXCEPT ![s] = o], next, m.outcome, m.committed)
<1> DEFINE h == [m.hidden EXCEPT ![s] = o]
           w == Hiding(m, s, o, next)
<1>1. h \in Hidings /\ w = [m EXCEPT !.hidden = h, !.step = next]
  <2>1. m.hidden \in Hidings
    BY DEF Mutation, Hidings
  <2>q. QED
    BY <2>1 DEF Hidings, Hiding
<1> HIDE DEF h, w
<1>2. Moved(w, m, h, next, m.outcome, m.committed)
  BY <1>1 DEF Mutation, Hidings, Moved
<1>q. QED
  BY <1>2 DEF h, w

\* The same of a step that fails.
HidingError(m, s, o, next, outcome) == [m EXCEPT !.hidden[s] = o, !.outcome = outcome, !.step = next]

LEMMA HidingErrorFields ==
    ASSUME NEW m \in Mutation, NEW s \in Slot, NEW o \in Object \cup {Absent},
           NEW next \in MutationStep, NEW outcome \in Outcome
    PROVE  Moved(HidingError(m, s, o, next, outcome), m, [m.hidden EXCEPT ![s] = o],
                 next, outcome, m.committed)
<1> DEFINE h == [m.hidden EXCEPT ![s] = o]
           w == HidingError(m, s, o, next, outcome)
<1>1. h \in Hidings /\ w = [m EXCEPT !.hidden = h, !.outcome = outcome, !.step = next]
  <2>1. m.hidden \in Hidings
    BY DEF Mutation, Hidings
  <2>q. QED
    BY <2>1 DEF Hidings, HidingError
<1> HIDE DEF h, w
<1>2. Moved(w, m, h, next, outcome, m.committed)
  BY <1>1 DEF Mutation, Hidings, Moved
<1>q. QED
  BY <1>2 DEF h, w

LEMMA StageStep ==
    ASSUME FilesInv, Stage
    PROVE  FilesInv'
<1>1. /\ MutationInv(mutation) /\ mutation \in Mutation /\ mutation.step = "stage"
      /\ UNCHANGED <<entry, read, left>>
  BY DEF FilesInv, MutationInv, Stage, In
<1>2. /\ mutation.op \in Stages /\ HidesOnly(mutation.hidden, {}) /\ ~mutation.committed /\ mutation.outcome = "ok"
      /\ mutation.to \in FileName
      /\ mutation.op \in {"copy", "copyOver"} => mutation.from \in FileName /\ mutation.source.object \in Object
  BY <1>1, NamesExist DEF MutationInv, Shape, Progress, Begun, Transfers
<1>3. ASSUME Fails, UNCHANGED kind
      PROVE  FilesInv'
  BY <1>1, <1>3, FailStep DEF Fails, Begun
<1>4. ASSUME NEW o \in Free,
             mutation.op \in {"copy", "copyOver"} => Same(mutation.source, entry[mutation.from]),
             kind' = [kind EXCEPT ![o] = IF mutation.op \in {"copy", "copyOver"}
                                         THEN kind[mutation.source.object] ELSE "file"],
             \/ mutation' = [mutation EXCEPT !.hidden["staged"] = o, !.step = AfterStage]
             \/ mutation' = [mutation EXCEPT !.hidden["staged"] = o, !.outcome = "error", !.step = "recoverTarget"]
      PROVE  FilesInv'
  <2> DEFINE w == mutation'
             k == IF mutation.op \in {"copy", "copyOver"} THEN kind[mutation.source.object] ELSE "file"
  <2>1. /\ AfterStage \in {"recheck", "hideTarget", "commit"}
        /\ AfterStage = "recheck" => mutation.op = "edit"
        /\ AfterStage = "hideTarget" => mutation.op \in {"write", "copyOver"}
        /\ AfterStage = "commit" => mutation.op # "edit"
    BY DEF AfterStage
  <2>2. /\ w \in Mutation /\ w.op = mutation.op /\ w.from = mutation.from /\ w.to = mutation.to
        /\ w.hidden = [mutation.hidden EXCEPT !["staged"] = o] /\ w.source = mutation.source
        /\ w.committed = mutation.committed
        /\ \/ w.step = AfterStage /\ w.outcome = mutation.outcome
           \/ w.step = "recoverTarget" /\ w.outcome = "error"
    <3>1. o \in Object \cup {Absent} /\ AfterStage \in MutationStep /\ "staged" \in Slot
      BY <2>1 DEF Free, MutationStep, Slot
    <3>2. CASE mutation' = [mutation EXCEPT !.hidden["staged"] = o, !.step = AfterStage]
      <4>1. Moved(Hiding(mutation, "staged", o, AfterStage), mutation, [mutation.hidden EXCEPT !["staged"] = o],
                  AfterStage, mutation.outcome, mutation.committed)
        BY <1>1, <3>1, HidingFields
      <4>q. QED
        BY <3>2, <4>1 DEF Hiding, Moved
    <3>3. CASE mutation' = [mutation EXCEPT !.hidden["staged"] = o, !.outcome = "error", !.step = "recoverTarget"]
      <4>1. Moved(HidingError(mutation, "staged", o, "recoverTarget", "error"), mutation,
                  [mutation.hidden EXCEPT !["staged"] = o], "recoverTarget", "error", mutation.committed)
        BY <1>1, <3>1, HidingErrorFields DEF MutationStep, Outcome
      <4>q. QED
        BY <3>3, <4>1 DEF HidingError, Moved
    <3>q. QED
      BY <1>4, <3>2, <3>3
  <2> HIDE DEF w
  <2>3. mutation.hidden["staged"] = Absent /\ o \in Object /\ kind[o] = "free"
    BY <1>2 DEF HidesOnly, Slot, Free
  <2>4. k \in {"file", "directory"}
    <3>1. CASE mutation.op \in {"copy", "copyOver"}
      <4>1. entry[mutation.from] = mutation.source.object
        BY <1>4, <3>1 DEF Same
      <4>q. QED
        BY <1>2, <3>1, <4>1, PlaceFacts DEF PlaceOK, Kinds
    <3>2. CASE mutation.op \notin {"copy", "copyOver"}
      BY <3>2
    <3>q. QED
      BY <3>1, <3>2
  <2> HIDE DEF k
  <2>5. PlaceOK(entry', w.hidden, kind', left')
    <3>1. kind' = [kind EXCEPT ![o] = k]
      BY <1>4 DEF k
    <3>2. PlaceOK(entry, [mutation.hidden EXCEPT !["staged"] = o], [kind EXCEPT ![o] = k], left)
      BY <2>3, <2>4, PlaceFacts, StageKeeps DEF Slot
    <3>q. QED
      BY <1>1, <2>2, <3>1, <3>2
  <2>6. HidesOnly(w.hidden, {"staged"}) /\ HidesAll(w.hidden, {"staged"}) /\ w.hidden["source"] = Absent
    BY <1>1, <1>2, <2>2, <2>3, FilesAssumption DEF HidesOnly, HidesAll, Slot, Mutation
  <2>7. Shape(w) /\ Progress(w)
    <3>1. HidesOnly(w.hidden, {"staged", "merged", "target"}) /\ w.hidden["merged"] = Absent
      BY <2>6 DEF HidesOnly, Slot
    <3>q. QED
      BY <1>2, <2>1, <2>2, <2>6, <3>1 DEF Shape, Progress, Begun, Stages
  <2>8. NameInv(w) /\ EditInv(w) /\ Told(w)
    BY <1>1, <1>2, <2>1, <2>2 DEF MutationInv, NameInv, EditInv, Told
  <2>9. entry' \in Entries /\ kind' \in Kinds /\ left' \in SUBSET Object
    BY <1>1, <1>4, <2>4, PlaceFacts DEF Kinds, k
  <2>q. QED
    BY <1>1, <2>2, <2>3, <2>5, <2>7, <2>8, <2>9, ReadKeeps, MovingStep DEF MutationInv, w
<1>q. QED
  BY <1>3, <1>4 DEF Stage

LEMMA HideSourceStep ==
    ASSUME FilesInv, HideSource
    PROVE  FilesInv'
<1>1. /\ MutationInv(mutation) /\ mutation \in Mutation /\ mutation.step = "hideSource"
      /\ UNCHANGED <<kind, left>>
  BY DEF FilesInv, MutationInv, HideSource, In
<1>2. /\ mutation.op \in Moves /\ HidesOnly(mutation.hidden, {}) /\ ~mutation.committed /\ mutation.outcome = "ok"
      /\ mutation.to \in FileName /\ mutation.from \in FileName /\ mutation.source.object \in Object
  BY <1>1, NamesExist DEF MutationInv, Shape, Progress, Begun, Transfers, Moves
<1>3. ASSUME Fails, UNCHANGED <<entry, read>>
      PROVE  FilesInv'
  BY <1>1, <1>3, FailStep DEF Fails, Begun
<1>4. ASSUME entry[mutation.from] # Absent, Hide("source", mutation.from, "inspectSource")
      PROVE  FilesInv'
  <2> DEFINE w == mutation'
             o == entry[mutation.from]
  <2>1. o \in Object /\ mutation.hidden["source"] = Absent
    BY <1>2, <1>4, PlaceFacts DEF Entries, HidesOnly, Slot
  <2>2. /\ w \in Mutation /\ w.op = mutation.op /\ w.from = mutation.from /\ w.to = mutation.to
        /\ w.hidden = [mutation.hidden EXCEPT !["source"] = o] /\ w.source = mutation.source
        /\ w.committed = mutation.committed /\ w.step = "inspectSource" /\ w.outcome = mutation.outcome
    <3>1. w = Hiding(mutation, "source", o, "inspectSource")
      BY <1>4 DEF Hide, Hiding
    <3>2. Moved(w, mutation, [mutation.hidden EXCEPT !["source"] = o], "inspectSource", mutation.outcome, mutation.committed)
      BY <1>1, <2>1, <3>1, HidingFields DEF Slot, MutationStep
    <3>q. QED
      BY <3>2 DEF Moved
  <2> HIDE DEF w
  <2>3. entry' = [entry EXCEPT ![mutation.from] = Absent]
    BY <1>4 DEF Hide
  <2>4. PlaceOK(entry', w.hidden, kind', left')
    <3>1. PlaceOK([entry EXCEPT ![mutation.from] = Absent], [mutation.hidden EXCEPT !["source"] = o], kind, left)
      BY <1>2, <1>4, <2>1, PlaceFacts, HideKeeps DEF Slot
    <3>q. QED
      BY <1>1, <2>2, <2>3, <3>1
  <2>5. HidesOnly(w.hidden, {"source"}) /\ HidesAll(w.hidden, {"source"})
    BY <1>1, <1>2, <1>4, <2>2, FilesAssumption DEF HidesOnly, HidesAll, Slot, Mutation
  <2>6. Shape(w) /\ Progress(w)
    BY <1>2, <2>2, <2>5 DEF Shape, Progress, Begun
  <2>7. NameInv(w) /\ EditInv(w) /\ Told(w)
    BY <1>2, <2>2 DEF NameInv, EditInv, Told
  <2>8. entry' \in Entries /\ kind' \in Kinds /\ left' \in SUBSET Object
    BY <1>1, <2>3, PlaceFacts DEF Entries
  <2>9. read' = [read EXCEPT !.id = Noted(@, o, FALSE)]
    BY <1>4 DEF Hide
  <2>10. read' \in [name : FileName \cup {Absent}, id : Identity \cup {NoIdentity}] /\ ReadInv'
    BY <2>1, <2>9, ReadKeeps
  <2>q. QED
    BY <2>2, <2>4, <2>6, <2>7, <2>8, <2>10, MovingStep DEF MutationInv, w
<1>q. QED
  BY <1>3, <1>4 DEF HideSource

LEMMA HideTargetStep ==
    ASSUME FilesInv, HideTarget
    PROVE  FilesInv'
<1>1. /\ MutationInv(mutation) /\ mutation \in Mutation /\ mutation.step = "hideTarget"
      /\ UNCHANGED <<kind, left>>
  BY DEF FilesInv, MutationInv, HideTarget, In
<1>2. /\ \/ /\ mutation.op \in {"write", "edit", "copyOver"}
            /\ HidesOnly(mutation.hidden, {"staged"}) /\ HidesAll(mutation.hidden, {"staged"})
         \/ /\ mutation.op = "moveOver"
            /\ HidesOnly(mutation.hidden, {"source"}) /\ HidesAll(mutation.hidden, {"source"})
      /\ ~mutation.committed /\ mutation.outcome = "ok" /\ mutation.to \in FileName
  BY <1>1, NamesExist DEF MutationInv, Shape, Progress, Begun
<1>3. ASSUME Fails, UNCHANGED <<entry, read>>
      PROVE  FilesInv'
  BY <1>1, <1>3, FailStep DEF Fails, Begun
<1>4. ASSUME mutation.op # "edit", Goes(AfterTarget), UNCHANGED <<entry, read>>
      PROVE  FilesInv'
  <2> DEFINE w == mutation'
  <2>1. /\ AfterTarget \in {"verify", "commit"}
        /\ AfterTarget = "verify" <=> mutation.op = "moveOver"
    BY DEF AfterTarget
  <2>2. /\ w \in Mutation /\ w.step = AfterTarget /\ w.op = mutation.op /\ w.from = mutation.from
        /\ w.to = mutation.to /\ w.hidden = mutation.hidden /\ w.source = mutation.source
        /\ w.committed = mutation.committed /\ w.outcome = mutation.outcome
    BY <1>1, <1>4, <2>1 DEF Goes, Mutation, MutationStep
  <2> HIDE DEF w
  <2>3. /\ HidesOnly(w.hidden, {"staged"}) => HidesOnly(w.hidden, {"staged", "merged", "target"}) /\ w.hidden["merged"] = Absent
        /\ HidesOnly(w.hidden, {"source"}) => HidesOnly(w.hidden, {"source", "target"})
    BY DEF HidesOnly, Slot
  <2>4. Shape(w) /\ Progress(w)
    BY <1>2, <2>1, <2>2, <2>3 DEF Shape, Progress, Begun, Stages
  <2>5. NameInv(w) /\ EditInv(w) /\ Told(w)
    BY <1>1, <1>4, <2>1, <2>2 DEF MutationInv, NameInv, EditInv, Told
  <2>q. QED
    BY <1>1, <1>4, <2>2, <2>4, <2>5, StillStep DEF MutationInv, w
<1>5. ASSUME entry[mutation.to] # Absent, Hide("target", mutation.to, "inspectTarget")
      PROVE  FilesInv'
  <2> DEFINE w == mutation'
             o == entry[mutation.to]
  <2>1. o \in Object /\ mutation.hidden["target"] = Absent
    BY <1>2, <1>5, PlaceFacts DEF Entries, HidesOnly, Slot
  <2>2. /\ w \in Mutation /\ w.op = mutation.op /\ w.from = mutation.from /\ w.to = mutation.to
        /\ w.hidden = [mutation.hidden EXCEPT !["target"] = o] /\ w.source = mutation.source
        /\ w.committed = mutation.committed /\ w.step = "inspectTarget" /\ w.outcome = mutation.outcome
    <3>1. w = Hiding(mutation, "target", o, "inspectTarget")
      BY <1>5 DEF Hide, Hiding
    <3>2. Moved(w, mutation, [mutation.hidden EXCEPT !["target"] = o], "inspectTarget", mutation.outcome, mutation.committed)
      BY <1>1, <2>1, <3>1, HidingFields DEF Slot, MutationStep
    <3>q. QED
      BY <3>2 DEF Moved
  <2> HIDE DEF w
  <2>3. entry' = [entry EXCEPT ![mutation.to] = Absent]
    BY <1>5 DEF Hide
  <2>4. PlaceOK(entry', w.hidden, kind', left')
    <3>1. PlaceOK([entry EXCEPT ![mutation.to] = Absent], [mutation.hidden EXCEPT !["target"] = o], kind, left)
      BY <1>2, <1>5, <2>1, PlaceFacts, HideKeeps DEF Slot
    <3>q. QED
      BY <1>1, <2>2, <2>3, <3>1
  <2>5. /\ HidesOnly(mutation.hidden, {"staged"}) => HidesOnly(w.hidden, {"staged", "target"})
        /\ HidesAll(mutation.hidden, {"staged"}) => HidesAll(w.hidden, {"staged", "target"})
        /\ HidesOnly(mutation.hidden, {"source"}) => HidesOnly(w.hidden, {"source", "target"})
        /\ HidesAll(mutation.hidden, {"source"}) => HidesAll(w.hidden, {"source", "target"})
    BY <1>1, <1>5, <2>2, FilesAssumption DEF HidesOnly, HidesAll, Slot, Mutation
  <2>6. Shape(w) /\ Progress(w)
    BY <1>2, <2>2, <2>5 DEF Shape, Progress, Begun
  <2>7. NameInv(w) /\ EditInv(w) /\ Told(w)
    BY <1>1, <2>2 DEF MutationInv, NameInv, EditInv, Told
  <2>8. entry' \in Entries /\ kind' \in Kinds /\ left' \in SUBSET Object
    BY <1>1, <2>3, PlaceFacts DEF Entries
  <2>9. read' = [read EXCEPT !.id = Noted(@, o, FALSE)]
    BY <1>5 DEF Hide
  <2>10. read' \in [name : FileName \cup {Absent}, id : Identity \cup {NoIdentity}] /\ ReadInv'
    BY <2>1, <2>9, ReadKeeps
  <2>q. QED
    BY <2>2, <2>4, <2>6, <2>7, <2>8, <2>10, MovingStep DEF MutationInv, w
<1>q. QED
  BY <1>3, <1>4, <1>5 DEF HideTarget
LEMMA MergeStep ==
    ASSUME FilesInv, Merge
    PROVE  FilesInv'
<1>1. /\ MutationInv(mutation) /\ mutation \in Mutation /\ mutation.step = "merge"
      /\ UNCHANGED <<entry, read, left>>
  BY DEF FilesInv, MutationInv, Merge, In
<1>2. /\ mutation.op = "copyOver" /\ HidesOnly(mutation.hidden, {"staged", "target"})
      /\ HidesAll(mutation.hidden, {"staged", "target"})
      /\ ~mutation.committed /\ mutation.outcome = "ok" /\ mutation.to \in FileName
      /\ mutation.from \in FileName /\ mutation.source.object \in Object
  BY <1>1, NamesExist DEF MutationInv, Shape, Progress, Begun, Transfers
<1>3. ASSUME Fails, UNCHANGED kind
      PROVE  FilesInv'
  BY <1>1, <1>3, FailStep DEF Fails, Begun
<1>4. ASSUME NEW c \in Free, kind' = [kind EXCEPT ![c] = "directory"],
             \/ mutation' = [mutation EXCEPT !.hidden["merged"] = c, !.step = "commit"]
             \/ mutation' = [mutation EXCEPT !.hidden["merged"] = c, !.outcome = "error", !.step = "recoverTarget"]
      PROVE  FilesInv'
  <2> DEFINE w == mutation'
             h == [mutation.hidden EXCEPT !["merged"] = c]
  <2>1. /\ c \in Object /\ kind[c] = "free" /\ mutation.hidden["merged"] = Absent
        /\ "merged" \in Slot /\ mutation.hidden \in Hidings
    BY <1>1, <1>2 DEF Free, HidesOnly, Slot, Mutation, Hidings
  <2>2. \/ Moved(w, mutation, h, "commit", "ok", FALSE)
        \/ Moved(w, mutation, h, "recoverTarget", "error", FALSE)
    <3>1. CASE mutation' = [mutation EXCEPT !.hidden["merged"] = c, !.step = "commit"]
      <4>1. Moved(Hiding(mutation, "merged", c, "commit"), mutation, h, "commit", mutation.outcome, mutation.committed)
        BY <1>1, <2>1, HidingFields DEF MutationStep
      <4>q. QED
        BY <1>1, <1>2, <3>1, <4>1 DEF Hiding, Moved, Mutation
    <3>2. CASE mutation' = [mutation EXCEPT !.hidden["merged"] = c, !.outcome = "error", !.step = "recoverTarget"]
      <4>1. Moved(HidingError(mutation, "merged", c, "recoverTarget", "error"), mutation, h,
                  "recoverTarget", "error", mutation.committed)
        BY <1>1, <2>1, HidingErrorFields DEF MutationStep, Outcome
      <4>q. QED
        BY <1>1, <1>2, <3>2, <4>1 DEF HidingError, Moved, Mutation
    <3>q. QED
      BY <1>4, <3>1, <3>2
  <2>3. PlaceOK(entry', h, kind', left')
    <3>1. PlaceOK(entry, h, [kind EXCEPT ![c] = "directory"], left)
      BY <2>1, PlaceFacts, StageKeeps
    <3>q. QED
      BY <1>1, <1>4, <3>1
  <2>4. /\ HidesOnly(h, {"staged", "merged", "target"}) /\ HidesAll(h, {"staged"}) /\ h["source"] = Absent
    BY <1>2, <2>1, FilesAssumption DEF HidesOnly, HidesAll, Slot, Hidings
  <2> HIDE DEF w, h
  <2>5. /\ w \in Mutation /\ w.op = "copyOver" /\ w.from = mutation.from /\ w.to = mutation.to /\ w.hidden = h
        /\ w.source = mutation.source /\ ~w.committed
        /\ \/ w.step = "commit" /\ w.outcome = "ok"
           \/ w.step = "recoverTarget" /\ w.outcome = "error"
    BY <1>2, <2>2 DEF Moved
  <2>6. Shape(w) /\ Progress(w)
    BY <2>4, <2>5 DEF Shape, Progress, Begun, Stages
  <2>7. NameInv(w) /\ EditInv(w) /\ Told(w)
    BY <1>2, <2>5 DEF NameInv, EditInv, Told
  <2>8. entry' \in Entries /\ kind' \in Kinds /\ left' \in SUBSET Object
    BY <1>1, <1>4, <2>1, PlaceFacts DEF Kinds
  <2>q. QED
    BY <1>1, <2>1, <2>3, <2>5, <2>6, <2>7, <2>8, ReadKeeps, MovingStep DEF MutationInv, w
<1>q. QED
  BY <1>3, <1>4 DEF Merge

LEMMA PutInPlaceStep ==
    ASSUME FilesInv, PutInPlace
    PROVE  FilesInv'
<1>1. /\ MutationInv(mutation) /\ mutation \in Mutation /\ mutation.step = "commit"
      /\ UNCHANGED <<read, left>>
  BY DEF FilesInv, MutationInv, PutInPlace, In
<1>2. /\ \/ mutation.op = "mkdir" /\ HidesOnly(mutation.hidden, {})
         \/ mutation.op \in {"move", "moveOver"} /\ HidesOnly(mutation.hidden, {"source", "target"})
            /\ HidesAll(mutation.hidden, {"source"})
         \/ mutation.op \in Stages /\ HidesOnly(mutation.hidden, {"staged", "merged", "target"})
            /\ HidesAll(mutation.hidden, {"staged"}) /\ (mutation.hidden["merged"] # Absent => mutation.op = "copyOver")
      /\ ~mutation.committed /\ mutation.outcome = "ok" /\ mutation.to \in FileName
      /\ mutation.op \in Transfers => mutation.from \in FileName /\ mutation.source.object \in Object
      /\ EditInv(mutation) /\ mutation.hidden \in Hidings
  BY <1>1, NamesExist DEF MutationInv, Shape, Progress, Begun, Mutation, Hidings
<1>3. ASSUME Fails, UNCHANGED <<entry, kind>>
      PROVE  FilesInv'
  BY <1>1, <1>3, FailStep DEF Fails, Begun
<1>4. ASSUME entry[mutation.to] = Absent, mutation.op = "mkdir",
             NEW o \in Free, entry' = [entry EXCEPT ![mutation.to] = o], kind' = [kind EXCEPT ![o] = "directory"],
             mutation' = [mutation EXCEPT !.step = "open", !.committed = TRUE]
      PROVE  FilesInv'
  <2> DEFINE w == mutation'
  <2>1. /\ w \in Mutation /\ w.op = mutation.op /\ w.from = mutation.from /\ w.to = mutation.to
        /\ w.hidden = mutation.hidden /\ w.source = mutation.source
        /\ w.committed /\ w.step = "open" /\ w.outcome = mutation.outcome
    BY <1>1, <1>4 DEF Mutation, MutationStep
  <2> HIDE DEF w
  <2>2. o \in Object /\ kind[o] = "free"
    BY DEF Free
  <2>3. PlaceOK(entry', w.hidden, kind', left')
    <3>1. PlaceOK([entry EXCEPT ![mutation.to] = o], mutation.hidden, [kind EXCEPT ![o] = "directory"], left)
      BY <1>2, <1>4, <2>2, PlaceFacts, MakeKeeps
    <3>q. QED
      BY <1>1, <1>4, <2>1, <3>1
  <2>4. Shape(w) /\ Progress(w)
    BY <1>2, <1>4, <2>1 DEF Shape, Progress, Begun, Stages
  <2>5. NameInv(w) /\ EditInv(w) /\ Told(w)
    BY <1>2, <1>4, <2>1 DEF NameInv, EditInv, Told, Transfers
  <2>6. entry' \in Entries /\ kind' \in Kinds /\ left' \in SUBSET Object
    BY <1>1, <1>4, <2>2, PlaceFacts DEF Entries, Kinds
  <2>q. QED
    BY <1>1, <2>1, <2>2, <2>3, <2>4, <2>5, <2>6, ReadKeeps, MovingStep DEF MutationInv, w
<1>5. ASSUME entry[mutation.to] = Absent, mutation.op # "mkdir",
             entry' = [entry EXCEPT ![mutation.to] = mutation.hidden[Result]],
             LET m == [mutation EXCEPT !.hidden[Result] = Absent, !.committed = TRUE]
             IN  mutation' = [m EXCEPT !.step = AfterCommit(m)],
             UNCHANGED kind
      PROVE  FilesInv'
  <2> DEFINE w == mutation'
             r == Result
             h == [mutation.hidden EXCEPT ![r] = Absent]
             next == IF h["staged"] # Absent THEN "unstage" ELSE IF h["target"] # Absent THEN "confirm" ELSE "sync"
  <2>1. /\ r \in {"source", "merged", "staged"} /\ mutation.hidden[r] # Absent
        /\ r = "source" <=> mutation.op \in {"move", "moveOver"}
        /\ r = "merged" => mutation.op = "copyOver"
        /\ r = "staged" => mutation.hidden["merged"] = Absent
    BY <1>2, <1>5 DEF Result, HidesAll, HidesOnly, Stages, Slot
  <2>2. Moved(w, mutation, h, next, mutation.outcome, TRUE)
    <3> DEFINE m == [mutation EXCEPT !.hidden[r] = Absent, !.committed = TRUE]
    <3>1. m.hidden = h
      BY <1>1 DEF Mutation
    <3>2. mutation' = [m EXCEPT !.step = next]
      BY <1>5, <3>1 DEF AfterCommit
    <3>3. m = [mutation EXCEPT !.hidden = h, !.committed = TRUE]
      OBVIOUS
    <3>4. h \in Hidings /\ next \in MutationStep
      BY <1>2 DEF Hidings, MutationStep
    <3> HIDE DEF h, m, next
    <3>q. QED
      BY <1>1, <3>2, <3>3, <3>4 DEF Moved, Mutation, Hidings
  <2>3. PlaceOK(entry', h, kind', left')
    <3>1. PlaceOK([entry EXCEPT ![mutation.to] = mutation.hidden[r]], h, kind, left)
      BY <1>2, <1>5, <2>1, PlaceFacts, PutKeeps DEF Slot
    <3>q. QED
      BY <1>1, <1>5, <3>1
  <2>4. \A s \in Slot : h[s] = (IF s = r THEN Absent ELSE mutation.hidden[s])
    BY <1>2 DEF Hidings
  <2>5. entry' \in Entries /\ kind' \in Kinds /\ left' \in SUBSET Object
    BY <1>1, <1>2, <1>5, <2>1, PlaceFacts DEF Entries, Hidings, Slot
  <2>6. /\ next = "unstage" => mutation.op = "copyOver" /\ HidesOnly(h, {"staged", "target"}) /\ HidesAll(h, {"staged"})
        /\ next = "confirm" => HidesOnly(h, {"target"}) /\ HidesAll(h, {"target"})
        /\ next = "sync" => HidesOnly(h, {})
        /\ h["source"] = Absent
        /\ mutation.op \notin Removals
    BY <1>2, <1>5, <2>1, <2>4 DEF HidesOnly, HidesAll, Slot, Stages, Removals
  <2>7. next \in {"unstage", "confirm", "sync"} /\ h["target"] = mutation.hidden["target"]
    BY <2>1, <2>4 DEF Slot
  <2> HIDE DEF w, h, next, r
  <2>8. /\ w \in Mutation /\ w.op = mutation.op /\ w.from = mutation.from /\ w.to = mutation.to /\ w.hidden = h
        /\ w.source = mutation.source /\ w.committed /\ w.step = next /\ w.outcome = "ok"
        /\ w.target = mutation.target /\ w.expected = mutation.expected
    BY <1>2, <2>2 DEF Moved
  <2>9. Shape(w) /\ Progress(w)
    BY <2>6, <2>7, <2>8 DEF Shape, Progress, Begun
  <2>10. NameInv(w) /\ Told(w)
    BY <1>2, <2>7, <2>8 DEF NameInv, Told
  <2>11. EditInv(w)
    BY <1>1, <1>2, <2>7, <2>8 DEF EditInv
  <2>q. QED
    BY <1>1, <2>3, <2>5, <2>8, <2>9, <2>10, <2>11, MovingStep DEF MutationInv, w, FilesInv, FilesTypeOK, ReadInv
<1>q. QED
  BY <1>3, <1>4, <1>5 DEF PutInPlace

\* What is under a hidden name is removed.
LEMMA RemoveKeeps ==
    ASSUME NEW E \in Entries, NEW H \in Hidings, NEW K \in Kinds, NEW L \in SUBSET Object,
           PlaceOK(E, H, K, L),
           NEW s \in Slot, H[s] # Absent
    PROVE  PlaceOK(E, [H EXCEPT ![s] = Absent], [K EXCEPT ![H[s]] = "free"], L)
BY FilesAssumption DEF PlaceOK, Entries, Hidings, Kinds

LEMMA UnlinkHiddenStep ==
    ASSUME FilesInv, UnlinkHidden
    PROVE  FilesInv'
<1>1. /\ MutationInv(mutation) /\ mutation \in Mutation /\ mutation.step = "unlink"
      /\ UNCHANGED <<entry, read, left>>
  BY DEF FilesInv, MutationInv, UnlinkHidden, In
<1>2. /\ mutation.hidden \in Hidings /\ Doomed \in {"source", "target"} /\ mutation.outcome = "ok"
      /\ HidesOnly(mutation.hidden, {Doomed}) /\ HidesAll(mutation.hidden, {Doomed})
  BY <1>1 DEF MutationInv, Shape, Progress, Begun, Mutation, Hidings, Doomed, IsRemoval, Removals
<1>3. ASSUME CleanupFails, UNCHANGED kind
      PROVE  FilesInv'
  BY <1>1, <1>3, CleanupFailsStep
<1>4. ASSUME kind' = [kind EXCEPT ![mutation.hidden[Doomed]] = "free"],
             mutation' = [mutation EXCEPT !.hidden[Doomed] = Absent, !.committed = TRUE, !.step = "sync"]
      PROVE  FilesInv'
  <2> DEFINE w == mutation'
             d == Doomed
             h == [mutation.hidden EXCEPT ![d] = Absent]
  <2>1. d \in Slot /\ mutation.hidden[d] # Absent
    BY <1>2 DEF HidesAll, Slot
  <2>2. h \in Hidings /\ w = [mutation EXCEPT !.hidden = h, !.committed = TRUE, !.step = "sync"]
    BY <1>2, <1>4 DEF Hidings
  <2>3. PlaceOK(entry', h, kind', left')
    <3>1. PlaceOK(entry, h, [kind EXCEPT ![mutation.hidden[d]] = "free"], left)
      BY <1>2, <2>1, PlaceFacts, RemoveKeeps
    <3>q. QED
      BY <1>1, <1>4, <3>1
  <2>4. HidesOnly(h, {})
    BY <1>2, <2>1 DEF HidesOnly, Hidings
  <2>5. entry' \in Entries /\ kind' \in Kinds /\ left' \in SUBSET Object
    BY <1>1, <1>4, PlaceFacts DEF Kinds
  <2> HIDE DEF w, h, d
  <2>6. /\ w \in Mutation /\ w.op = mutation.op /\ w.from = mutation.from /\ w.to = mutation.to /\ w.hidden = h
        /\ w.source = mutation.source /\ w.committed /\ w.step = "sync" /\ w.outcome = "ok"
    BY <1>1, <1>2, <2>2 DEF Mutation, MutationStep, Hidings
  <2>7. Shape(w) /\ Progress(w)
    BY <2>4, <2>6 DEF Shape, Progress, Begun
  <2>8. NameInv(w) /\ EditInv(w) /\ Told(w)
    BY <1>1, <2>6 DEF MutationInv, NameInv, EditInv, Told
  <2>q. QED
    BY <1>1, <2>3, <2>5, <2>6, <2>7, <2>8, MovingStep DEF MutationInv, w, FilesInv, FilesTypeOK, ReadInv
<1>q. QED
  BY <1>3, <1>4 DEF UnlinkHidden

LEMMA PutBackStep ==
    ASSUME FilesInv, NEW slot, NEW name, NEW next, PutBack(slot, name, next),
           mutation.hidden[slot] # Absent => name \in FileName,
           \/ slot = "target" /\ mutation.step = "recoverTarget" /\ next = "recoverSource"
           \/ slot = "source" /\ mutation.step = "recoverSource" /\ next = "unstage"
    PROVE  FilesInv'
<1> DEFINE w == mutation'
           h == [mutation.hidden EXCEPT ![slot] = Absent]
<1>1. /\ MutationInv(mutation) /\ mutation \in Mutation /\ UNCHANGED <<kind, left>>
      /\ slot \in Slot /\ next \in MutationStep /\ mutation.hidden \in Hidings /\ mutation.step # "idle"
  BY DEF FilesInv, MutationInv, PutBack, Slot, Mutation, MutationStep, Hidings
<1>2. /\ mutation.hidden["source"] # Absent => mutation.op \in Moves
      /\ mutation.step = "recoverSource" /\ mutation.hidden["target"] # Absent => mutation.outcome = "recovery_incomplete"
      /\ ~mutation.committed /\ mutation.outcome \in {"error", "recovery_incomplete"}
  BY <1>1 DEF MutationInv, Shape, Progress, Begun
<1>3. \A s \in Slot : h[s] = (IF s = slot THEN Absent ELSE mutation.hidden[s])
  BY <1>1 DEF Hidings
\* The mutation is still one that is undone.
<1>4. ASSUME w \in Mutation, w.op = mutation.op, w.from = mutation.from, w.to = mutation.to,
             w.source = mutation.source, w.committed = mutation.committed, w.step = next,
             w.outcome \in {mutation.outcome, "recovery_incomplete"},
             w.hidden = mutation.hidden \/ w.hidden = h,
             w.hidden[slot] = Absent \/ w.outcome = "recovery_incomplete"
      PROVE  MutationInv(w)
  <2> HIDE DEF w
  <2>1. \A s \in Slot : w.hidden[s] # Absent => mutation.hidden[s] # Absent
    BY <1>3, <1>4
  <2> HIDE DEF h
  <2>2. Progress(w)
    BY <1>2, <1>4 DEF Progress, Begun
  <2>3. Shape(w)
    BY <1>1, <1>2, <1>4, <2>1 DEF Shape, Slot
  <2>4. NameInv(w) /\ EditInv(w) /\ Told(w)
    BY <1>1, <1>4 DEF MutationInv, NameInv, EditInv, Told
  <2>q. QED
    BY <1>4, <2>2, <2>3, <2>4 DEF MutationInv
<1>5. ASSUME mutation.hidden[slot] = Absent, Goes(next), UNCHANGED <<entry, read>>
      PROVE  FilesInv'
  <2>1. /\ w \in Mutation /\ w.op = mutation.op /\ w.from = mutation.from /\ w.to = mutation.to
        /\ w.source = mutation.source /\ w.committed = mutation.committed /\ w.step = next
        /\ w.outcome = mutation.outcome /\ w.hidden = mutation.hidden
    BY <1>1, <1>5 DEF Goes, Mutation
  <2>q. QED
    BY <1>1, <1>4, <1>5, <2>1, StillStep
<1>6. ASSUME w = [mutation EXCEPT !.step = next, !.outcome = "recovery_incomplete"], UNCHANGED <<entry, read>>
      PROVE  FilesInv'
  <2>1. /\ w \in Mutation /\ w.op = mutation.op /\ w.from = mutation.from /\ w.to = mutation.to
        /\ w.source = mutation.source /\ w.committed = mutation.committed /\ w.step = next
        /\ w.outcome = "recovery_incomplete" /\ w.hidden = mutation.hidden
    BY <1>1, <1>6 DEF Mutation, Outcome
  <2>q. QED
    BY <1>1, <1>4, <1>6, <2>1, StillStep
<1>7. ASSUME entry[name] = Absent, mutation.hidden[slot] # Absent,
             entry' = [entry EXCEPT ![name] = mutation.hidden[slot]],
             read' = [read EXCEPT !.id = Noted(@, mutation.hidden[slot], FALSE)],
             NEW outcome \in {mutation.outcome, "recovery_incomplete"},
             mutation' = [mutation EXCEPT !.hidden[slot] = Absent, !.step = next, !.outcome = outcome]
      PROVE  FilesInv'
  <2>1. h \in Hidings /\ w = [mutation EXCEPT !.hidden = h, !.step = next, !.outcome = outcome]
    BY <1>1, <1>7 DEF Hidings
  <2>2. h[slot] = Absent /\ mutation.hidden[slot] \in Object
    BY <1>1, <1>3, <1>7 DEF Hidings
  <2>3. PlaceOK(entry', h, kind', left')
    <3>1. PlaceOK([entry EXCEPT ![name] = mutation.hidden[slot]], h, kind, left)
      BY <1>1, <1>7, PlaceFacts, PutKeeps
    <3>q. QED
      BY <1>1, <1>7, <3>1
  <2>4. entry' \in Entries /\ kind' \in Kinds /\ left' \in SUBSET Object
    BY <1>1, <1>7, <2>2, PlaceFacts DEF Entries
  <2>5. read' \in [name : FileName \cup {Absent}, id : Identity \cup {NoIdentity}] /\ ReadInv'
    BY <1>7, <2>2, ReadKeeps
  <2>6. /\ w \in Mutation /\ w.op = mutation.op /\ w.from = mutation.from /\ w.to = mutation.to
        /\ w.source = mutation.source /\ w.committed = mutation.committed /\ w.step = next
        /\ w.outcome = outcome /\ w.hidden = h
    <3> HIDE DEF w, h
    <3>q. QED
      BY <1>1, <2>1 DEF Mutation, Outcome, Hidings
  <2>7. MutationInv(w)
    BY <1>4, <2>2, <2>6
  <2>q. QED
    BY <2>3, <2>4, <2>5, <2>6, <2>7, MovingStep
<1>q. QED
  <2>1. CASE mutation.hidden[slot] = Absent
    BY <1>5, <2>1 DEF PutBack
  <2>2. CASE mutation.hidden[slot] # Absent
    <3>1. ASSUME entry[name] = Absent,
                 entry' = [entry EXCEPT ![name] = mutation.hidden[slot]],
                 read' = [read EXCEPT !.id = Noted(@, mutation.hidden[slot], FALSE)],
                 NEW synced \in {TRUE} \cup {~Faults},
                 mutation' = [mutation EXCEPT !.hidden[slot] = Absent, !.step = next,
                                 !.outcome = IF synced THEN @ ELSE "recovery_incomplete"]
          PROVE  FilesInv'
      <4> DEFINE outcome == IF synced THEN mutation.outcome ELSE "recovery_incomplete"
      <4>1. mutation' = [mutation EXCEPT !.hidden[slot] = Absent, !.step = next, !.outcome = outcome]
        BY <3>1
      <4>2. outcome \in {mutation.outcome, "recovery_incomplete"}
        OBVIOUS
      <4> HIDE DEF outcome
      <4>q. QED
        BY <1>7, <2>2, <3>1, <4>1, <4>2
    <3>q. QED
      BY <1>6, <2>2, <3>1 DEF PutBack
  <2>q. QED
    BY <2>1, <2>2

LEMMA PutBackSteps ==
    ASSUME FilesInv, RecoverTarget \/ RecoverSource
    PROVE  FilesInv'
<1>1. CASE RecoverTarget
  BY <1>1, NamesExist, PutBackStep DEF RecoverTarget, In
<1>2. CASE RecoverSource
  <2>1. mutation.hidden["source"] # Absent => mutation.from \in FileName
    BY <1>2, NamesExist DEF RecoverSource, In, MutationInv, Shape, Moves, Transfers, Begun
  <2>q. QED
    BY <1>2, <2>1, PutBackStep DEF RecoverSource, In
<1>q. QED
  BY <1>1, <1>2

LEMMA UnstageStep ==
    ASSUME FilesInv, Unstage
    PROVE  FilesInv'
<1> DEFINE staged == {s \in {"staged", "merged"} : mutation.hidden[s] # Absent}
<1>1. /\ MutationInv(mutation) /\ mutation \in Mutation /\ mutation.step = "unstage"
      /\ UNCHANGED <<entry, read, left>> /\ mutation.hidden \in Hidings
  BY DEF FilesInv, MutationInv, Unstage, In, Mutation, Hidings
<1>2. PICK kept \in SUBSET staged :
        /\ kind' = [o \in Object |-> IF \E s \in staged \ kept : mutation.hidden[s] = o THEN "free" ELSE kind[o]]
        /\ LET m == [mutation EXCEPT !.hidden = [s \in Slot |-> IF s \in staged \ kept THEN Absent ELSE @[s]]]
           IN  mutation' = IF kept = {} THEN [m EXCEPT !.step = AfterUnstage(m)]
                           ELSE [m EXCEPT !.step = "ended", !.outcome = "recovery_incomplete"]
  BY DEF Unstage
<1> DEFINE w == mutation'
           D == staged \ kept
           h == Dropped(mutation.hidden, D)
           next == IF kept = {} THEN (IF mutation.committed
                                      THEN IF mutation.hidden["target"] # Absent THEN "confirm" ELSE "sync"
                                      ELSE "ended")
                   ELSE "ended"
           outcome == IF kept = {} THEN mutation.outcome ELSE "recovery_incomplete"
<1>3. /\ mutation.hidden["source"] # Absent => mutation.outcome = "recovery_incomplete"
      /\ mutation.hidden["target"] # Absent /\ ~mutation.committed => mutation.outcome = "recovery_incomplete"
      /\ mutation.committed => /\ mutation.op = "copyOver" /\ HidesOnly(mutation.hidden, {"staged", "target"})
                               /\ HidesAll(mutation.hidden, {"staged"})
      /\ IF mutation.committed THEN mutation.outcome = "ok"
         ELSE mutation.outcome \in {"error", "recovery_incomplete"}
  BY <1>1 DEF MutationInv, Shape, Progress, Begun
<1>4. D \in SUBSET Slot /\ (\A s \in D : mutation.hidden[s] # Absent) /\ h \in Hidings
  BY <1>1, <1>2 DEF Slot, Hidings, Dropped
<1>5. PlaceOK(entry', h, kind', left')
  <2>1. PlaceOK(entry, h, Freed(kind, mutation.hidden, D), left)
    <3> HIDE DEF D
    <3>q. QED
      BY <1>1, <1>4, PlaceFacts, DropKeeps
  <2>q. QED
    BY <1>1, <1>2, <2>1 DEF Freed
<1>6. entry' \in Entries /\ kind' \in Kinds /\ left' \in SUBSET Object
  BY <1>1, <1>2, PlaceFacts DEF Kinds
<1>7. Moved(w, mutation, h, next, outcome, mutation.committed)
  <2> DEFINE m == [mutation EXCEPT !.hidden = h]
  <2>1. h["target"] = mutation.hidden["target"]
    BY <1>2 DEF Slot, Dropped
  <2>2. h = [s \in Slot |-> IF s \in staged \ kept THEN Absent ELSE mutation.hidden[s]]
    BY DEF Dropped
  <2>3. w = IF kept = {} THEN [m EXCEPT !.step = AfterUnstage(m)]
            ELSE [m EXCEPT !.step = "ended", !.outcome = "recovery_incomplete"]
    BY <1>1, <1>2, <2>2 DEF Mutation
  <2> HIDE DEF h, D, staged
  <2>4. /\ m \in Mutation /\ m.committed = mutation.committed /\ m.hidden = h
        /\ m.op = mutation.op /\ m.from = mutation.from /\ m.to = mutation.to /\ m.source = mutation.source
        /\ m.expected = mutation.expected /\ m.target = mutation.target /\ m.outcome = mutation.outcome
    BY <1>1, <1>4 DEF Mutation, Hidings
  <2> HIDE DEF m
  <2>5. kept = {} => AfterUnstage(m) = next
    BY <2>1, <2>4 DEF AfterUnstage
  <2>6. next \in MutationStep /\ outcome \in Outcome
    BY <1>3 DEF MutationStep, Outcome
  <2>7. CASE kept = {}
    <3>1. w = [m EXCEPT !.step = next] /\ outcome = m.outcome
      BY <2>3, <2>4, <2>5, <2>7
    <3> HIDE DEF next, outcome, w
    <3>q. QED
      BY <2>4, <2>6, <3>1 DEF Moved, Mutation
  <2>8. CASE kept # {}
    <3>1. w = [m EXCEPT !.step = next, !.outcome = outcome]
      BY <2>3, <2>8
    <3> HIDE DEF next, outcome, w
    <3>q. QED
      BY <2>4, <2>6, <3>1 DEF Moved, Mutation
  <2>q. QED
    BY <2>7, <2>8
<1>8. h["staged"] # Absent \/ h["merged"] # Absent => outcome = "recovery_incomplete"
  BY <1>1 DEF Slot, Hidings, Dropped
<1>9. /\ h["source"] = mutation.hidden["source"] /\ h["target"] = mutation.hidden["target"]
      /\ kept = {} => h["staged"] = Absent /\ h["merged"] = Absent
  BY <1>2 DEF Slot, Dropped
<1>10. mutation.committed /\ kept # {} => h["staged"] # Absent
  BY <1>1, <1>2, <1>3 DEF Slot, HidesOnly, HidesAll, Dropped
<1>11. mutation.committed => mutation.hidden["source"] = Absent
  BY <1>3 DEF HidesOnly, Slot
<1>12. /\ next \in {"confirm", "sync", "ended"}
       /\ next = "ended" /\ kept = {} => ~mutation.committed
       /\ next # "ended" => mutation.committed /\ kept = {} /\ outcome = "ok"
       /\ next = "confirm" => h["target"] # Absent
       /\ next = "sync" => h["target"] = Absent
       /\ kept = {} => outcome = mutation.outcome
       /\ kept # {} => outcome = "recovery_incomplete" /\ next = "ended"
  BY <1>3, <1>9
<1> HIDE DEF h, w, next, outcome, D, staged
<1>13. /\ w \in Mutation /\ w.op = mutation.op /\ w.from = mutation.from /\ w.to = mutation.to /\ w.hidden = h
       /\ w.source = mutation.source /\ w.committed = mutation.committed /\ w.step = next /\ w.outcome = outcome
  BY <1>7 DEF Moved
<1>14. Shape(w) /\ Progress(w)
  <2>1. /\ next = "confirm" => HidesOnly(h, {"target"}) /\ HidesAll(h, {"target"}) /\ w.op \notin Removals
        /\ next = "sync" => HidesOnly(h, {})
    BY <1>3, <1>9, <1>11, <1>12, <1>13 DEF HidesOnly, HidesAll, Slot, Removals
  <2>q. QED
    BY <1>3, <1>12, <1>13, <2>1 DEF Shape, Progress, Begun
<1>15. NameInv(w) /\ EditInv(w)
  BY <1>1, <1>3, <1>12, <1>13 DEF MutationInv, NameInv, EditInv
<1>16. Told(w)
  <2>1. outcome = "error" => HiddenBy(w) = {}
    BY <1>3, <1>9, <1>12, <1>13 DEF HiddenBy, Slot
  <2>2. next = "ended" => outcome \in {"error", "recovery_incomplete"} /\ (outcome = "error" => ~mutation.committed)
    BY <1>3, <1>12
  <2>3. outcome = "recovery_incomplete" /\ mutation.committed => h["staged"] # Absent
    BY <1>3, <1>10, <1>12
  <2>q. QED
    BY <1>13, <2>1, <2>2, <2>3 DEF Told
<1>q. QED
  BY <1>1, <1>5, <1>6, <1>13, <1>14, <1>15, <1>16, MovingStep DEF MutationInv, w, FilesInv, FilesTypeOK, ReadInv

LEMMA NothingInProgress == MutationInv(NoMutation)
<1>1. NothingHidden \in [Slot -> Object \cup {Absent}]
  BY DEF NothingHidden
<1>2. NoMutation \in Mutation
  BY <1>1 DEF NoMutation, Mutation, MutationStep, Op, Outcome
<1>q. QED
  BY <1>2 DEF NoMutation, MutationInv, Shape, Progress, NameInv, EditInv, Told, Begun

LEMMA AnswerStep ==
    ASSUME FilesInv, Answer \/ Restart
    PROVE  FilesInv'
<1>1. /\ mutation' = NoMutation /\ left' = left \cup HiddenBy(mutation) /\ UNCHANGED <<entry, kind>>
      /\ read' = read \/ read' = NothingRead
  BY DEF Answer, Restart
<1>2. mutation'.hidden = NothingHidden
  BY <1>1 DEF NoMutation
<1>3. HiddenBy(mutation) \subseteq Object
  BY PlaceFacts DEF HiddenBy, Hidings
<1>4. PlaceOK(entry', mutation'.hidden, kind', left')
  <2>1. PlaceOK(entry, NothingHidden, kind, left \cup HiddenBy(mutation))
    BY PlaceFacts, LeaveKeeps DEF HiddenBy
  <2>q. QED
    BY <1>1, <1>2, <2>1
<1>5. read' \in [name : FileName \cup {Absent}, id : Identity \cup {NoIdentity}] /\ ReadInv'
  BY <1>1 DEF FilesInv, FilesTypeOK, ReadInv, NothingRead
<1>6. entry' \in Entries /\ kind' \in Kinds /\ left' \in SUBSET Object
  BY <1>1, <1>3, PlaceFacts
<1>q. QED
  BY <1>1, <1>4, <1>5, <1>6, NothingInProgress, MovingStep

-----------------------------------------------------------------------------
(* A mutation begins.                                                      *)

LEMMA StartStep ==
    ASSUME FilesInv, NEW m, Starts(m), m.hidden = NothingHidden, MutationInv(m),
           read' = read \/ read' = NothingRead
    PROVE  FilesInv'
<1>1. mutation' = m /\ mutation.step = "idle" /\ UNCHANGED <<entry, kind, left>>
  BY DEF Starts
<1>2. mutation.hidden = NothingHidden
  BY <1>1 DEF FilesInv, MutationInv, NameInv, NoMutation
<1>3. read' \in [name : FileName \cup {Absent}, id : Identity \cup {NoIdentity}] /\ ReadInv'
  BY DEF FilesInv, FilesTypeOK, ReadInv, NothingRead
<1>q. QED
  BY <1>1, <1>2, <1>3, PlaceFacts, MovingStep

LEMMA StartKeeps ==
    ASSUME NEW m \in Mutation, m.hidden = NothingHidden, ~m.committed, m.outcome = "ok",
           m.step \in {"stage", "hideSource", "commit"}, m.to \in FileName,
           m.op \in Transfers => m.from \in FileName /\ m.source.object \in Object,
           m.step = "stage" => m.op \in Stages, m.step = "hideSource" => m.op \in Moves,
           m.step = "commit" => m.op = "mkdir"
    PROVE  MutationInv(m)
<1>1. HidesOnly(NothingHidden, {})
  BY DEF NothingHidden, HidesOnly
<1>q. QED
  BY <1>1 DEF MutationInv, Shape, Progress, NameInv, EditInv, Told, Begun

LEMMA RequestStep ==
    ASSUME FilesInv, Request
    PROVE  FilesInv'
<1>1. /\ read.id \in Identity \cup {NoIdentity} /\ ReadInv /\ entry \in Entries /\ kind \in Kinds
      /\ PlaceOK(entry, mutation.hidden, kind, left)
  BY PlaceFacts DEF FilesInv, FilesTypeOK
<1>2. \A o \in Object : IdentityOf(o) \in Identity /\ IdentityOf(o).object = o
  BY DEF IdentityOf, Identity
<1>3. /\ NoMutation \in Mutation /\ NoMutation.hidden = NothingHidden /\ ~NoMutation.committed
      /\ NoMutation.outcome = "ok"
  BY NothingInProgress DEF NoMutation, MutationInv
<1>4. ASSUME BeginEdit PROVE FilesInv'
  <2> DEFINE m == [NoMutation EXCEPT !.step = "stage", !.op = "edit", !.to = read.name, !.expected = read.id]
  <2>2. Starts(m) /\ read' = NothingRead /\ read.name \in FileName
    BY <1>1, <1>4 DEF BeginEdit, ReadInv
  <2>1. /\ m \in Mutation /\ m.hidden = NothingHidden /\ ~m.committed /\ m.outcome = "ok"
        /\ m.step = "stage" /\ m.op = "edit" /\ m.to = read.name
    BY <1>1, <1>3, <2>2 DEF Mutation, MutationStep, Op
  <2> HIDE DEF m
  <2>3. MutationInv(m)
    BY <1>1, <2>1, <2>2, StartKeeps DEF Op, Transfers, Stages
  <2>q. QED
    BY <2>1, <2>2, <2>3, StartStep
<1>5. ASSUME NEW n \in FileName, ReadForEdit(n) PROVE FilesInv'
  <2>1. entry[n] \in Object /\ read' = [name |-> n, id |-> IdentityOf(entry[n])]
        /\ UNCHANGED <<entry, kind, mutation, left>>
    BY <1>1, <1>5 DEF ReadForEdit, Entries
  <2>2. read' \in [name : FileName \cup {Absent}, id : Identity \cup {NoIdentity}] /\ ReadInv'
    BY <1>2, <2>1 DEF ReadInv
  <2>q. QED
    BY <2>1, <2>2, PlaceFacts, MovingStep DEF FilesInv
<1>6. ASSUME NEW n \in FileName, BeginMkdir(n) PROVE FilesInv'
  <2> DEFINE m == [NoMutation EXCEPT !.step = "commit", !.op = "mkdir", !.to = n]
  <2>2. Starts(m) /\ read' = read
    BY <1>6 DEF BeginMkdir
  <2>1. /\ m \in Mutation /\ m.hidden = NothingHidden /\ ~m.committed /\ m.outcome = "ok"
        /\ m.step = "commit" /\ m.op = "mkdir" /\ m.to = n
    BY <1>3 DEF Mutation, MutationStep, Op
  <2> HIDE DEF m
  <2>3. MutationInv(m)
    BY <1>3, <2>1, StartKeeps DEF Op, Transfers
  <2>q. QED
    BY <2>1, <2>2, <2>3, StartStep
<1>7. ASSUME NEW n \in FileName, NEW op \in {"write", "create"}, BeginWrite(op, n) PROVE FilesInv'
  <2> DEFINE m == [NoMutation EXCEPT !.step = "stage", !.op = op, !.to = n]
  <2>2. Starts(m) /\ read' = read
    BY <1>7 DEF BeginWrite
  <2>1. /\ m \in Mutation /\ m.hidden = NothingHidden /\ ~m.committed /\ m.outcome = "ok"
        /\ m.step = "stage" /\ m.op = op /\ m.to = n
    BY <1>3 DEF Mutation, MutationStep, Op
  <2> HIDE DEF m
  <2>3. MutationInv(m)
    BY <1>3, <2>1, StartKeeps DEF Op, Transfers, Stages
  <2>q. QED
    BY <2>1, <2>2, <2>3, StartStep
<1>8. ASSUME NEW n \in FileName, NEW op \in {"remove", "removeAll"}, BeginRemove(op, n) PROVE FilesInv'
  <2> DEFINE m == [NoMutation EXCEPT !.step = "hideSource", !.op = op, !.from = n, !.to = n,
                           !.source = IdentityOf(entry[n])]
  <2>2. Starts(m) /\ read' = read /\ entry[n] \in Object
    BY <1>1, <1>8 DEF BeginRemove, Entries
  <2>1. /\ m \in Mutation /\ m.hidden = NothingHidden /\ ~m.committed /\ m.outcome = "ok"
        /\ m.step = "hideSource" /\ m.op = op /\ m.to = n /\ m.from = n /\ m.source = IdentityOf(entry[n])
    BY <1>2, <1>3, <2>2 DEF Mutation, MutationStep, Op
  <2> HIDE DEF m
  <2>3. MutationInv(m)
    BY <1>2, <1>3, <2>1, <2>2, StartKeeps DEF Op, Transfers, Moves
  <2>q. QED
    BY <2>1, <2>2, <2>3, StartStep
<1>9. ASSUME NEW n \in FileName, NEW p \in FileName, NEW op \in {"copy", "copyOver", "move", "moveOver"},
             BeginTransfer(op, n, p)
      PROVE  FilesInv'
  <2> DEFINE next == IF op \in {"copy", "copyOver"} THEN "stage" ELSE "hideSource"
             m == [NoMutation EXCEPT !.step = next, !.op = op, !.from = n, !.to = p, !.source = IdentityOf(entry[n])]
  <2>2. Starts(m) /\ read' = read /\ entry[n] \in Object
    BY <1>1, <1>9 DEF BeginTransfer, Entries
  <2>3. /\ next \in {"stage", "hideSource", "commit"} /\ next # "commit"
        /\ next = "stage" => op \in Stages
        /\ next = "hideSource" => op \in Moves
    BY DEF Stages, Moves
  <2>1. /\ m \in Mutation /\ m.hidden = NothingHidden /\ ~m.committed /\ m.outcome = "ok"
        /\ m.step = next /\ m.op = op /\ m.to = p /\ m.from = n /\ m.source = IdentityOf(entry[n])
    BY <1>2, <1>3, <2>2, <2>3 DEF Mutation, MutationStep, Op
  <2> HIDE DEF m, next
  <2>4. MutationInv(m)
    BY <1>2, <1>3, <2>1, <2>2, <2>3, StartKeeps DEF Op, Transfers
  <2>q. QED
    BY <2>1, <2>2, <2>4, StartStep
<1>q. QED
  BY <1>4, <1>5, <1>6, <1>7, <1>8, <1>9 DEF Request

-----------------------------------------------------------------------------
(* The workload                                                            *)

\* What the workload does to an inode is noted, and changes no step of the mutation.
LEMMA NoteKeeps ==
    ASSUME FilesInv, NEW o \in Object, NEW resized \in BOOLEAN, Note(o, resized)
    PROVE  /\ MutationInv(mutation') /\ mutation'.hidden = mutation.hidden
           /\ read' \in [name : FileName \cup {Absent}, id : Identity \cup {NoIdentity}] /\ ReadInv'
<1>1. /\ MutationInv(mutation) /\ mutation \in Mutation
      /\ mutation.expected \in Identity \cup {NoIdentity} /\ mutation.source \in Identity \cup {NoIdentity}
      /\ mutation.target \in Identity \cup {NoIdentity}
  BY DEF FilesInv, MutationInv, Mutation
<1> DEFINE w == mutation'
           e == Noted(mutation.expected, o, resized)
           s == Noted(mutation.source, o, resized)
           g == Noted(mutation.target, o, resized)
<1>2. w = [mutation EXCEPT !.expected = e, !.source = s, !.target = g]
  BY DEF Note
<1>3. /\ e \in Identity \cup {NoIdentity} /\ s \in Identity \cup {NoIdentity} /\ g \in Identity \cup {NoIdentity}
      /\ e.object = mutation.expected.object /\ s.object = mutation.source.object
      /\ g.object = mutation.target.object
      /\ mutation.expected = NoIdentity => e = NoIdentity
      /\ mutation.source = NoIdentity => s = NoIdentity
      /\ mutation.target = NoIdentity => g = NoIdentity
  BY <1>1, NotedType
\* Noted of both at once, when both are of the same inode.
<1>4. /\ mutation.target.object = mutation.expected.object
      /\ mutation.expected \in Identity /\ mutation.target \in Identity
      /\ mutation.expected.resized => mutation.target.touched
      => (e.resized => g.touched)
  BY DEF Noted, Identity
<1>5. mutation.step = "idle" => w = NoMutation
  <2>1. mutation.step = "idle" => mutation = NoMutation
    BY <1>1 DEF MutationInv, NameInv
  <2>2. mutation = NoMutation => e = mutation.expected /\ s = mutation.source /\ g = mutation.target
    BY <1>3 DEF NoMutation
  <2> HIDE DEF e, s, g, w
  <2>3. e = mutation.expected /\ s = mutation.source /\ g = mutation.target => w = mutation
    BY <1>1, <1>2 DEF Mutation
  <2>q. QED
    BY <2>1, <2>2, <2>3
<1> HIDE DEF w, e, s, g
<1>6. /\ w \in Mutation /\ w.step = mutation.step /\ w.op = mutation.op /\ w.from = mutation.from
      /\ w.to = mutation.to /\ w.hidden = mutation.hidden /\ w.source = s /\ w.expected = e /\ w.target = g
      /\ w.committed = mutation.committed /\ w.outcome = mutation.outcome
  BY <1>1, <1>2, <1>3 DEF Mutation
<1>7. Shape(w)
  BY <1>1, <1>6 DEF MutationInv, Shape
<1>8. Progress(w) /\ NameInv(w)
  BY <1>1, <1>3, <1>5, <1>6 DEF MutationInv, Progress, NameInv
<1>9. EditInv(w)
  <2>1. ASSUME mutation.op = "edit", mutation.step \in {"reinspect", "commit", "confirm"}
        PROVE  /\ g.object = mutation.hidden["target"] /\ e.object = mutation.hidden["target"]
               /\ e.resized => g.touched
    <3>1. /\ mutation.target.object = mutation.hidden["target"]
          /\ mutation.expected.object = mutation.hidden["target"]
          /\ mutation.expected.resized => mutation.target.touched
      BY <1>1, <2>1 DEF MutationInv, EditInv
    <3>2. CASE mutation.expected \in Identity /\ mutation.target \in Identity
      BY <1>3, <1>4, <3>1, <3>2
    <3>3. CASE mutation.expected = NoIdentity
      BY <1>3, <3>1, <3>3 DEF NoIdentity
    <3>4. CASE mutation.target = NoIdentity /\ mutation.expected \in Identity
      BY <1>1, <3>1, <3>4, FilesAssumption DEF NoIdentity, Identity
    <3>q. QED
      BY <1>1, <3>2, <3>3, <3>4
  <2>q. QED
    BY <1>6, <2>1 DEF EditInv
<1>10. Told(w)
  <2>1. HiddenBy(w) = HiddenBy(mutation)
    BY <1>6 DEF HiddenBy
  <2>q. QED
    BY <1>1, <1>6, <2>1 DEF MutationInv, Told
<1>11. read' \in [name : FileName \cup {Absent}, id : Identity \cup {NoIdentity}] /\ ReadInv'
  BY ReadKeeps DEF Note
<1>q. QED
  BY <1>6, <1>7, <1>8, <1>9, <1>10, <1>11 DEF MutationInv, w

LEMMA WorkloadStep ==
    ASSUME FilesInv, Workload
    PROVE  FilesInv'
<1>1. /\ entry \in Entries /\ kind \in Kinds /\ mutation.hidden \in Hidings
      /\ PlaceOK(entry, mutation.hidden, kind, left)
  BY PlaceFacts
<1>2. ASSUME NEW n \in FileName, UnlinkEntry(n) PROVE FilesInv'
  <2>1. /\ entry[n] # Absent /\ entry[n] \in Object /\ entry' = [entry EXCEPT ![n] = Absent]
        /\ kind' = [kind EXCEPT ![entry[n]] = "free"] /\ Note(entry[n], FALSE) /\ left' = left
    BY <1>1, <1>2 DEF UnlinkEntry, Entries
  <2>2. PlaceOK([entry EXCEPT ![n] = Absent], mutation.hidden, [kind EXCEPT ![entry[n]] = "free"], left)
    BY <1>1, <2>1, PlaceFacts, UnlinkKeeps
  <2>3. entry' \in Entries /\ kind' \in Kinds
    BY <1>1, <2>1 DEF Entries, Kinds
  <2>4. /\ MutationInv(mutation') /\ mutation'.hidden = mutation.hidden
        /\ read' \in [name : FileName \cup {Absent}, id : Identity \cup {NoIdentity}] /\ ReadInv'
    BY <2>1, NoteKeeps
  <2>q. QED
    BY <2>1, <2>2, <2>3, <2>4, PlaceFacts, MovingStep
<1>3. ASSUME NEW n \in FileName, NEW p \in FileName, RenameEntry(n, p) PROVE FilesInv'
  <2>1. /\ n # p /\ entry[n] # Absent /\ entry[n] \in Object
        /\ entry' = [entry EXCEPT ![n] = Absent, ![p] = entry[n]]
        /\ kind' = (IF entry[p] = Absent THEN kind ELSE [kind EXCEPT ![entry[p]] = "free"])
        /\ Note(entry[n], FALSE) /\ left' = left
    BY <1>1, <1>3 DEF RenameEntry, Entries
  <2>2. PlaceOK([entry EXCEPT ![n] = Absent, ![p] = entry[n]], mutation.hidden,
                IF entry[p] = Absent THEN kind ELSE [kind EXCEPT ![entry[p]] = "free"], left)
    BY <1>1, <2>1, PlaceFacts, RenameKeeps
  <2>3. entry' \in Entries /\ kind' \in Kinds
    BY <1>1, <2>1 DEF Entries, Kinds
  <2>4. /\ MutationInv(mutation') /\ mutation'.hidden = mutation.hidden
        /\ read' \in [name : FileName \cup {Absent}, id : Identity \cup {NoIdentity}] /\ ReadInv'
    BY <2>1, NoteKeeps
  <2>q. QED
    BY <2>1, <2>2, <2>3, <2>4, PlaceFacts, MovingStep
<1>4. ASSUME NEW n \in FileName, NEW o \in Object, NEW k \in {"file", "directory"}, NEW resized \in BOOLEAN,
             Make(n, o, k, resized)
      PROVE  FilesInv'
  <2>1. /\ entry[n] = Absent /\ kind[o] = "free" /\ entry' = [entry EXCEPT ![n] = o]
        /\ kind' = [kind EXCEPT ![o] = k] /\ Note(o, resized) /\ left' = left
    BY <1>4 DEF Make, Free
  <2>2. PlaceOK([entry EXCEPT ![n] = o], mutation.hidden, [kind EXCEPT ![o] = k], left)
    BY <1>1, <2>1, PlaceFacts, MakeKeeps
  <2>3. entry' \in Entries /\ kind' \in Kinds
    BY <1>1, <2>1 DEF Entries, Kinds
  <2>4. /\ MutationInv(mutation') /\ mutation'.hidden = mutation.hidden
        /\ read' \in [name : FileName \cup {Absent}, id : Identity \cup {NoIdentity}] /\ ReadInv'
    BY <2>1, NoteKeeps
  <2>q. QED
    BY <2>1, <2>2, <2>3, <2>4, PlaceFacts, MovingStep
<1>5. ASSUME NEW o \in Object, NEW resized \in BOOLEAN, Change(o, resized) PROVE FilesInv'
  BY <1>5, NoteKeeps, PlaceFacts, MovingStep DEF Change
<1>q. QED
  BY <1>2, <1>3, <1>4, <1>5 DEF Workload

-----------------------------------------------------------------------------
LEMMA FilesInitInv ==
    ASSUME FilesInit
    PROVE  FilesInv
<1>1. mutation.hidden = NothingHidden /\ left = {} /\ read = NothingRead /\ mutation = NoMutation
  BY DEF FilesInit, NoMutation
<1>2. PlaceInv
  BY <1>1, FilesAssumption DEF FilesInit, PlaceInv, PlaceOK, NothingHidden
<1>3. FilesTypeOK /\ ReadInv
  BY <1>1, NothingInProgress DEF FilesInit, FilesTypeOK, ReadInv, NothingRead, MutationInv
<1>q. QED
  BY <1>1, <1>2, <1>3, NothingInProgress DEF FilesInv

LEMMA FilesNextInv ==
    ASSUME FilesInv, [FilesNext]_filesVars
    PROVE  FilesInv'
<1>1. CASE Proceed
  BY <1>1, StageStep, RecheckStep, HideSourceStep, InspectSourceStep, HideTargetStep, InspectTargetStep,
     ToCommitStep, MergeStep, PutInPlaceStep, OpenMadeStep, ConfirmStep, UnlinkHiddenStep, SyncStep,
     PutBackSteps, UnstageStep, AnswerStep DEF Proceed
<1>2. CASE UNCHANGED filesVars
  BY <1>2 DEF filesVars, FilesInv, FilesTypeOK, PlaceInv, PlaceOK, ReadInv
<1>q. QED
  BY <1>1, <1>2, RequestStep, WorkloadStep, AnswerStep DEF FilesNext

LEMMA FilesInvariance == FilesSpec => []FilesInv
BY FilesInitInv, FilesNextInv, PTL DEF FilesSpec

(* The directory, the mutation in progress and what is left behind have their  *)
(* types.                                                                      *)
THEOREM FilesTypeCorrect == FilesSpec => []FilesTypeOK
<1>1. FilesInv => FilesTypeOK
  BY DEF FilesInv
<1>q. QED
  BY <1>1, FilesInvariance, PTL

LEMMA OneOrNone ==
    ASSUME NEW S, \A x, y \in S : x = y
    PROVE  Cardinality(S) = IF S = {} THEN 0 ELSE 1
<1>1. CASE S = {}
  BY <1>1, FS_EmptySet
<1>2. CASE S # {}
  <2>1. PICK x \in S : TRUE
    BY <1>2
  <2>2. S = {x}
    BY <2>1
  <2>q. QED
    BY <2>2, FS_Singleton
<1>q. QED
  BY <1>1, <1>2

(* However mutations and the workload interleave, fail or are cut short, an     *)
(* inode is at exactly one place as long as it exists: no rename of             *)
(* bounded-files.ts replaces what it did not hide, and nothing is forgotten.    *)
THEOREM FilesKept == FilesSpec => []NothingLost
<1>1. FilesInv => NothingLost
  <2> SUFFICES ASSUME FilesInv, NEW o \in Object
               PROVE  LET names == {n \in FileName : entry[n] = o}
                          slots == {s \in Slot : mutation.hidden[s] = o}
                      IN  Cardinality(names) + Cardinality(slots) + Cardinality({o} \cap left)
                            = (IF kind[o] = "free" THEN 0 ELSE 1)
    BY DEF NothingLost
  <2> DEFINE names == {n \in FileName : entry[n] = o}
             slots == {s \in Slot : mutation.hidden[s] = o}
             rest == {o} \cap left
  <2>1. PlaceOK(entry, mutation.hidden, kind, left) /\ o # Absent
    BY PlaceFacts, FilesAssumption
  <2>2. \A x, y \in names : x = y
    BY <2>1 DEF PlaceOK
  <2>3. \A x, y \in slots : x = y
    BY <2>1 DEF PlaceOK
  <2>4. \A x, y \in rest : x = y
    OBVIOUS
  <2>5. /\ kind[o] = "free" <=> names = {} /\ slots = {} /\ rest = {}
        /\ names = {} \/ slots = {}
        /\ names = {} \/ rest = {}
        /\ slots = {} \/ rest = {}
    <3>1. kind[o] = "free" <=> names = {} /\ slots = {} /\ rest = {}
      BY <2>1 DEF PlaceOK
    <3>2. names = {} \/ slots = {}
      BY <2>1 DEF PlaceOK
    <3>3. names = {} \/ rest = {}
      BY <2>1 DEF PlaceOK
    <3>4. slots = {} \/ rest = {}
      BY <2>1 DEF PlaceOK
    <3>q. QED
      BY <3>1, <3>2, <3>3, <3>4
  <2> HIDE DEF names, slots, rest
  <2>6. /\ Cardinality(names) = (IF names = {} THEN 0 ELSE 1)
        /\ Cardinality(slots) = (IF slots = {} THEN 0 ELSE 1)
        /\ Cardinality(rest) = (IF rest = {} THEN 0 ELSE 1)
    BY <2>2, <2>3, <2>4, OneOrNone
  <2>7. Cardinality(names) + Cardinality(slots) + Cardinality(rest) = (IF kind[o] = "free" THEN 0 ELSE 1)
    BY <2>5, <2>6
  <2>q. QED
    BY <2>7 DEF names, slots, rest
<1>q. QED
  BY <1>1, FilesInvariance, PTL

(* What a mutation answers is so: after a success nothing is hidden, after a    *)
(* plain error nothing was done, and each of the other answers names what       *)
(* remains, in whatever order the steps of bounded-files.ts have failed.        *)
THEOREM OutcomesTell == FilesSpec => []OutcomeTells
<1>1. FilesInv => OutcomeTells
  BY DEF FilesInv, MutationInv, Told, OutcomeTells
<1>q. QED
  BY <1>1, FilesInvariance, PTL

(* An edit never removes what somebody else has written: the file it unlinks is *)
(* the one it has read, at its size, whatever came between.                     *)
THEOREM EditsAreOfWhatWasRead == FilesSpec => EditKeepsOthersWork
<1>1. ASSUME FilesInv, [FilesNext]_filesVars
      PROVE  mutation.op = "edit" /\ mutation.step = "confirm" /\ mutation'.step = "unlink"
             => /\ mutation.expected.object = mutation.hidden["target"]
                /\ ~mutation.expected.resized
  <2> SUFFICES ASSUME mutation.op = "edit", mutation.step = "confirm", mutation'.step = "unlink"
               PROVE  /\ mutation.expected.object = mutation.hidden["target"]
                      /\ ~mutation.expected.resized
    OBVIOUS
  <2>1. mutation \in Mutation /\ EditInv(mutation)
    BY <1>1 DEF FilesInv, MutationInv
  <2>2. Confirm
    <3>1. ~Workload
      BY <2>1 DEF Workload, UnlinkEntry, RenameEntry, Make, Change, Note, Mutation
    <3>2. ~Request
      BY DEF Request, BeginEdit, ReadForEdit, BeginMkdir, BeginWrite, BeginRemove, BeginTransfer, Starts
    <3>3. ~Restart /\ ~UNCHANGED filesVars
      BY DEF Restart, NoMutation, filesVars
    <3>q. QED
      BY <1>1, <3>1, <3>2, <3>3 DEF FilesNext, Proceed, Stage, Recheck, HideSource, InspectSource, HideTarget,
         InspectTarget, Reinspect, Merge, Verify, PutInPlace, OpenMade, UnlinkHidden, Sync, RecoverTarget,
         RecoverSource, Unstage, Answer, In
  <2>3. Same(mutation.target, mutation.hidden["target"])
    <3>1. ~IsRemoval /\ Doomed = "target"
      BY DEF IsRemoval, Doomed
    <3>2. ~CleanupFails
      BY <2>1, <3>1 DEF CleanupFails, Mutation
    <3>q. QED
      BY <2>2, <3>1, <3>2 DEF Confirm
  <2>q. QED
    BY <2>1, <2>3 DEF EditInv, Same
<1>q. QED
  BY <1>1, FilesInvariance, PTL DEF FilesSpec, EditKeepsOthersWork

(* An overwritten entry goes only after the new one is in place, in every       *)
(* interleaving with failures, restarts and the workload.                       *)
THEOREM OldEntriesOutlive == FilesSpec => OldUntilNew
<1>1. ASSUME FilesInv, [FilesNext]_filesVars
      PROVE  LET old == mutation.hidden["target"]
             IN  old # Absent /\ kind'[old] = "free" => mutation.committed
  <2> DEFINE old == mutation.hidden["target"]
  <2> SUFFICES ASSUME old # Absent, kind'[old] = "free", ~mutation.committed
               PROVE  FALSE
    OBVIOUS
  <2>1. /\ entry \in Entries /\ mutation.hidden \in Hidings /\ kind \in Kinds
        /\ PlaceOK(entry, mutation.hidden, kind, left) /\ MutationInv(mutation)
    BY <1>1, PlaceFacts DEF FilesInv
  <2>2. /\ old \in Object /\ kind[old] # "free"
        /\ \A n \in FileName : entry[n] # old
        /\ \A s \in Slot : mutation.hidden[s] = old => s = "target"
    BY <2>1 DEF PlaceOK, Hidings, Entries, Slot
  <2>3. ASSUME NEW o \in Free, NEW k, kind' = [kind EXCEPT ![o] = k] PROVE FALSE
    BY <2>1, <2>2, <2>3 DEF Free, Kinds
  <2>4. ASSUME UNCHANGED kind PROVE FALSE
    BY <2>2, <2>4
  <2>5. ASSUME UnlinkHidden PROVE FALSE
    <3>1. CASE IsRemoval
      <4>1. mutation.hidden["source"] # old
        BY <2>2 DEF Slot
      <4>q. QED
        BY <2>1, <2>2, <2>4, <2>5, <3>1, <4>1 DEF UnlinkHidden, Doomed, Kinds
    <3>2. CASE ~IsRemoval
      BY <2>1, <2>5, <3>2 DEF UnlinkHidden, In, MutationInv, Progress, IsRemoval, Removals, Begun
    <3>q. QED
      BY <3>1, <3>2
  <2>6. ASSUME Unstage PROVE FALSE
    <3>1. \A s \in {"staged", "merged"} : mutation.hidden[s] # old
      BY <2>2 DEF Slot
    <3>q. QED
      BY <2>2, <2>6, <3>1 DEF Unstage
  <2>7. ASSUME NEW n \in FileName, UnlinkEntry(n) PROVE FALSE
    BY <2>1, <2>2, <2>7 DEF UnlinkEntry, Kinds
  <2>8. ASSUME NEW n \in FileName, NEW p \in FileName, RenameEntry(n, p) PROVE FALSE
    BY <2>1, <2>2, <2>8 DEF RenameEntry, Kinds
  <2>9. CASE Proceed
    BY <2>3, <2>4, <2>5, <2>6, <2>9 DEF Proceed, Stage, Recheck, HideSource, InspectSource, HideTarget,
       InspectTarget, Reinspect, Merge, Verify, PutInPlace, OpenMade, Confirm, Sync, RecoverTarget,
       RecoverSource, PutBack, Answer
  <2>10. CASE Workload
    BY <2>3, <2>4, <2>7, <2>8, <2>10 DEF Workload, Make, Change
  <2>11. CASE Request \/ Restart \/ UNCHANGED filesVars
    BY <2>4, <2>11 DEF Request, BeginEdit, ReadForEdit, BeginMkdir, BeginWrite, BeginRemove, BeginTransfer,
       Starts, Restart, filesVars
  <2>q. QED
    BY <1>1, <2>9, <2>10, <2>11 DEF FilesNext
<1>q. QED
  BY <1>1, FilesInvariance, PTL DEF FilesSpec, OldUntilNew
==============================================================================
