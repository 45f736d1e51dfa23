------------------------- MODULE HostOperationsProofs -------------------------
(***************************************************************************)
(* Proofs about module HostOperations, for every group of containers and   *)
(* however many operations, faults and changes past Qubicl there are.      *)
(***************************************************************************)
EXTENDS HostOperations, SequenceTheorems, TLAPS

TypeInv ==
    /\ TypeOK
    /\ \A c \in Container :
          box[c].id <= used.outside + (IF box[c].status = "absent" THEN 0 ELSE 1)

(***************************************************************************)
(* Where an operation can be, and which journals there are at each place.  *)
(***************************************************************************)
Recovering == {"pending", "resume", "check", "clean", "unjournal"}

PlacesOf(within) ==
    CASE within = "lifecycle" -> {"observe", "recheck", "record", "docker", "verify", "clear", "done", "failed"}
      [] within = "begin"     -> Recovering \cup {"docker", "observe", "record", "failed"}
      [] within = "create"    -> {"docker", "stage", "paused", "capture", "captured", "resume", "check",
                                  "resumed", "publish", "unjournal", "done"}
      [] within = "catch"     -> Recovering \cup {"docker", "failed"}
      [] within = "recover"   -> Recovering \cup {"docker", "lifecycle", "verify", "clear", "done", "failed"}

OpsOf(within) ==
    CASE within = "lifecycle" -> {"start", "stop", "restart"}
      [] within = "recover"   -> {"recover"}
      [] OTHER                -> Capturing

\* The places from which only the journal of a backup is worked on.
InBackup ==
    {"stage", "paused", "capture", "captured", "resumed", "publish", "resume", "check", "clean", "unjournal"}

ControlInv ==
    Busy => /\ command.at \in PlacesOf(command.within)
            /\ command.op \in OpsOf(command.within)
            /\ At("docker") => /\ command.then \in {"verify", "check", "paused"}
                               /\ command.then \in PlacesOf(command.within)
                               /\ command.calls # <<>>

\* What the places of the command require of the journals.
JournalsAt(place) ==
    /\ place \in {"observe", "recheck", "record", "lifecycle", "done", "verify", "clear"} => backup = None
    /\ place \in {"observe", "recheck", "record", "done"} => lifecycle = None
    /\ place \in {"verify", "clear"} => lifecycle # None
    /\ place \in InBackup => backup # None
    /\ place \in {"resume", "check", "paused"} => backup.ids # None

JournalInv ==
    /\ OneJournal
    /\ lifecycle # None /\ lifecycle.operation # "start" => lifecycle.ids # None
    /\ Busy => /\ command.within = "lifecycle" => backup = None
               /\ command.within \in {"begin", "create", "catch"} => lifecycle = None
               /\ JournalsAt(IF At("docker") THEN command.then ELSE command.at)
               /\ At("recheck") \/ At("record") =>
                      /\ command.seen \in Boxes
                      /\ command.within = "lifecycle" /\ command.op # "start" => ~Gone(command.seen)

(***************************************************************************)
(* The numbers of operations: the one that has still to write its journal  *)
(* is the latest.                                                          *)
(***************************************************************************)
WillRecord == Busy /\ (command.within = "begin" \/ command.at \in {"observe", "recheck", "record"})

Before(n) == n <= used.ops /\ (WillRecord => n < command.no)

NumberInv ==
    /\ WillRecord => command.no = used.ops /\ command.no \in Op
    /\ lifecycle # None => Before(lifecycle.no)
    /\ backup # None => Before(backup.no)

\* The journals that a plan has seen are gone once its preview has found none.
PlanInv ==
    plan # None =>
        LET L == plan.print[1][1]
            B == plan.print[1][2]
        IN  /\ L # None => Before(L.no)
            /\ B # None => Before(B.no)
            /\ plan.ready /\ plan.op # "recover" =>
                   /\ L # None /\ lifecycle # None => L.no # lifecycle.no
                   /\ B # None /\ backup # None => B.no # backup.no

JobInv ==
    /\ ReportedOverIsOver
    /\ \A n \in Op : n > used.ops => job[n] = "none"
    /\ Busy => /\ command.no # 0 => job[command.no] = (IF command.dashboard THEN "running" ELSE "none")
               /\ command.dashboard => helper /\ command.no # 0

(***************************************************************************)
(* What is paused, and what has been asked of Docker.                      *)
(***************************************************************************)
PauseInv ==
    /\ PausesAreUndone
    /\ frozen \subseteq Those(box, "paused")
    /\ Busy /\ command.at \in {"clean", "unjournal", "resumed", "publish"} => frozen = {}

\* A call names the containers as the journal does.
Named(then, verb, c, id) ==
    CASE then = "verify" ->
            /\ verb \in {"stop", "restart", "start", "unpause", "up"}
            /\ IF verb = "up" THEN lifecycle.ids = None
               ELSE lifecycle.ids # None /\ id = lifecycle.ids[c]
      [] then = "check"  -> verb = "unpause" /\ id = backup.ids[c]
      [] then = "paused" -> verb = "pause" /\ id = backup.ids[c]

CallsInv ==
    At("docker") =>
        /\ \A i \in 1 .. Len(command.calls) : \A k \in command.calls[i].on :
               Named(command.then, command.calls[i].verb, k[1], k[2])
        /\ command.then \in {"check", "paused"} => Len(command.calls) = 1

(***************************************************************************)
(* The home while it is captured: nothing has run, or somebody has used    *)
(* Docker since.                                                           *)
(***************************************************************************)
Quiet == used.outside = command.since

Still == Those(box, "running") = {}

MomentInv ==
    /\ BackupsAreOfOneMoment
    /\ Busy /\ command.within \in {"begin", "create"} =>
        /\ command.since <= used.outside
        /\ At("record") /\ Quiet =>
               /\ command.seen = box
               /\ Capturable
        /\ command.within = "create" =>
               /\ At("stage") /\ backup.ids = None /\ Quiet => Still
               /\ At("docker") /\ command.then = "paused" /\ Quiet /\ ~command.err =>
                      \A c \in Those(box, "running") : <<c, backup.ids[c]>> \in command.calls[1].on
               /\ command.at \in {"paused", "capture"} /\ Quiet => Still
               /\ command.at \notin {"stage", "unjournal", "done"} =>
                      staging # None /\ (staging.torn => ~Quiet)

IInv ==
    /\ TypeInv /\ ControlInv /\ JournalInv /\ NumberInv /\ PlanInv /\ JobInv
    /\ PauseInv /\ CallsInv /\ MomentInv
-----------------------------------------------------------------------------
(* The steps of a command, by its fields.                                  *)

SameOperation ==
    /\ command'.op = command.op /\ command'.no = command.no
    /\ command'.dashboard = command.dashboard /\ command'.since = command.since

LEMMA GotoFields ==
    ASSUME command \in Operation, NEW place \in Place, Goto(place)
    PROVE  /\ command' \in Operation /\ SameOperation
           /\ command'.at = place /\ command'.within = command.within
           /\ command'.seen = command.seen /\ command'.then = command.then
           /\ command'.calls = command.calls
BY DEF Goto, Operation, SameOperation

LEMMA ThrowFields ==
    ASSUME command \in Operation, Throw
    PROVE  /\ command' \in Operation /\ SameOperation
           /\ command'.at = IF command.within = "create" THEN "pending" ELSE "failed"
           /\ command'.within = IF command.within = "create" THEN "catch" ELSE command.within
<1> DEFINE place == IF command.within = "create" THEN "pending" ELSE "failed"
           within == IF command.within = "create" THEN "catch" ELSE command.within
<1>1. place \in Place /\ within \in Within
  BY DEF Place, Within, Operation
<1>2. command' = [command EXCEPT !.at = place, !.within = within, !.calls = <<>>,
                                 !.err = FALSE, !.seen = None]
  BY DEF Throw, Operation
<1> HIDE DEF place, within
<1>3. <<>> \in Seq(DockerCalls)
  OBVIOUS
<1>4. /\ command' \in Operation /\ SameOperation
      /\ command'.at = place /\ command'.within = within
  BY <1>1, <1>2, <1>3 DEF Operation, SameOperation
<1> QED
  BY <1>4 DEF place, within

LEMMA DockerFields ==
    ASSUME command \in Operation, NEW calls \in Seq(DockerCalls), NEW then \in Place,
           Docker(calls, then)
    PROVE  /\ command' \in Operation /\ SameOperation
           /\ command'.at = IF calls = <<>> THEN then ELSE "docker"
           /\ command'.within = command.within /\ command'.then = then
           /\ command'.calls = calls
<1> DEFINE place == IF calls = <<>> THEN then ELSE "docker"
<1>1. place \in Place
  BY DEF Place
<1>2. command' = [command EXCEPT !.at = place, !.then = then, !.seen = None, !.calls = calls]
  BY DEF Docker
<1> HIDE DEF place
<1>3. /\ command' \in Operation /\ SameOperation
      /\ command'.at = place /\ command'.within = command.within
      /\ command'.then = then /\ command'.calls = calls
  BY <1>1, <1>2 DEF Operation, SameOperation
<1> QED
  BY <1>3 DEF place

(* The containers of a call, by the identities that it names.              *)
IsCall(calls, verb, ids, among) ==
    /\ calls \in Seq(DockerCalls)
    /\ calls = <<>> <=> among = {}
    /\ calls # <<>> => Len(calls) = 1 /\ calls[1].on = {<<c, ids[c]>> : c \in among}
    /\ \A i \in 1 .. Len(calls) :
          /\ calls[i].verb = verb
          /\ \A k \in calls[i].on : k[1] \in Container /\ k[2] = ids[k[1]]

LEMMA CallFields ==
    ASSUME NEW verb \in {"stop", "restart", "start", "unpause", "pause", "up"},
           NEW among \in SUBSET Container, NEW ids,
           \A c \in Container : ids[c] \in Identity \cup {None}
    PROVE  IsCall(Call(verb, ids, among), verb, ids, among)
<1> DEFINE on == {<<c, ids[c]>> : c \in among}
           call == [verb |-> verb, on |-> on]
<1>1. on \subseteq Container \X (Identity \cup {None})
  OBVIOUS
<1>2. \A k \in on : k[1] \in Container /\ k[2] = ids[k[1]]
  OBVIOUS
<1>3. call \in DockerCalls /\ call.verb = verb /\ call.on = on
  BY <1>1 DEF DockerCalls
<1>4. Call(verb, ids, among) = IF among = {} THEN <<>> ELSE <<call>>
  BY DEF Call
<1> HIDE DEF call
<1>5. CASE among = {}
  BY <1>4, <1>5 DEF IsCall
<1>6. CASE among # {}
  <2>1. <<call>> \in Seq(DockerCalls) /\ Len(<<call>>) = 1 /\ <<call>>[1] = call
    BY <1>3
  <2> QED
    BY <1>2, <1>3, <1>4, <1>6, <2>1 DEF IsCall
<1> QED
  BY <1>5, <1>6
-----------------------------------------------------------------------------
(* Steps that change the command and count at most a fault.                *)

UsedType == [ops : 0 .. MaxOps, faults : 0 .. MaxFaults, outside : 0 .. MaxOutside]

CommandOnly ==
    /\ command \in Operation /\ command' \in Operation /\ SameOperation
    /\ UNCHANGED <<box, files, dashboard, frozen>>
    /\ used' \in UsedType /\ used'.ops = used.ops /\ used'.outside = used.outside

LEMMA UseFields ==
    ASSUME used \in UsedType
    PROVE  /\ Use("faults") /\ used.faults < MaxFaults =>
                  used' \in UsedType /\ used'.ops = used.ops /\ used'.outside = used.outside
           /\ Use("ops") /\ used.ops < MaxOps =>
                  used' \in UsedType /\ used'.ops = used.ops + 1 /\ used'.outside = used.outside
           /\ Use("outside") /\ used.outside < MaxOutside =>
                  used' \in UsedType /\ used'.ops = used.ops /\ used'.outside = used.outside + 1
BY HostAssumption DEF Use, UsedType

LEMMA TypeFacts ==
    ASSUME IInv
    PROVE  /\ box \in Boxes
           /\ \A c \in Container : box[c].id \in Identity /\ box[c].status \in Status
           /\ lifecycle \in Lifecycle \cup {None} /\ backup \in Backup \cup {None}
           /\ staging \in Staging \cup {None} /\ used \in UsedType
           /\ frozen \subseteq Container /\ helper \in BOOLEAN /\ job \in [Op -> Job]
           /\ (Busy <=> command \in Operation) /\ command \in Operation \cup {NoCommand}
BY DEF IInv, TypeInv, TypeOK, Busy, NoCommand, Operation, Kind, Boxes, UsedType

LEMMA PlanFacts ==
    ASSUME IInv, plan # None
    PROVE  /\ plan.op \in Kind /\ plan.ready \in BOOLEAN
           /\ plan.print[1][1] \in Lifecycle \cup {None} /\ plan.print[1][2] \in Backup \cup {None}
           /\ plan.print[1][1] # None => plan.print[1][1].no \in Op
           /\ plan.print[1][2] # None => plan.print[1][2].no \in Op
<1>1. plan \in PlanType
  BY DEF IInv, TypeInv, TypeOK
<1>2. /\ plan.op \in Kind /\ plan.ready \in BOOLEAN
      /\ plan.print \in ((Lifecycle \cup {None}) \X (Backup \cup {None})) \X (Boxes \cup {None})
  BY <1>1 DEF PlanType
<1>3. plan.print[1][1] \in Lifecycle \cup {None} /\ plan.print[1][2] \in Backup \cup {None}
  BY <1>2
<1> QED
  BY <1>2, <1>3 DEF Lifecycle, Backup

LEMMA BusyFacts ==
    ASSUME IInv, Busy
    PROVE  /\ command \in Operation /\ command.at \in PlacesOf(command.within)
           /\ command.within \in Within /\ command.op \in OpsOf(command.within)
           /\ command.at \in Place /\ command.op \in Kind /\ command.no \in Op \cup {0}
BY TypeFacts DEF IInv, ControlInv, Operation

(* What does not depend on where the command is.                           *)
LEMMA Framed ==
    ASSUME IInv, CommandOnly, WillRecord' => WillRecord
    PROVE  TypeInv' /\ NumberInv' /\ PlanInv' /\ JobInv'
<1>1. Busy /\ Busy'
  BY DEF CommandOnly, Busy, NoCommand, Operation, Kind
<1>2. TypeInv'
  BY DEF IInv, TypeInv, TypeOK, CommandOnly, files, journals, dashboard, UsedType
<1>3. \A n : Before(n) => Before(n)'
  BY DEF Before, CommandOnly, SameOperation
<1>4. NumberInv'
  BY <1>3 DEF IInv, NumberInv, CommandOnly, SameOperation, files, journals
<1>5. PlanInv'
  BY <1>3 DEF IInv, PlanInv, CommandOnly, files, journals, dashboard
<1>6. JobInv'
  BY <1>1 DEF IInv, JobInv, ReportedOverIsOver, CommandOnly, SameOperation, files, journals, dashboard
<1> QED
  BY <1>2, <1>4, <1>5, <1>6

(* A command goes on in the same part.                                     *)
LEMMA Moved ==
    ASSUME IInv, CommandOnly, command'.within = command.within,
           command'.at # "docker", command'.at \in PlacesOf(command.within),
           JournalsAt(command'.at),
           command'.at \in {"clean", "unjournal", "resumed", "publish"} => frozen = {},
           command'.at \in {"observe", "recheck", "record"} => WillRecord,
           command'.at \in {"recheck", "record"} =>
               command'.seen \in Boxes /\ (command.op # "start" => ~Gone(command'.seen)),
           command.within = "begin" => command'.at # "record",
           command.within = "create" =>
               /\ command.at \notin {"stage", "unjournal", "done"} /\ command'.at # "stage"
               /\ command'.at \in {"paused", "capture"} /\ Quiet => Still
    PROVE  IInv'
<1>1. Busy /\ Busy'
  BY DEF CommandOnly, Busy, NoCommand, Operation, Kind
<1>2. WillRecord' => WillRecord
  BY <1>1 DEF WillRecord
<1>3. TypeInv' /\ NumberInv' /\ PlanInv' /\ JobInv'
  BY <1>2, Framed
<1>4. ControlInv'
  BY <1>1 DEF IInv, ControlInv, At, CommandOnly, SameOperation
<1>5. JournalInv'
  BY <1>1 DEF IInv, JournalInv, JournalsAt, OneJournal, At, Gone, InAll, CommandOnly, SameOperation, files, journals
<1>6. PauseInv'
  BY DEF IInv, PauseInv, PausesAreUndone, Those, CommandOnly, files, journals
<1>7. CallsInv'
  BY DEF CallsInv, At
<1>8. MomentInv'
  <2>1. BackupsAreOfOneMoment' /\ staging' = staging /\ (Quiet' <=> Quiet) /\ (Still' <=> Still)
        /\ used'.outside = used.outside /\ command'.since = command.since
    BY DEF IInv, MomentInv, BackupsAreOfOneMoment, Quiet, Still, Those, CommandOnly, SameOperation, files
  <2>2. CASE command.within = "create"
    <3>1. command'.at # "record"
      BY <2>2 DEF PlacesOf
    <3> QED
      BY <1>1, <2>1, <2>2, <3>1 DEF IInv, MomentInv, At
  <2>3. CASE command.within # "create"
    BY <1>1, <2>1, <2>3 DEF IInv, MomentInv, At
  <2> QED
    BY <2>2, <2>3
<1> QED
  BY <1>3, <1>4, <1>5, <1>6, <1>7, <1>8 DEF IInv

(* An error: of a backup that has its journal, recovery is tried first.    *)
LEMMA Thrown ==
    ASSUME IInv, Busy, command.at # "done", Throw, UNCHANGED <<box, files, dashboard, frozen>>,
           used' \in UsedType, used'.ops = used.ops, used'.outside = used.outside
    PROVE  IInv'
<1>1. /\ command \in Operation /\ command' \in Operation /\ SameOperation
      /\ command'.at = IF command.within = "create" THEN "pending" ELSE "failed"
      /\ command'.within = IF command.within = "create" THEN "catch" ELSE command.within
      /\ command.within \in Within /\ command.op \in OpsOf(command.within)
  BY BusyFacts, ThrowFields
<1>2. CommandOnly /\ Busy'
  BY <1>1 DEF CommandOnly, Busy, NoCommand, Operation, Kind
<1>3. WillRecord' => WillRecord
  BY <1>1 DEF WillRecord
<1>4. TypeInv' /\ NumberInv' /\ PlanInv' /\ JobInv'
  BY <1>2, <1>3, Framed
<1>5. ControlInv'
  BY <1>1 DEF ControlInv, PlacesOf, OpsOf, Within, Recovering, At, SameOperation
<1>6. JournalInv'
  BY <1>1, <1>2 DEF IInv, JournalInv, JournalsAt, InBackup, OneJournal, At, CommandOnly, files, journals
<1>7. PauseInv'
  BY <1>1, <1>2 DEF IInv, PauseInv, PausesAreUndone, Those, CommandOnly, files, journals
<1>8. CallsInv'
  BY <1>1 DEF CallsInv, At
<1>9. MomentInv'
  BY <1>1, <1>2 DEF IInv, MomentInv, BackupsAreOfOneMoment, At, Quiet, CommandOnly, SameOperation, files
<1> QED
  BY <1>4, <1>5, <1>6, <1>7, <1>8, <1>9 DEF IInv

LEMMA FailsStep ==
    ASSUME IInv, Fails
    PROVE  IInv'
<1>1. used \in UsedType
  BY TypeFacts
<1> QED
  BY <1>1, UseFields, Thrown DEF Fails

(* A command asks something of Docker.                                     *)
LEMMA Asked ==
    ASSUME IInv, Busy, UNCHANGED <<box, files, dashboard, frozen, used>>,
           NEW calls \in Seq(DockerCalls), calls # <<>>, NEW then \in {"verify", "check"},
           Docker(calls, then),
           then \in PlacesOf(command.within), JournalsAt(then),
           command.at \notin {"stage", "unjournal", "done"}, "docker" \in PlacesOf(command.within),
           \A i \in 1 .. Len(calls) : \A k \in calls[i].on : Named(then, calls[i].verb, k[1], k[2]),
           then = "check" => Len(calls) = 1
    PROVE  IInv'
<1>1. /\ command \in Operation /\ command' \in Operation /\ SameOperation
      /\ command'.at = "docker" /\ command'.within = command.within
      /\ command'.then = then /\ command'.calls = calls /\ command.op \in OpsOf(command.within)
  BY BusyFacts, DockerFields DEF Place
<1>2. CommandOnly /\ Busy'
  BY <1>1, TypeFacts DEF CommandOnly, Busy, NoCommand, Operation, Kind
<1>3. WillRecord' => WillRecord
  BY <1>1 DEF WillRecord
<1>4. TypeInv' /\ NumberInv' /\ PlanInv' /\ JobInv'
  BY <1>2, <1>3, Framed
<1>5. ControlInv'
  BY <1>1 DEF ControlInv, At, SameOperation
<1>6. JournalInv'
  BY <1>1, <1>2 DEF IInv, JournalInv, JournalsAt, OneJournal, At, CommandOnly, files, journals
<1>7. PauseInv'
  BY <1>1, <1>2 DEF IInv, PauseInv, PausesAreUndone, Those, CommandOnly, files, journals
<1>8. CallsInv'
  BY <1>1 DEF CallsInv, At, Named, files, journals
<1>9. MomentInv'
  BY <1>1, <1>2 DEF IInv, MomentInv, BackupsAreOfOneMoment, At, Quiet, CommandOnly, SameOperation, files
<1> QED
  BY <1>4, <1>5, <1>6, <1>7, <1>8, <1>9 DEF IInv
-----------------------------------------------------------------------------
(* start, stop and restart.                                                *)

LEMMA GroupFacts ==
    /\ Gone(box) => ~Complete(box)
    /\ \A o : InAll(o, "exited") => ~Gone(o)
    /\ \A o : InAll(o, "running") => ~Gone(o) /\ ~InAll(o, "exited") /\ Complete(o)
BY HostAssumption DEF Gone, Complete, InAll, Status

LEMMA ObserveStep ==
    ASSUME IInv, Observe
    PROVE  IInv'
<1>1. /\ command.at = "observe" /\ command.within = "lifecycle" /\ Busy
      /\ UNCHANGED <<box, files, dashboard, frozen, used>>
  BY DEF Observe, At
<1>2. command \in Operation /\ used \in UsedType /\ box \in Boxes /\ backup = None /\ lifecycle = None
  BY <1>1, BusyFacts, TypeFacts DEF IInv, JournalInv, JournalsAt, At
<1>3. CASE Throw
  BY <1>1, <1>2, <1>3, Thrown
<1>4. CASE Goto("done")
  BY <1>1, <1>2, <1>4, GotoFields, Moved DEF CommandOnly, PlacesOf, JournalsAt, InBackup, Place, WillRecord
<1>5. CASE /\ Complete(box) \/ (Gone(box) /\ command.op = "start")
           /\ command' = [command EXCEPT !.seen = box,
                                         !.at = IF command.op = "stop" THEN "record" ELSE "recheck"]
  <2> DEFINE place == IF command.op = "stop" THEN "record" ELSE "recheck"
  <2>1. place \in {"record", "recheck"} /\ place \in Place
    BY DEF Place
  <2>2. command' = [command EXCEPT !.seen = box, !.at = place]
    BY <1>5
  <2> HIDE DEF place
  <2>3. /\ command' \in Operation /\ SameOperation /\ command'.at = place /\ command'.seen = box
        /\ command'.within = command.within
    BY <1>2, <2>1, <2>2 DEF Operation, SameOperation
  <2>4. command.op # "start" => ~Gone(box)
    BY <1>5, GroupFacts
  <2>5. CommandOnly
    BY <1>1, <1>2, <2>3 DEF CommandOnly
  <2> QED
    BY <1>1, <1>2, <2>1, <2>3, <2>4, <2>5, Moved DEF PlacesOf, JournalsAt, InBackup, WillRecord
<1> QED
  BY <1>3, <1>4, <1>5 DEF Observe

LEMMA RecheckStep ==
    ASSUME IInv, Recheck
    PROVE  IInv'
<1>1. /\ command.at = "recheck" /\ Busy /\ UNCHANGED <<box, files, dashboard, frozen, used>>
  BY DEF Recheck, At
<1>2. /\ command \in Operation /\ used \in UsedType /\ box \in Boxes
      /\ command.within = "lifecycle" /\ backup = None /\ lifecycle = None
      /\ command.seen \in Boxes /\ (command.op # "start" => ~Gone(command.seen))
  BY <1>1, BusyFacts, TypeFacts DEF IInv, JournalInv, JournalsAt, At, PlacesOf, Within, Recovering
<1>3. CASE Throw
  BY <1>1, <1>2, <1>3, Thrown
<1>4. CASE Goto("done")
  BY <1>1, <1>2, <1>4, GotoFields, Moved DEF CommandOnly, PlacesOf, JournalsAt, InBackup, Place
<1>5. CASE Unchanged /\ command' = [command EXCEPT !.seen = box, !.at = "record"]
  <2>1. /\ command' \in Operation /\ SameOperation /\ command'.at = "record" /\ command'.seen = box
        /\ command'.within = command.within
    BY <1>2, <1>5 DEF Operation, SameOperation, Place
  <2>2. command.op # "start" => ~Gone(box)
    BY <1>2, <1>5, GroupFacts DEF Unchanged
  <2>3. CommandOnly
    BY <1>1, <1>2, <2>1 DEF CommandOnly
  <2> QED
    BY <1>1, <1>2, <2>1, <2>2, <2>3, Moved DEF PlacesOf, JournalsAt, InBackup, WillRecord
<1> QED
  BY <1>3, <1>4, <1>5 DEF Recheck

LEMMA BoundFields ==
    ASSUME NEW o \in Boxes
    PROVE  /\ IdsOf(o) \in Ids /\ Bound(o) \in Ids \cup {None}
           /\ ~Gone(o) => Bound(o) # None
           /\ \A s : Those(o, s) \in SUBSET Container
BY NoneAssumption DEF IdsOf, Bound, Boxes, Ids, Those

(* The calls of an operation name what its journal names.                  *)
LEMMA CallsForFields ==
    ASSUME NEW operation \in {"start", "stop", "restart"}, NEW ids \in Ids \cup {None},
           operation # "start" => ids # None, NEW o
    PROVE  LET calls == CallsFor(operation, ids, o) IN
           /\ calls \in Seq(DockerCalls)
           /\ \A i \in 1 .. Len(calls) : \A k \in calls[i].on :
                 /\ k[1] \in Container
                 /\ calls[i].verb \in {"stop", "restart", "start", "unpause", "up"}
                 /\ IF calls[i].verb = "up" THEN ids = None ELSE ids # None /\ k[2] = ids[k[1]]
<1> DEFINE Good(calls) ==
        /\ calls \in Seq(DockerCalls)
        /\ \A i \in 1 .. Len(calls) : \A k \in calls[i].on :
              /\ k[1] \in Container
              /\ calls[i].verb \in {"stop", "restart", "start", "unpause", "up"}
              /\ IF calls[i].verb = "up" THEN ids = None ELSE ids # None /\ k[2] = ids[k[1]]
<1>1. ids # None => \A c \in Container : ids[c] \in Identity \cup {None}
  BY DEF Ids
<1>2. Those(o, "paused") \in SUBSET Container /\ Those(o, "exited") \in SUBSET Container
  BY DEF Those
<1>3. ASSUME ids # None, NEW verb \in {"stop", "restart", "start", "unpause"}, NEW among \in SUBSET Container
      PROVE  Good(Call(verb, ids, among))
  <2> DEFINE calls == Call(verb, ids, among)
  <2>1. /\ calls \in Seq(DockerCalls)
        /\ \A i \in 1 .. Len(calls) :
              /\ calls[i].verb = verb
              /\ \A k \in calls[i].on : k[1] \in Container /\ k[2] = ids[k[1]]
    <3>1. IsCall(calls, verb, ids, among)
      BY <1>1, <1>3, CallFields
    <3> HIDE DEF calls
    <3> QED
      BY <3>1 DEF IsCall
  <2> HIDE DEF calls
  <2>2. Good(calls)
    BY <1>3, <2>1
  <2> QED
    BY <2>2 DEF calls
<1>4. CASE operation \in {"stop", "restart"}
  <2>1. Good(Call(operation, ids, Container))
    BY <1>3, <1>4
  <2> HIDE DEF Good
  <2>2. Good(CallsFor(operation, ids, o))
    BY <1>4, <2>1 DEF CallsFor
  <2> QED
    BY <2>2 DEF Good
<1>5. CASE operation = "start" /\ ids # None
  <2> DEFINE a == Call("unpause", ids, Those(o, "paused"))
             b == Call("start", ids, Those(o, "exited"))
  <2>1. Good(a) /\ Good(b)
    BY <1>2, <1>3, <1>5
  <2>2. CallsFor(operation, ids, o) = a \o b
    BY <1>5 DEF CallsFor
  <2> HIDE DEF a, b
  <2>3. /\ a \o b \in Seq(DockerCalls) /\ Len(a \o b) = Len(a) + Len(b)
        /\ \A i \in 1 .. Len(a \o b) : \/ i \in 1 .. Len(a) /\ (a \o b)[i] = a[i]
                                       \/ i - Len(a) \in 1 .. Len(b) /\ (a \o b)[i] = b[i - Len(a)]
    BY <2>1
  <2>4. Good(a \o b)
    BY <2>1, <2>3
  <2> HIDE DEF Good
  <2>5. Good(CallsFor(operation, ids, o))
    BY <2>2, <2>4
  <2> QED
    BY <2>5 DEF Good
<1>6. CASE operation = "start" /\ ids = None
  <2> DEFINE none == [c \in Container |-> None]
             calls == Call("up", none, Container)
  <2>1. \A c \in Container : none[c] \in Identity \cup {None}
    OBVIOUS
  <2> HIDE DEF none
  <2>2. /\ calls \in Seq(DockerCalls)
        /\ \A i \in 1 .. Len(calls) :
              /\ calls[i].verb = "up"
              /\ \A k \in calls[i].on : k[1] \in Container
    <3>1. IsCall(calls, "up", none, Container)
      BY <2>1, CallFields
    <3> HIDE DEF calls
    <3> QED
      BY <3>1 DEF IsCall
  <2> HIDE DEF calls
  <2>3. Good(calls) /\ Good(<<>>)
    BY <1>6, <2>2
  <2>4. CallsFor(operation, ids, o) \in {calls, <<>>}
    BY <1>6 DEF CallsFor, calls, none
  <2> HIDE DEF Good
  <2>5. Good(CallsFor(operation, ids, o))
    BY <2>3, <2>4
  <2> QED
    BY <2>5 DEF Good
<1> QED
  BY <1>4, <1>5, <1>6

(* Before it asks anything, the operation writes its journal.              *)
LEMMA RecordStep ==
    ASSUME IInv, Record
    PROVE  IInv'
<1>1. /\ command.at = "record" /\ command.within = "lifecycle" /\ Busy
      /\ UNCHANGED <<box, backup, staging, published, dashboard, frozen, used>>
  BY DEF Record, At
<1>2. /\ command \in Operation /\ used \in UsedType /\ box \in Boxes
      /\ backup = None /\ lifecycle = None /\ command.op \in {"start", "stop", "restart"}
      /\ command.seen \in Boxes /\ (command.op # "start" => ~Gone(command.seen))
      /\ command.no = used.ops /\ command.no \in Op /\ WillRecord
  BY <1>1, BusyFacts, TypeFacts DEF IInv, JournalInv, JournalsAt, NumberInv, WillRecord, At, OpsOf
<1> DEFINE ids == Bound(command.seen)
           journal == [no |-> command.no, operation |-> command.op, ids |-> ids]
           calls == CallsFor(command.op, ids, command.seen)
<1>3. ids \in Ids \cup {None} /\ (command.op # "start" => ids # None)
  BY <1>2, BoundFields
<1>4. journal \in Lifecycle /\ journal # None
      /\ journal.no = command.no /\ journal.operation = command.op /\ journal.ids = ids
  BY <1>2, <1>3, NoneAssumption DEF Lifecycle
<1>5. lifecycle' = journal /\ Docker(calls, "verify")
  BY <1>2 DEF Record
<1>6. /\ calls \in Seq(DockerCalls)
      /\ \A i \in 1 .. Len(calls) : \A k \in calls[i].on :
            /\ calls[i].verb \in {"stop", "restart", "start", "unpause", "up"}
            /\ IF calls[i].verb = "up" THEN ids = None ELSE ids # None /\ k[2] = ids[k[1]]
  BY <1>2, <1>3, CallsForFields
<1> HIDE DEF ids, journal, calls
<1>7. /\ command' \in Operation /\ SameOperation /\ command'.within = "lifecycle"
      /\ command'.at = IF calls = <<>> THEN "verify" ELSE "docker"
      /\ command'.then = "verify" /\ command'.calls = calls
  BY <1>1, <1>2, <1>5, <1>6, DockerFields DEF Place
<1>8. Busy' /\ ~WillRecord'
  BY <1>7 DEF Busy, NoCommand, Operation, Kind, WillRecord
<1>9. TypeInv'
  BY <1>1, <1>4, <1>5, <1>7 DEF IInv, TypeInv, TypeOK, dashboard
<1>10. ControlInv'
  BY <1>2, <1>7 DEF ControlInv, At, PlacesOf, OpsOf, SameOperation
<1>11. JournalInv'
  BY <1>1, <1>2, <1>3, <1>4, <1>5, <1>7 DEF JournalInv, JournalsAt, InBackup, OneJournal, At
<1>12. \A n \in Op : Before(n) => Before(n)' /\ n # command.no
  BY <1>1, <1>2, <1>8 DEF Before, Op
<1>13. NumberInv'
  BY <1>1, <1>2, <1>4, <1>5, <1>8 DEF NumberInv, Before, Op
<1>14. PlanInv'
  BY <1>1, <1>2, <1>4, <1>5, <1>12, PlanFacts DEF IInv, PlanInv, dashboard
<1>15. job' = job /\ helper' = helper /\ job[command.no] \notin Over
  BY <1>1, <1>2 DEF IInv, JobInv, Over, Op, dashboard
<1>16. JobInv'
  BY <1>1, <1>2, <1>4, <1>5, <1>7, <1>15 DEF IInv, JobInv, ReportedOverIsOver, Over, SameOperation
<1>17. PauseInv'
  BY <1>1, <1>7 DEF IInv, PauseInv, PausesAreUndone, Those
<1>18. CallsInv'
  BY <1>4, <1>5, <1>6, <1>7 DEF CallsInv, Named, At
<1>19. MomentInv'
  BY <1>1, <1>7 DEF IInv, MomentInv, BackupsAreOfOneMoment
<1> QED
  BY <1>9, <1>10, <1>11, <1>13, <1>14, <1>16, <1>17, <1>18, <1>19 DEF IInv

LEMMA RecoverLifecycleStep ==
    ASSUME IInv, RecoverLifecycle
    PROVE  IInv'
<1>1. /\ command.at = "lifecycle" /\ Busy /\ UNCHANGED <<box, files, dashboard, frozen, used>>
  BY DEF RecoverLifecycle, At
<1>2. /\ command \in Operation /\ used \in UsedType /\ command.within = "recover" /\ backup = None
      /\ lifecycle \in Lifecycle \cup {None}
      /\ lifecycle # None /\ lifecycle.operation # "start" => lifecycle.ids # None
  BY <1>1, BusyFacts, TypeFacts DEF IInv, JournalInv, JournalsAt, At, PlacesOf, Within, Recovering
<1>3. CASE Throw
  BY <1>1, <1>2, <1>3, Thrown
<1>4. CASE lifecycle = None /\ Goto("done")
  BY <1>1, <1>2, <1>4, GotoFields, Moved DEF CommandOnly, PlacesOf, JournalsAt, InBackup, Place
<1>5. CASE lifecycle # None /\ Docker(CallsFor(lifecycle.operation, lifecycle.ids, box), "verify")
  <2> DEFINE ids == lifecycle.ids
             calls == CallsFor(lifecycle.operation, ids, box)
  <2>1. ids \in Ids \cup {None} /\ lifecycle.operation \in {"start", "stop", "restart"}
    BY <1>2, <1>5 DEF Lifecycle
  <2>2. /\ calls \in Seq(DockerCalls)
        /\ \A i \in 1 .. Len(calls) : \A k \in calls[i].on :
              /\ calls[i].verb \in {"stop", "restart", "start", "unpause", "up"}
              /\ IF calls[i].verb = "up" THEN ids = None ELSE ids # None /\ k[2] = ids[k[1]]
    BY <1>2, <1>5, <2>1, CallsForFields
  <2>3. Docker(calls, "verify")
    BY <1>5
  <2> HIDE DEF calls
  <2>4. CASE calls = <<>>
    <3>1. /\ command' \in Operation /\ SameOperation /\ command'.within = "recover" /\ command'.at = "verify"
      BY <1>2, <2>2, <2>3, <2>4, DockerFields DEF Place
    <3> QED
      BY <1>1, <1>2, <1>5, <3>1, Moved DEF CommandOnly, PlacesOf, JournalsAt, InBackup
  <2>5. CASE calls # <<>>
    <3>1. "verify" \in PlacesOf(command.within) /\ "docker" \in PlacesOf(command.within) /\ JournalsAt("verify")
      BY <1>2, <1>5 DEF PlacesOf, JournalsAt, InBackup
    <3>2. \A i \in 1 .. Len(calls) : \A k \in calls[i].on : Named("verify", calls[i].verb, k[1], k[2])
      BY <2>2 DEF Named
    <3> QED
      BY <1>1, <2>2, <2>3, <2>5, <3>1, <3>2, Asked
  <2> QED
    BY <2>4, <2>5
<1> QED
  BY <1>3, <1>4, <1>5 DEF RecoverLifecycle

LEMMA VerifyStep ==
    ASSUME IInv, Verify
    PROVE  IInv'
<1>1. /\ command.at = "verify" /\ Busy /\ UNCHANGED <<box, files, dashboard, frozen, used>>
  BY DEF Verify, At
<1>2. /\ command \in Operation /\ used \in UsedType /\ command.within \in {"lifecycle", "recover"}
      /\ backup = None /\ lifecycle # None
  BY <1>1, BusyFacts, TypeFacts DEF IInv, JournalInv, JournalsAt, At, PlacesOf, Within, Recovering
<1>3. CASE Throw
  BY <1>1, <1>2, <1>3, Thrown
<1>4. CASE Goto("clear")
  BY <1>1, <1>2, <1>4, GotoFields, Moved DEF CommandOnly, PlacesOf, JournalsAt, InBackup, Place
<1> QED
  BY <1>3, <1>4 DEF Verify

(* Journals that go leave everything as it was.                            *)
LEMMA ClearStep ==
    ASSUME IInv, ClearLifecycle
    PROVE  IInv'
<1>1. /\ command.at = "clear" /\ Busy /\ lifecycle' = None /\ Goto("done")
      /\ UNCHANGED <<box, backup, staging, published, dashboard, frozen, used>>
  BY DEF ClearLifecycle, At
<1>2. /\ command \in Operation /\ used \in UsedType /\ command.within \in {"lifecycle", "recover"}
      /\ command.op \in OpsOf(command.within) /\ backup = None
  BY <1>1, BusyFacts, TypeFacts DEF IInv, JournalInv, JournalsAt, At, PlacesOf, Within, Recovering
<1>3. /\ command' \in Operation /\ SameOperation /\ command'.at = "done" /\ command'.within = command.within
  BY <1>1, <1>2, GotoFields DEF Place
<1>4. Busy' /\ ~WillRecord'
  BY <1>2, <1>3 DEF Busy, NoCommand, Operation, Kind, WillRecord
<1>5. TypeInv'
  BY <1>1, <1>3 DEF IInv, TypeInv, TypeOK, dashboard
<1>6. ControlInv'
  BY <1>2, <1>3 DEF ControlInv, At, PlacesOf, OpsOf, SameOperation
<1>7. JournalInv'
  BY <1>1, <1>2, <1>3 DEF JournalInv, JournalsAt, InBackup, OneJournal, At
<1>8. \A n : Before(n) => Before(n)'
  BY <1>1, <1>4 DEF Before
<1>9. NumberInv'
  BY <1>1, <1>2, <1>4 DEF NumberInv
<1>10. PlanInv'
  BY <1>1, <1>8 DEF IInv, PlanInv, dashboard
<1>11. JobInv'
  BY <1>1, <1>2, <1>3 DEF IInv, JobInv, ReportedOverIsOver, SameOperation, dashboard, Busy, NoCommand, Operation, Kind
<1>12. PauseInv'
  BY <1>1, <1>3 DEF IInv, PauseInv, PausesAreUndone, Those
<1>13. CallsInv'
  BY <1>3 DEF CallsInv, At
<1>14. MomentInv'
  BY <1>1, <1>2, <1>3 DEF IInv, MomentInv, BackupsAreOfOneMoment
<1> QED
  BY <1>5, <1>6, <1>7, <1>9, <1>10, <1>11, <1>12, <1>13, <1>14 DEF IInv
-----------------------------------------------------------------------------
(* The recovery of a backup.                                               *)

AfterBackup(within) ==
    CASE within = "begin" -> "observe"
      [] within = "recover" -> "lifecycle"
      [] within = "catch" -> "failed"
      [] OTHER -> "done"

LEMMA ReturnFields ==
    ASSUME command \in Operation, Return
    PROVE  /\ command' \in Operation /\ SameOperation
           /\ command'.within = command.within /\ command'.at = AfterBackup(command.within)
<1> DEFINE place == AfterBackup(command.within)
<1>1. command.within \in Within
  BY DEF Operation
<1>2. place \in Place
  BY <1>1 DEF AfterBackup, Within, Place
<1>3. Goto(place)
  BY DEF Return, AfterBackup
<1> HIDE DEF place
<1>4. /\ command' \in Operation /\ SameOperation
      /\ command'.within = command.within /\ command'.at = place
  BY <1>2, <1>3, GotoFields
<1> QED
  BY <1>4 DEF place

\* A command at one of the places of a recovery, and its journal.
LEMMA RecoveringFacts ==
    ASSUME IInv, Busy, command.at \in Recovering
    PROVE  /\ command \in Operation /\ used \in UsedType /\ box \in Boxes
           /\ command.within \in {"begin", "create", "catch", "recover"}
           /\ command.within = "create" => command.at \notin {"pending", "clean"}
           /\ command.op \in OpsOf(command.within)
           /\ command.at # "pending" => backup # None /\ backup \in Backup /\ lifecycle = None
           /\ command.at \in {"resume", "check"} => backup.ids # None /\ backup.ids \in Ids
           /\ command.within # "recover" => lifecycle = None
<1>1. /\ command \in Operation /\ used \in UsedType /\ box \in Boxes
      /\ command.at \in PlacesOf(command.within) /\ command.within \in Within
      /\ command.op \in OpsOf(command.within)
  BY BusyFacts, TypeFacts
<1>2. /\ command.within \in {"begin", "create", "catch", "recover"}
      /\ command.within = "create" => command.at \notin {"pending", "clean"}
  BY <1>1 DEF PlacesOf, Within, Recovering
<1>3. /\ command.at # "pending" => backup # None /\ lifecycle = None
      /\ command.at \in {"resume", "check"} => backup.ids # None
      /\ command.within # "recover" => lifecycle = None
  BY <1>2 DEF IInv, JournalInv, JournalsAt, InBackup, OneJournal, Recovering, At
<1>4. backup # None => backup \in Backup /\ (backup.ids # None => backup.ids \in Ids)
  BY TypeFacts DEF Backup
<1> QED
  BY <1>1, <1>2, <1>3, <1>4

LEMMA PendingStep ==
    ASSUME IInv, PendingBackup
    PROVE  IInv'
<1>1. /\ command.at = "pending" /\ Busy /\ UNCHANGED <<box, files, dashboard, frozen, used>>
  BY DEF PendingBackup, At
<1>2. /\ command \in Operation /\ used \in UsedType /\ command.within \in {"begin", "catch", "recover"}
      /\ command.within # "recover" => lifecycle = None
  BY <1>1, RecoveringFacts DEF Recovering
<1>3. CASE backup = None /\ Return
  <2>1. /\ command' \in Operation /\ SameOperation
        /\ command'.within = command.within /\ command'.at = AfterBackup(command.within)
    BY <1>2, <1>3, ReturnFields
  <2>2. /\ command'.at \in PlacesOf(command.within)
        /\ command'.at \in {"observe", "lifecycle", "failed"}
        /\ command'.at = "observe" => command.within = "begin"
    BY <1>2, <2>1 DEF AfterBackup, PlacesOf
  <2>3. CommandOnly
    BY <1>1, <1>2, <2>1 DEF CommandOnly
  <2>4. JournalsAt(command'.at)
    BY <1>2, <1>3, <2>2 DEF JournalsAt, InBackup
  <2> QED
    BY <1>1, <1>2, <2>1, <2>2, <2>3, <2>4, Moved DEF WillRecord
<1>4. CASE backup # None /\ Goto(IF backup.ids = None THEN "clean" ELSE "resume")
  <2> DEFINE place == IF backup.ids = None THEN "clean" ELSE "resume"
  <2>1. place \in Place /\ Goto(place)
    BY <1>4 DEF Place
  <2>2. /\ place \in {"clean", "resume"} /\ JournalsAt(place) /\ place \in PlacesOf(command.within)
        /\ place = "clean" => frozen = {}
    BY <1>2, <1>4 DEF JournalsAt, InBackup, PlacesOf, Recovering, IInv, PauseInv, PausesAreUndone
  <2> HIDE DEF place
  <2>3. /\ command' \in Operation /\ SameOperation
        /\ command'.within = command.within /\ command'.at = place
    BY <1>2, <2>1, GotoFields
  <2>4. CommandOnly
    BY <1>1, <1>2, <2>3 DEF CommandOnly
  <2> QED
    BY <1>1, <1>2, <2>2, <2>3, <2>4, Moved
<1> QED
  BY <1>3, <1>4 DEF PendingBackup

(* No container is paused any more.                                        *)
LEMMA ResumedStep ==
    ASSUME IInv, Busy, command.at \in {"resume", "check"}, frozen = {}, Resumed,
           UNCHANGED <<box, files, dashboard, frozen, used>>
    PROVE  IInv'
<1>1. /\ command \in Operation /\ used \in UsedType
      /\ command.within \in {"begin", "create", "catch", "recover"} /\ backup # None /\ lifecycle = None
  BY RecoveringFacts DEF Recovering
<1> DEFINE place == IF command.within = "create" THEN "resumed" ELSE "clean"
<1>2. place \in Place /\ Goto(place)
  BY DEF Resumed, Place
<1>3. place \in {"clean", "resumed"} /\ JournalsAt(place) /\ place \in PlacesOf(command.within)
  BY <1>1 DEF JournalsAt, InBackup, PlacesOf, Recovering
<1> HIDE DEF place
<1>4. /\ command' \in Operation /\ SameOperation
      /\ command'.within = command.within /\ command'.at = place
  BY <1>1, <1>2, GotoFields
<1>5. CommandOnly
  BY <1>1, <1>4 DEF CommandOnly
<1> QED
  BY <1>1, <1>3, <1>4, <1>5, Moved

LEMMA ResumeStep ==
    ASSUME IInv, Resume
    PROVE  IInv'
<1>1. /\ command.at = "resume" /\ Busy /\ UNCHANGED <<box, files, dashboard, frozen, used>>
  BY DEF Resume, At
<1>2. /\ command \in Operation /\ used \in UsedType /\ backup # None /\ lifecycle = None
      /\ command.within \in {"begin", "create", "catch", "recover"}
      /\ backup.ids # None /\ backup.ids \in Ids
  BY <1>1, RecoveringFacts DEF Recovering
<1> DEFINE paused == Those(box, "paused")
           calls == Call("unpause", backup.ids, paused)
<1>3. CASE Throw
  BY <1>1, <1>2, <1>3, Thrown
<1>4. CASE paused = {} /\ Resumed
  <2>1. frozen = {}
    BY <1>4 DEF IInv, PauseInv
  <2> QED
    BY <1>1, <1>4, <2>1, ResumedStep
<1>5. CASE paused # {} /\ Docker(calls, "check")
  <2>1. IsCall(calls, "unpause", backup.ids, paused)
    BY <1>2, CallFields DEF Those, Ids
  <2>2. Docker(calls, "check") /\ paused # {}
    BY <1>5
  <2> HIDE DEF calls, paused
  <2>3. /\ calls \in Seq(DockerCalls) /\ calls # <<>> /\ Len(calls) = 1
        /\ \A i \in 1 .. Len(calls) : \A k \in calls[i].on : Named("check", calls[i].verb, k[1], k[2])
    BY <2>1, <2>2 DEF IsCall, Named
  <2>4. "check" \in PlacesOf(command.within) /\ "docker" \in PlacesOf(command.within) /\ JournalsAt("check")
    BY <1>2 DEF PlacesOf, Recovering, JournalsAt, InBackup
  <2> QED
    BY <1>1, <2>2, <2>3, <2>4, Asked
<1> QED
  BY <1>3, <1>4, <1>5 DEF Resume

LEMMA CheckStep ==
    ASSUME IInv, Check
    PROVE  IInv'
<1>1. /\ command.at = "check" /\ Busy /\ UNCHANGED <<box, files, dashboard, frozen, used>>
  BY DEF Check, At
<1>2. used \in UsedType
  BY TypeFacts
<1>3. CASE Throw
  BY <1>1, <1>2, <1>3, Thrown
<1>4. CASE Coherent(box) /\ Resumed
  <2>1. frozen = {}
    BY <1>4 DEF IInv, PauseInv, Coherent, InAll, Those
  <2> QED
    BY <1>1, <1>4, <2>1, ResumedStep
<1> QED
  BY <1>3, <1>4 DEF Check

LEMMA CleanStep ==
    ASSUME IInv, Clean
    PROVE  IInv'
<1>1. /\ command.at = "clean" /\ Busy /\ UNCHANGED <<box, journals, published, dashboard, frozen, used>>
  BY DEF Clean, At
<1>2. /\ command \in Operation /\ used \in UsedType /\ command.within \in {"begin", "catch", "recover"}
      /\ command.op \in OpsOf(command.within) /\ backup # None /\ lifecycle = None /\ frozen = {}
  BY <1>1, RecoveringFacts DEF Recovering, IInv, PauseInv
<1>3. CASE Throw /\ UNCHANGED staging
  BY <1>1, <1>2, <1>3, Thrown DEF files
<1>4. CASE staging' = None /\ Goto("unjournal")
  <2>1. /\ command' \in Operation /\ SameOperation
        /\ command'.within = command.within /\ command'.at = "unjournal"
    BY <1>2, <1>4, GotoFields DEF Place
  <2>2. Busy' /\ (WillRecord' => WillRecord)
    BY <1>1, <2>1 DEF Busy, NoCommand, Operation, Kind, WillRecord
  <2>3. TypeInv'
    BY <1>1, <1>4, <2>1 DEF IInv, TypeInv, TypeOK, journals, dashboard
  <2>4. ControlInv'
    BY <1>2, <2>1 DEF ControlInv, At, PlacesOf, Recovering, OpsOf, SameOperation
  <2>5. JournalInv'
    BY <1>1, <1>2, <2>1 DEF JournalInv, JournalsAt, OneJournal, At, journals
  <2>6. \A n : Before(n) => Before(n)'
    BY <1>1, <2>1, <2>2 DEF Before, SameOperation
  <2>7. NumberInv' /\ PlanInv'
    BY <1>1, <2>1, <2>2, <2>6 DEF IInv, NumberInv, PlanInv, SameOperation, journals, dashboard
  <2>8. JobInv'
    BY <1>1, <2>1 DEF IInv, JobInv, ReportedOverIsOver, SameOperation, journals, dashboard
  <2>9. PauseInv' /\ CallsInv'
    BY <1>1, <1>2, <2>1 DEF IInv, PauseInv, PausesAreUndone, Those, CallsInv, At, journals
  <2>10. MomentInv'
    BY <1>1, <1>2, <2>1 DEF IInv, MomentInv, BackupsAreOfOneMoment, At, SameOperation
  <2> QED
    BY <2>3, <2>4, <2>5, <2>7, <2>8, <2>9, <2>10 DEF IInv
<1> QED
  BY <1>3, <1>4 DEF Clean

(* The journal of the backup goes when nothing is paused any more.         *)
LEMMA UnjournalStep ==
    ASSUME IInv, Unjournal
    PROVE  IInv'
<1>1. /\ command.at = "unjournal" /\ Busy /\ backup' = None /\ Return
      /\ UNCHANGED <<box, lifecycle, staging, published, dashboard, frozen, used>>
  BY DEF Unjournal, At
<1>2. /\ command \in Operation /\ used \in UsedType
      /\ command.within \in {"begin", "create", "catch", "recover"}
      /\ command.op \in OpsOf(command.within) /\ lifecycle = None /\ frozen = {}
  BY <1>1, RecoveringFacts DEF Recovering, IInv, PauseInv
<1>3. /\ command' \in Operation /\ SameOperation
      /\ command'.within = command.within /\ command'.at = AfterBackup(command.within)
  BY <1>1, <1>2, ReturnFields
<1>4. /\ command'.at \in {"observe", "lifecycle", "failed", "done"}
      /\ command'.at = "observe" => command.within = "begin"
      /\ command'.at = "done" => command.within = "create"
      /\ command.within = "create" => command'.at = "done"
      /\ command'.at \in PlacesOf(command.within)
  BY <1>2, <1>3 DEF AfterBackup, PlacesOf
<1>5. Busy' /\ (WillRecord' => WillRecord)
  BY <1>1, <1>3, <1>4 DEF Busy, NoCommand, Operation, Kind, WillRecord
<1>6. TypeInv'
  BY <1>1, <1>3 DEF IInv, TypeInv, TypeOK, dashboard
<1>7. ControlInv'
  BY <1>2, <1>3, <1>4 DEF ControlInv, At, SameOperation
<1>8. JournalInv'
  BY <1>1, <1>2, <1>3, <1>4 DEF JournalInv, JournalsAt, InBackup, OneJournal, At
<1>9. \A n : Before(n) => Before(n)'
  BY <1>1, <1>3, <1>5 DEF Before, SameOperation
<1>10. NumberInv' /\ PlanInv'
  BY <1>1, <1>3, <1>5, <1>9 DEF IInv, NumberInv, PlanInv, SameOperation, dashboard
<1>11. JobInv'
  BY <1>1, <1>3 DEF IInv, JobInv, ReportedOverIsOver, SameOperation, dashboard
<1>12. PauseInv' /\ CallsInv'
  BY <1>1, <1>2, <1>3, <1>4 DEF PauseInv, PausesAreUndone, Those, CallsInv, At
<1>13. MomentInv'
  BY <1>1, <1>2, <1>3, <1>4 DEF IInv, MomentInv, BackupsAreOfOneMoment, At, SameOperation
<1> QED
  BY <1>6, <1>7, <1>8, <1>10, <1>11, <1>12, <1>13 DEF IInv
-----------------------------------------------------------------------------
(* The backup itself.                                                      *)

(* What is seen before the journal is written is what is captured.         *)
LEMMA ObserveHomeStep ==
    ASSUME IInv, ObserveHome
    PROVE  IInv'
<1>1. /\ command.at = "observe" /\ command.within = "begin" /\ Busy
      /\ UNCHANGED <<box, files, dashboard, frozen, used>>
  BY DEF ObserveHome, At
<1>2. /\ command \in Operation /\ used \in UsedType /\ box \in Boxes /\ backup = None /\ lifecycle = None
      /\ command.op \in OpsOf(command.within)
  BY <1>1, BusyFacts, TypeFacts DEF IInv, JournalInv, JournalsAt, At
<1>3. CASE Throw
  BY <1>1, <1>2, <1>3, Thrown
<1>4. CASE /\ Capturable
           /\ command' = [command EXCEPT !.seen = box, !.since = used.outside, !.at = "record"]
  <2>1. /\ command' \in Operation /\ command'.at = "record" /\ command'.seen = box
        /\ command'.since = used.outside /\ command'.within = command.within
        /\ command'.op = command.op /\ command'.no = command.no /\ command'.dashboard = command.dashboard
    BY <1>2, <1>4 DEF Operation, Place, UsedType
  <2>2. Busy' /\ (WillRecord' => WillRecord)
    BY <1>1, <2>1 DEF Busy, NoCommand, Operation, Kind, WillRecord
  <2>3. TypeInv'
    BY <1>1, <2>1 DEF IInv, TypeInv, TypeOK, files, journals, dashboard
  <2>4. ControlInv'
    BY <1>1, <1>2, <2>1 DEF ControlInv, At, PlacesOf, Recovering, OpsOf
  <2>5. JournalInv'
    BY <1>1, <1>2, <2>1 DEF JournalInv, JournalsAt, InBackup, OneJournal, At, files, journals
  <2>6. \A n : Before(n) => Before(n)'
    BY <1>1, <2>1, <2>2 DEF Before
  <2>7. NumberInv' /\ PlanInv'
    BY <1>1, <2>1, <2>2, <2>6 DEF IInv, NumberInv, PlanInv, files, journals, dashboard
  <2>8. JobInv'
    BY <1>1, <2>1 DEF IInv, JobInv, ReportedOverIsOver, files, journals, dashboard
  <2>9. PauseInv' /\ CallsInv'
    BY <1>1, <2>1 DEF IInv, PauseInv, PausesAreUndone, Those, CallsInv, At, files, journals
  <2>10. Capturable'
    BY <1>1, <1>4, <2>1 DEF Capturable, Gone, Complete, InAll
  <2>11. used.outside \in Int /\ BackupsAreOfOneMoment'
    BY <1>1, <1>2 DEF UsedType, IInv, MomentInv, BackupsAreOfOneMoment, files
  <2>12. MomentInv'
    BY <1>1, <2>1, <2>10, <2>11 DEF MomentInv, At, Quiet
  <2> QED
    BY <2>3, <2>4, <2>5, <2>7, <2>8, <2>9, <2>12 DEF IInv
<1> QED
  BY <1>3, <1>4 DEF ObserveHome

LEMMA RecordBackupStep ==
    ASSUME IInv, RecordBackup
    PROVE  IInv'
<1>1. /\ command.at = "record" /\ command.within = "begin" /\ Busy
      /\ UNCHANGED <<box, lifecycle, staging, published, dashboard, frozen, used>>
  BY DEF RecordBackup, At
<1>2. /\ command \in Operation /\ used \in UsedType /\ box \in Boxes
      /\ backup = None /\ lifecycle = None /\ command.op \in Capturing
      /\ command.no = used.ops /\ command.no \in Op /\ WillRecord
  BY <1>1, BusyFacts, TypeFacts DEF IInv, JournalInv, JournalsAt, NumberInv, WillRecord, At, OpsOf
<1>3. Quiet => command.seen = box /\ Capturable
  BY <1>1 DEF IInv, MomentInv, At
<1> DEFINE ids == PauseTargets
           journal == [no |-> command.no, phase |-> "prepared", ids |-> ids]
<1>4. /\ ids \in Ids \cup {None}
      /\ ids = None /\ Quiet => Still
  <2>1. command.seen \in Boxes
    BY <1>1 DEF IInv, JournalInv, At
  <2>2. ids = None /\ Quiet => Capturable /\ (command.op = "quiesced" => ~InAll(box, "running"))
    BY <1>3, <2>1, BoundFields, NoneAssumption DEF PauseTargets
  <2>3. Capturable /\ (command.op = "quiesced" => ~InAll(box, "running")) => Still
    BY <1>2 DEF Capturing, Capturable, Still, Those, Gone, Complete, InAll, Status
  <2> QED
    BY <2>1, <2>2, <2>3, BoundFields DEF PauseTargets
<1>5. journal \in Backup /\ journal # None /\ journal.no = command.no /\ journal.ids = ids
  BY <1>2, <1>4, NoneAssumption DEF Backup
<1>6. backup' = journal
  BY DEF RecordBackup
<1>7. /\ command' \in Operation /\ SameOperation
      /\ command'.within = "create" /\ command'.at = "stage"
  BY <1>2 DEF RecordBackup, Operation, SameOperation, Place, Within
<1> HIDE DEF ids, journal
<1>8. Busy' /\ ~WillRecord'
  BY <1>7 DEF Busy, NoCommand, Operation, Kind, WillRecord
<1>9. TypeInv'
  BY <1>1, <1>5, <1>6, <1>7 DEF IInv, TypeInv, TypeOK, dashboard
<1>10. ControlInv'
  BY <1>2, <1>7 DEF ControlInv, At, PlacesOf, OpsOf, SameOperation
<1>11. JournalInv'
  BY <1>1, <1>2, <1>5, <1>6, <1>7 DEF JournalInv, JournalsAt, OneJournal, At
<1>12. \A n \in Op : Before(n) => Before(n)' /\ n # command.no
  BY <1>1, <1>2, <1>8 DEF Before, Op
<1>13. NumberInv'
  BY <1>1, <1>2, <1>5, <1>6, <1>8 DEF NumberInv, Before, Op
<1>14. PlanInv'
  BY <1>1, <1>2, <1>5, <1>6, <1>12, PlanFacts DEF IInv, PlanInv, dashboard
<1>15. job' = job /\ helper' = helper /\ job[command.no] \notin Over
  BY <1>1, <1>2 DEF IInv, JobInv, Over, Op, dashboard
<1>16. JobInv'
  BY <1>1, <1>2, <1>5, <1>6, <1>7, <1>15 DEF IInv, JobInv, ReportedOverIsOver, Over, SameOperation
<1>17. PauseInv' /\ CallsInv'
  BY <1>1, <1>2, <1>7 DEF IInv, PauseInv, PausesAreUndone, Those, CallsInv, At
<1>18. MomentInv'
  <2>1. /\ BackupsAreOfOneMoment' /\ (Still' <=> Still) /\ (Quiet' <=> Quiet)
        /\ command'.since = command.since /\ used'.outside = used.outside
        /\ command.since <= used.outside
    BY <1>1, <1>7 DEF IInv, MomentInv, BackupsAreOfOneMoment, Still, Those, Quiet, SameOperation
  <2> QED
    BY <1>4, <1>5, <1>6, <1>7, <2>1 DEF MomentInv, At
<1> QED
  BY <1>9, <1>10, <1>11, <1>13, <1>14, <1>16, <1>17, <1>18 DEF IInv

Capture == {"stage", "paused", "capture", "captured", "resumed", "publish"}

LEMMA CaptureFacts ==
    ASSUME IInv, Busy, command.at \in Capture
    PROVE  /\ command \in Operation /\ used \in UsedType /\ command.within = "create"
           /\ command.op \in OpsOf("create") /\ backup # None /\ backup \in Backup /\ lifecycle = None
           /\ backup.ids \in Ids \cup {None} /\ backup.no \in Op
           /\ command.since <= used.outside
           /\ command.at # "stage" =>
                  staging # None /\ staging \in Staging /\ (staging.torn => ~Quiet)
<1>1. /\ command \in Operation /\ used \in UsedType
      /\ command.at \in PlacesOf(command.within) /\ command.within \in Within
      /\ command.op \in OpsOf(command.within) /\ backup \in Backup \cup {None}
      /\ staging \in Staging \cup {None}
  BY BusyFacts, TypeFacts
<1>2. command.within = "create"
  BY <1>1 DEF PlacesOf, Within, Recovering, Capture
<1>3. backup # None /\ lifecycle = None
  BY <1>2 DEF IInv, JournalInv, JournalsAt, InBackup, Capture, At
<1>4. backup \in Backup /\ backup.ids \in Ids \cup {None} /\ backup.no \in Op
  BY <1>1, <1>3 DEF Backup
<1>5. /\ command.since <= used.outside
      /\ command.at # "stage" => staging # None /\ (staging.torn => ~Quiet)
  BY <1>2 DEF IInv, MomentInv, Capture
<1> QED
  BY <1>1, <1>2, <1>3, <1>4, <1>5

(* A step of the backup from which it goes on, or asks Docker to pause.    *)
LEMMA Backed ==
    ASSUME IInv, Busy, command.at \in Capture,
           UNCHANGED <<box, lifecycle, published, dashboard, frozen, used>>,
           command' \in Operation, SameOperation, command'.within = "create",
           command'.at \in PlacesOf("create") \ {"done", "stage", "check"},
           command'.at = "docker" =>
               /\ command'.then = "paused" /\ command'.calls # <<>> /\ Len(command'.calls) = 1
               /\ backup.ids # None,
           staging' \in Staging \cup {None}, backup' \in Backup, backup' # None,
           backup'.no = backup.no, backup'.ids = backup.ids,
           command'.at \in {"resume", "paused"} => backup.ids # None,
           command'.at \in {"unjournal", "resumed", "publish"} => frozen = {},
           CallsInv', MomentInv'
    PROVE  IInv'
<1>1. /\ command \in Operation /\ command.within = "create" /\ command.op \in OpsOf("create")
      /\ lifecycle = None /\ backup # None
  BY CaptureFacts
<1>2. Busy' /\ ~WillRecord'
  <2>1. command'.at \notin {"observe", "recheck", "record"}
    BY DEF PlacesOf
  <2> QED
    BY <2>1 DEF Busy, NoCommand, Operation, Kind, WillRecord
<1>3. TypeInv'
  BY DEF IInv, TypeInv, TypeOK, dashboard
<1>4. ControlInv'
  BY <1>1 DEF ControlInv, At, SameOperation, PlacesOf
<1>5. JournalInv'
  <2>1. JournalsAt(IF At("docker") THEN command.then ELSE command.at)'
    BY <1>1, <1>2 DEF JournalsAt, InBackup, PlacesOf, At
  <2>2. ~At("recheck")' /\ ~At("record")'
    BY DEF PlacesOf, At
  <2> QED
    BY <1>1, <2>1, <2>2 DEF JournalInv, OneJournal
<1>6. \A n : Before(n) => Before(n)'
  BY <1>2 DEF Before
<1>7. NumberInv'
  BY <1>1, <1>2, <1>6 DEF IInv, NumberInv
<1>8. PlanInv'
  BY <1>1, <1>6 DEF IInv, PlanInv, dashboard
<1>9. JobInv'
  BY <1>1 DEF IInv, JobInv, ReportedOverIsOver, SameOperation, dashboard
<1>10. PauseInv'
  BY <1>1 DEF IInv, PauseInv, PausesAreUndone, Those, PlacesOf
<1> QED
  BY <1>3, <1>4, <1>5, <1>7, <1>8, <1>9, <1>10 DEF IInv

LEMMA StageStep ==
    ASSUME IInv, Stage
    PROVE  IInv'
<1>1. /\ command.at = "stage" /\ Busy /\ UNCHANGED <<box, journals, published, dashboard, frozen, used>>
      /\ staging' = [no |-> backup.no, torn |-> FALSE]
  BY DEF Stage, At
<1>2. /\ command \in Operation /\ used \in UsedType /\ command.within = "create"
      /\ backup # None /\ backup \in Backup /\ backup.ids \in Ids \cup {None} /\ backup.no \in Op
      /\ command.since <= used.outside
  BY <1>1, CaptureFacts DEF Capture
<1>3. staging' \in Staging /\ staging' # None /\ ~staging'.torn
  <2>1. staging' \in Staging /\ ~staging'.torn
    BY <1>1, <1>2 DEF Staging
  <2> QED
    BY <2>1, NoneAssumption
<1>4. /\ BackupsAreOfOneMoment' /\ (Still' <=> Still) /\ backup' = backup /\ lifecycle' = lifecycle
  BY <1>1 DEF IInv, MomentInv, BackupsAreOfOneMoment, Still, Those, journals
<1>5. CASE backup.ids = None /\ Goto("capture")
  <2>1. /\ command' \in Operation /\ SameOperation /\ command'.at = "capture"
        /\ command'.within = "create"
    BY <1>2, <1>5, GotoFields DEF Place
  <2>2. (Quiet' <=> Quiet) /\ (Quiet => Still) /\ command'.since <= used'.outside
    BY <1>1, <1>2, <1>5, <2>1 DEF IInv, MomentInv, Quiet, At, SameOperation
  <2>3. MomentInv'
    BY <1>3, <1>4, <2>1, <2>2 DEF MomentInv, At
  <2>4. CallsInv'
    BY <2>1 DEF CallsInv, At
  <2>5. "capture" \in PlacesOf("create") \ {"done", "stage", "check"}
    BY DEF PlacesOf
  <2> QED
    BY <1>1, <1>2, <1>3, <1>4, <2>1, <2>3, <2>4, <2>5, Backed DEF Capture
<1>6. CASE backup.ids # None /\ Docker(Call("pause", backup.ids, Container), "paused")
  <2> DEFINE calls == Call("pause", backup.ids, Container)
  <2>1. IsCall(calls, "pause", backup.ids, Container)
    BY <1>2, <1>6, CallFields DEF Ids
  <2>2. Docker(calls, "paused")
    BY <1>6
  <2> HIDE DEF calls
  <2>3. /\ calls \in Seq(DockerCalls) /\ calls # <<>> /\ Len(calls) = 1
        /\ calls[1].on = {<<c, backup.ids[c]>> : c \in Container}
        /\ \A i \in 1 .. Len(calls) : \A k \in calls[i].on : Named("paused", calls[i].verb, k[1], k[2])
    BY <2>1, HostAssumption DEF IsCall, Named
  <2>4. /\ command' \in Operation /\ SameOperation /\ command'.at = "docker"
        /\ command'.within = "create" /\ command'.then = "paused" /\ command'.calls = calls
    BY <1>2, <2>2, <2>3, DockerFields DEF Place
  <2>5. command'.since <= used'.outside
    BY <1>1, <1>2, <2>4 DEF SameOperation
  <2>6. MomentInv'
    BY <1>3, <1>4, <2>3, <2>4, <2>5 DEF MomentInv, At, Those
  <2>7. CallsInv'
    BY <1>4, <2>3, <2>4 DEF CallsInv, At, Named
  <2>8. "docker" \in PlacesOf("create") \ {"done", "stage", "check"}
    BY DEF PlacesOf
  <2> QED
    BY <1>1, <1>2, <1>3, <1>4, <1>6, <2>3, <2>4, <2>6, <2>7, <2>8, Backed DEF Capture
<1> QED
  BY <1>5, <1>6 DEF Stage

LEMMA AdvanceStep ==
    ASSUME IInv, Advance
    PROVE  IInv'
<1>1. /\ command.at \in {"paused", "capture", "captured", "resumed"} /\ Busy
      /\ UNCHANGED <<box, lifecycle, staging, published, dashboard, frozen, used>>
  BY DEF Advance, At
<1>2. /\ command \in Operation /\ used \in UsedType /\ command.within = "create"
      /\ backup # None /\ backup \in Backup /\ backup.ids \in Ids \cup {None}
      /\ staging # None /\ staging \in Staging /\ (staging.torn => ~Quiet)
      /\ command.since <= used.outside
  BY <1>1, CaptureFacts DEF Capture
<1>3. PICK place \in {"capture", "captured", "resumed", "resume", "publish"} :
          /\ Goto(place)
          /\ place = "capture" => command.at = "paused"
          /\ place = "resume" => backup.ids # None
          /\ place = "resumed" => backup.ids = None
          /\ place = "publish" => command.at = "resumed"
  BY DEF Advance, At
<1>4. \/ backup' = backup
      \/ \E phase \in {"paused", "archive-ready", "resumed"} : backup' = [backup EXCEPT !.phase = phase]
  BY DEF Advance, Phase
<1>5. backup' \in Backup /\ backup'.no = backup.no /\ backup'.ids = backup.ids
  BY <1>2, <1>4 DEF Backup
<1>6. backup' # None
  BY <1>5, NoneAssumption
<1>7. /\ command' \in Operation /\ SameOperation /\ command'.at = place /\ command'.within = "create"
  BY <1>2, <1>3, GotoFields DEF Place
<1>8. place \in {"resumed", "publish"} => frozen = {}
  BY <1>1, <1>3 DEF IInv, PauseInv, PausesAreUndone
<1>9. /\ BackupsAreOfOneMoment' /\ (Still' <=> Still) /\ (Quiet' <=> Quiet)
      /\ command'.since <= used'.outside
      /\ place = "capture" /\ Quiet => Still
  BY <1>1, <1>2, <1>3, <1>7 DEF IInv, MomentInv, BackupsAreOfOneMoment, Still, Those, Quiet, SameOperation
<1>10. MomentInv'
  BY <1>1, <1>2, <1>7, <1>9 DEF MomentInv, At
<1>11. CallsInv'
  BY <1>7 DEF CallsInv, At
<1>12. place \in PlacesOf("create") \ {"done", "stage", "check"}
  BY DEF PlacesOf
<1> QED
  BY <1>1, <1>2, <1>3, <1>5, <1>6, <1>7, <1>8, <1>10, <1>11, <1>12, Backed DEF Capture

(* What is published as quiet is not torn.                                 *)
LEMMA PublishStep ==
    ASSUME IInv, Publish
    PROVE  IInv'
<1>1. /\ command.at = "publish" /\ Busy /\ staging' = None /\ Goto("unjournal")
      /\ UNCHANGED <<box, journals, dashboard, frozen, used>>
  BY DEF Publish, At
<1>2. /\ command \in Operation /\ used \in UsedType /\ command.within = "create"
      /\ command.op \in OpsOf("create") /\ backup # None /\ backup \in Backup /\ backup.no \in Op
      /\ lifecycle = None /\ staging \in Staging /\ (staging.torn => ~Quiet) /\ frozen = {}
      /\ command.since <= used.outside
  BY <1>1, CaptureFacts DEF Capture, IInv, PauseInv
<1> DEFINE new == [no |-> backup.no, torn |-> staging.torn, quiet |-> Quiet]
<1>3. published' = published \cup {new}
  BY DEF Publish, Quiet
<1>4. /\ new \in [no : Op, torn : BOOLEAN, quiet : BOOLEAN]
      /\ new.torn => ~new.quiet
  BY <1>2 DEF Staging, Quiet
<1> HIDE DEF new
<1>5. /\ command' \in Operation /\ SameOperation /\ command'.at = "unjournal" /\ command'.within = "create"
  BY <1>1, <1>2, GotoFields DEF Place
<1>6. Busy' /\ ~WillRecord'
  BY <1>5 DEF Busy, NoCommand, Operation, Kind, WillRecord
<1>7. TypeInv'
  BY <1>1, <1>3, <1>4, <1>5 DEF IInv, TypeInv, TypeOK, journals, dashboard
<1>8. ControlInv'
  BY <1>2, <1>5 DEF ControlInv, At, PlacesOf, SameOperation
<1>9. JournalInv'
  BY <1>1, <1>2, <1>5 DEF JournalInv, JournalsAt, OneJournal, At, journals
<1>10. \A n : Before(n) => Before(n)'
  BY <1>1, <1>6 DEF Before
<1>11. NumberInv' /\ PlanInv'
  BY <1>1, <1>6, <1>10 DEF IInv, NumberInv, PlanInv, journals, dashboard
<1>12. JobInv'
  BY <1>1, <1>5 DEF IInv, JobInv, ReportedOverIsOver, SameOperation, journals, dashboard
<1>13. PauseInv' /\ CallsInv'
  BY <1>1, <1>2, <1>5 DEF PauseInv, PausesAreUndone, Those, CallsInv, At
<1>14. MomentInv'
  BY <1>1, <1>2, <1>3, <1>4, <1>5 DEF IInv, MomentInv, BackupsAreOfOneMoment, At, SameOperation
<1> QED
  BY <1>7, <1>8, <1>9, <1>11, <1>12, <1>13, <1>14 DEF IInv

(* Only what runs tears a backup, and where nothing has used Docker since  *)
(* the containers were paused, nothing runs.                               *)
LEMMA HomeChangesStep ==
    ASSUME IInv, HomeChanges
    PROVE  IInv'
<1>1. /\ command.at = "capture" /\ Busy /\ ~Still
      /\ staging' = [staging EXCEPT !.torn = TRUE]
      /\ UNCHANGED <<box, journals, published, command, dashboard, frozen, used>>
  BY DEF HomeChanges, At, Still
<1>2. command.within = "create" /\ staging # None /\ staging \in Staging
  BY <1>1, CaptureFacts DEF Capture
<1>3. staging' \in Staging /\ staging' # None
  BY <1>1, <1>2, NoneAssumption DEF Staging
<1>4. ~Quiet
  BY <1>1, <1>2 DEF IInv, MomentInv
<1>5. TypeInv'
  BY <1>1, <1>3 DEF IInv, TypeInv, TypeOK, Busy, journals, dashboard
<1>6. ControlInv' /\ JournalInv'
  BY <1>1 DEF IInv, ControlInv, JournalInv, JournalsAt, OneJournal, Busy, At, Gone, InAll, journals
<1>7. NumberInv' /\ PlanInv'
  BY <1>1 DEF IInv, NumberInv, PlanInv, Before, WillRecord, Busy, journals, dashboard
<1>8. JobInv'
  BY <1>1 DEF IInv, JobInv, ReportedOverIsOver, Busy, journals, dashboard
<1>9. PauseInv' /\ CallsInv'
  BY <1>1 DEF IInv, PauseInv, PausesAreUndone, Those, CallsInv, Busy, At, Named, journals
<1>10. MomentInv'
  BY <1>1, <1>2, <1>3, <1>4 DEF IInv, MomentInv, BackupsAreOfOneMoment, Busy, At, Quiet, Still, Those
<1> QED
  BY <1>5, <1>6, <1>7, <1>8, <1>9, <1>10 DEF IInv
-----------------------------------------------------------------------------
(* Docker.                                                                 *)

\* A command that waits for Docker, and the journal that its calls name.
LEMMA DockerFacts ==
    ASSUME IInv, At("docker")
    PROVE  /\ Busy /\ command \in Operation /\ used \in UsedType /\ box \in Boxes
           /\ command.at = "docker" /\ command.within \in Within
           /\ command.op \in OpsOf(command.within)
           /\ command.then \in {"verify", "check", "paused"}
           /\ command.then \in PlacesOf(command.within)
           /\ command.calls \in Seq(DockerCalls) /\ command.calls # <<>>
           /\ Len(command.calls) \in Nat \ {0} /\ 1 \in 1 .. Len(command.calls)
           /\ command.calls[1] \in DockerCalls /\ Head(command.calls) = command.calls[1]
           /\ \A k \in command.calls[1].on :
                 k[1] \in Container /\ Named(command.then, command.calls[1].verb, k[1], k[2])
           /\ command.then \in {"check", "paused"} => Len(command.calls) = 1
           /\ command.then = "verify" => lifecycle # None /\ backup = None
           /\ command.then \in {"check", "paused"} => backup # None /\ backup.ids # None
           /\ command.then = "paused" <=> command.then = "paused" /\ command.within = "create"
<1>1. /\ Busy /\ command \in Operation /\ used \in UsedType /\ box \in Boxes
      /\ command.at = "docker" /\ command.within \in Within
      /\ command.op \in OpsOf(command.within)
  BY BusyFacts, TypeFacts DEF At
<1>2. /\ command.then \in {"verify", "check", "paused"}
      /\ command.then \in PlacesOf(command.within) /\ command.calls # <<>>
  BY <1>1 DEF IInv, ControlInv
<1>3. command.calls \in Seq(DockerCalls)
  BY <1>1 DEF Operation
<1>4. /\ Len(command.calls) \in Nat \ {0} /\ 1 \in 1 .. Len(command.calls)
      /\ command.calls[1] \in DockerCalls /\ Head(command.calls) = command.calls[1]
  BY <1>2, <1>3
<1>5. \A k \in command.calls[1].on :
          k[1] \in Container /\ Named(command.then, command.calls[1].verb, k[1], k[2])
  BY <1>4 DEF IInv, CallsInv, DockerCalls
<1>6. command.then \in {"check", "paused"} => Len(command.calls) = 1
  BY DEF IInv, CallsInv
<1>7. JournalsAt(command.then)
  BY <1>1 DEF IInv, JournalInv
<1>8. /\ command.then = "verify" => lifecycle # None /\ backup = None
      /\ command.then \in {"check", "paused"} => backup # None /\ backup.ids # None
  BY <1>2, <1>7 DEF JournalsAt, InBackup, IInv, JournalInv, OneJournal
<1>9. command.then = "paused" => command.within = "create"
  BY <1>1, <1>2 DEF PlacesOf, Within, Recovering
<1> QED
  BY <1>1, <1>2, <1>3, <1>4, <1>5, <1>6, <1>8, <1>9

(* The containers after a call: only one of those that the journal names   *)
(* changes, and it is paused only by the backup.                           *)
LEMMA EffectFields ==
    ASSUME IInv, At("docker"), NEW k \in command.calls[1].on,
           ~Refuses(command.calls[1].verb, k[1], k[2]), Effect(command.calls[1].verb, k[1])
    PROVE  /\ box' \in Boxes
           /\ \A c \in Container : c # k[1] => box'[c] = box[c]
           /\ \A c \in Container :
                 box'[c].id <= used.outside + (IF box'[c].status = "absent" THEN 0 ELSE 1)
           /\ frozen' \subseteq Those(box', "paused") /\ frozen' \subseteq Container
           /\ frozen' # {} => /\ backup # None /\ backup.ids # None
                              /\ \A c \in frozen' : backup.ids[c] = box'[c].id
           /\ OnRecord(k[1])
           /\ command.then = "paused" => box'[k[1]].status # "running"
<1> DEFINE verb == command.calls[1].verb
           d == k[1]
           status == After(verb, box[d].status)
           id == IF box[d].status = "absent" THEN box[d].id + 1 ELSE box[d].id
<1>1. /\ box \in Boxes /\ used \in UsedType /\ d \in Container /\ Named(command.then, verb, d, k[2])
      /\ verb \in {"stop", "restart", "start", "unpause", "pause", "up"}
      /\ command.then \in {"verify", "check", "paused"}
      /\ command.then = "verify" => lifecycle # None
      /\ command.then \in {"check", "paused"} => backup # None /\ backup.ids # None
  BY DockerFacts DEF DockerCalls
<1>2. /\ \A c \in Container : box[c].status \in Status /\ box[c].id \in Identity
      /\ \A c \in Container : box[c].id <= used.outside + (IF box[c].status = "absent" THEN 0 ELSE 1)
      /\ frozen \subseteq Those(box, "paused") /\ frozen \subseteq Container
      /\ frozen # {} => /\ backup # None /\ backup.ids # None
                        /\ \A c \in frozen : backup.ids[c] = box[c].id
  BY TypeFacts DEF IInv, TypeInv, PauseInv, PausesAreUndone
<1>3. /\ verb # "up" => box[d].status # "absent" /\ box[d].id = k[2]
      /\ status # "refused"
  BY DEF Refuses
<1>4. /\ status \in {"exited", "running", "paused"}
      /\ verb = "pause" <=> status = "paused"
  <2>1. status \in {"exited", "running", "paused", "refused"} /\ (status = "paused" => verb = "pause")
        /\ (verb = "pause" => status \in {"paused", "refused"})
    BY <1>1 DEF After
  <2> QED
    BY <1>3, <2>1
<1>5. id \in Identity /\ id <= used.outside + 1
  BY <1>1, <1>2, HostAssumption DEF Identity, UsedType
<1>6. /\ box' = [box EXCEPT ![d] = [status |-> status, id |-> id]]
      /\ frozen' = IF verb = "pause" THEN frozen \cup {d} ELSE frozen \ {d}
  BY <1>1 DEF Effect, Boxes
<1> HIDE DEF verb, d, status, id
<1>7. [status |-> status, id |-> id] \in [status : Status, id : Identity]
  BY <1>4, <1>5 DEF Status
<1>8. /\ box' \in Boxes /\ box'[d].status = status /\ box'[d].id = id
      /\ \A c \in Container : c # d => box'[c] = box[c]
  BY <1>1, <1>6, <1>7 DEF Boxes
<1>9. \A c \in Container : box'[c].id <= used.outside + (IF box'[c].status = "absent" THEN 0 ELSE 1)
  BY <1>2, <1>4, <1>5, <1>8
<1>10. frozen' \subseteq Those(box', "paused") /\ frozen' \subseteq Container
  BY <1>1, <1>2, <1>4, <1>6, <1>8 DEF Those
<1>11. OnRecord(d)
  BY <1>1, <1>3 DEF OnRecord, Named
<1>12. verb = "pause" => command.then = "paused" /\ backup.ids[d] = box[d].id /\ id = box[d].id
  BY <1>1, <1>3 DEF Named, id
<1>13. frozen' # {} => /\ backup # None /\ backup.ids # None
                       /\ \A c \in frozen' : backup.ids[c] = box'[c].id
  BY <1>1, <1>2, <1>6, <1>8, <1>12
<1>14. command.then = "paused" => box'[d].status # "running"
  BY <1>1, <1>4, <1>8 DEF Named
<1> QED
  BY <1>8, <1>9, <1>10, <1>11, <1>13, <1>14 DEF d

(* A command goes on waiting for Docker.                                   *)
LEMMA Waited ==
    ASSUME IInv, At("docker"), command' \in Operation, SameOperation, command'.at = "docker",
           command'.within = command.within, command'.then = command.then, command'.calls # <<>>,
           UNCHANGED <<files, dashboard>>,
           used' \in UsedType, used'.ops = used.ops, used'.outside = used.outside,
           box' \in Boxes,
           \A c \in Container :
              box'[c].id <= used.outside + (IF box'[c].status = "absent" THEN 0 ELSE 1),
           frozen' \subseteq Those(box', "paused"), frozen' \subseteq Container,
           frozen' # {} => /\ backup # None /\ backup.ids # None
                           /\ \A c \in frozen' : backup.ids[c] = box'[c].id,
           CallsInv', MomentInv'
    PROVE  IInv'
<1>1. /\ Busy /\ command \in Operation /\ command.at = "docker"
      /\ Busy' /\ (WillRecord' <=> WillRecord)
  BY DockerFacts DEF Busy, NoCommand, Operation, Kind, WillRecord
<1>2. TypeInv'
  BY DEF IInv, TypeInv, TypeOK, files, journals, dashboard, UsedType
<1>3. ControlInv'
  BY <1>1 DEF IInv, ControlInv, At, SameOperation
<1>4. JournalInv'
  BY <1>1 DEF IInv, JournalInv, JournalsAt, OneJournal, At, files, journals
<1>5. \A n : Before(n) => Before(n)'
  BY <1>1 DEF Before, SameOperation
<1>6. NumberInv' /\ PlanInv'
  BY <1>1, <1>5 DEF IInv, NumberInv, PlanInv, SameOperation, files, journals, dashboard
<1>7. JobInv'
  BY <1>1 DEF IInv, JobInv, ReportedOverIsOver, SameOperation, files, journals, dashboard
<1>8. PauseInv'
  BY DEF PauseInv, PausesAreUndone, files, journals
<1> QED
  BY <1>2, <1>3, <1>4, <1>6, <1>7, <1>8 DEF IInv

\* What has been tried is not tried again.
Tried(k, err) == command' = [command EXCEPT !.calls[1].on = @ \ {k}, !.err = @ \/ err]

LEMMA TriedFields ==
    ASSUME IInv, At("docker"), NEW k \in command.calls[1].on, NEW err \in BOOLEAN, Tried(k, err)
    PROVE  /\ command' \in Operation /\ SameOperation /\ command'.at = "docker"
           /\ command'.within = command.within /\ command'.then = command.then
           /\ command'.calls # <<>> /\ Len(command'.calls) = Len(command.calls)
           /\ command'.calls[1].on = command.calls[1].on \ {k}
           /\ \A i \in 1 .. Len(command.calls) :
                 /\ command'.calls[i].verb = command.calls[i].verb
                 /\ command'.calls[i].on \subseteq command.calls[i].on
           /\ err => command'.err
           /\ command.err => command'.err
<1> DEFINE call == [command.calls[1] EXCEPT !.on = @ \ {k}]
           calls == [command.calls EXCEPT ![1] = call]
           failed == command.err \/ err
<1>1. /\ command \in Operation /\ command.at = "docker" /\ command.calls \in Seq(DockerCalls)
      /\ command.calls[1] \in DockerCalls /\ 1 \in 1 .. Len(command.calls)
  BY DockerFacts
<1>2. /\ call \in DockerCalls /\ call.verb = command.calls[1].verb
      /\ call.on = command.calls[1].on \ {k}
  BY <1>1 DEF DockerCalls
<1>3. command' = [command EXCEPT !.calls = calls, !.err = failed]
  BY <1>1 DEF Tried, Operation
<1> HIDE DEF call
<1>4. /\ calls \in Seq(DockerCalls) /\ Len(calls) = Len(command.calls) /\ calls # <<>>
      /\ calls[1] = call
      /\ \A i \in 1 .. Len(command.calls) : i # 1 => calls[i] = command.calls[i]
  BY <1>1, <1>2
<1>5. failed \in BOOLEAN /\ (err => failed) /\ (command.err => failed)
  BY <1>1 DEF Operation
<1> HIDE DEF calls, failed
<1>6. /\ command' \in Operation /\ SameOperation /\ command'.at = command.at
      /\ command'.within = command.within /\ command'.then = command.then
      /\ command'.calls = calls /\ command'.err = failed
  BY <1>1, <1>3, <1>4, <1>5 DEF Operation, SameOperation
<1>7. \A i \in 1 .. Len(command.calls) :
         calls[i].verb = command.calls[i].verb /\ calls[i].on \subseteq command.calls[i].on
  BY <1>2, <1>4
<1> QED
  BY <1>1, <1>2, <1>4, <1>5, <1>6, <1>7

(* One container of a call: the journal names it still, and one that runs  *)
(* on is one that has still to be paused, or an error.                     *)
LEMMA DockerCallStep ==
    ASSUME IInv, DockerCall
    PROVE  IInv'
<1>1. At("docker") /\ UNCHANGED <<files, dashboard>>
  BY DEF DockerCall
<1>2. /\ used \in UsedType /\ box \in Boxes /\ Head(command.calls) = command.calls[1]
      /\ Len(command.calls) \in Nat \ {0} /\ 1 \in 1 .. Len(command.calls)
      /\ command.within \in Within
      /\ command.then = "paused" => command.within = "create"
      /\ command.then \in PlacesOf(command.within)
  BY <1>1, DockerFacts
<1> DEFINE Faulty == used.faults < MaxFaults /\ Use("faults")
<1>3. PICK k \in command.calls[1].on, err \in BOOLEAN :
         /\ Tried(k, err) /\ (UNCHANGED used \/ Faulty)
         /\ \/ UNCHANGED <<box, frozen>> /\ err
            \/ ~Refuses(command.calls[1].verb, k[1], k[2]) /\ Effect(command.calls[1].verb, k[1])
  <2>1. \E k \in command.calls[1].on :
           LET verb == command.calls[1].verb
               c == k[1]
           IN
           \/ Refuses(verb, c, k[2]) /\ Tried(k, TRUE) /\ UNCHANGED <<box, frozen, used>>
           \/ ~Refuses(verb, c, k[2]) /\ Effect(verb, c) /\ Tried(k, FALSE) /\ UNCHANGED used
           \/ /\ ~Refuses(verb, c, k[2]) /\ Faulty /\ Tried(k, TRUE)
              /\ Effect(verb, c) \/ UNCHANGED <<box, frozen>>
    BY <1>2 DEF DockerCall, Tried
  <2> HIDE DEF Faulty
  <2> QED
    BY <2>1
<1>5. used' \in UsedType /\ used'.ops = used.ops /\ used'.outside = used.outside
  BY <1>2, <1>3, UseFields
<1>6. /\ command' \in Operation /\ SameOperation /\ command'.at = "docker"
      /\ command'.within = command.within /\ command'.then = command.then
      /\ command'.calls # <<>> /\ Len(command'.calls) = Len(command.calls)
      /\ command'.calls[1].on = command.calls[1].on \ {k}
      /\ \A i \in 1 .. Len(command.calls) :
            /\ command'.calls[i].verb = command.calls[i].verb
            /\ command'.calls[i].on \subseteq command.calls[i].on
      /\ err => command'.err
      /\ command.err => command'.err
  BY <1>1, <1>3, TriedFields
<1>8. /\ box' \in Boxes
      /\ \A c \in Container :
            box'[c].id <= used.outside + (IF box'[c].status = "absent" THEN 0 ELSE 1)
      /\ frozen' \subseteq Those(box', "paused") /\ frozen' \subseteq Container
      /\ frozen' # {} => /\ backup # None /\ backup.ids # None
                         /\ \A c \in frozen' : backup.ids[c] = box'[c].id
      /\ \/ err
         \/ /\ \A c \in Container : c # k[1] => box'[c] = box[c]
            /\ command.then = "paused" => box'[k[1]].status # "running"
  <2>1. CASE UNCHANGED <<box, frozen>> /\ err
    BY <1>2, <2>1, TypeFacts DEF IInv, TypeInv, PauseInv, PausesAreUndone
  <2>2. CASE ~Refuses(command.calls[1].verb, k[1], k[2]) /\ Effect(command.calls[1].verb, k[1])
    BY <1>1, <2>2, EffectFields
  <2> QED
    BY <1>3, <2>1, <2>2
<1>9. CallsInv'
  <2>1. /\ \A i \in 1 .. Len(command.calls) : \A j \in command.calls[i].on :
               Named(command.then, command.calls[i].verb, j[1], j[2])
        /\ command.then \in {"check", "paused"} => Len(command.calls) = 1
    BY <1>1 DEF IInv, CallsInv
  <2>2. \A then, verb, c, id : Named(then, verb, c, id)' <=> Named(then, verb, c, id)
    BY <1>1 DEF Named, files, journals
  <2> QED
    BY <1>6, <2>1, <2>2 DEF CallsInv
<1>10. Busy /\ command.at = "docker" /\ Busy'
  BY <1>1, <1>6 DEF At, Busy, NoCommand, Operation, Kind
<1>11. MomentInv'
  <2>1. /\ BackupsAreOfOneMoment' /\ staging' = staging /\ backup' = backup /\ (Quiet' <=> Quiet)
        /\ used'.outside = used.outside /\ command'.since = command.since
    BY <1>1, <1>5, <1>6 DEF IInv, MomentInv, BackupsAreOfOneMoment, Quiet, SameOperation, files, journals
  <2>2. ASSUME command.within = "create", command.then = "paused", Quiet, ~command'.err
        PROVE  \A c \in Those(box', "running") : <<c, backup.ids[c]>> \in command'.calls[1].on
    <3>1. \A c \in Those(box, "running") : <<c, backup.ids[c]>> \in command.calls[1].on
      BY <1>1, <1>6, <1>10, <2>2 DEF IInv, MomentInv
    <3>2. \A c \in Those(box', "running") : c \in Those(box, "running") /\ c # k[1]
      BY <1>6, <1>8, <2>2 DEF Those
    <3> QED
      BY <1>6, <3>1, <3>2
  <2>3. command.within \in {"begin", "create"} =>
           /\ command.since <= used.outside
           /\ command.within = "create" => staging # None /\ (staging.torn => ~Quiet)
    BY <1>10 DEF IInv, MomentInv
  <2> QED
    BY <1>6, <1>10, <2>1, <2>2, <2>3 DEF MomentInv, At
<1> QED
  BY <1>1, <1>5, <1>6, <1>8, <1>9, <1>11, Waited

LEMMA RestFields ==
    ASSUME NEW S, NEW s \in Seq(S), s # <<>>
    PROVE  /\ Tail(s) \in Seq(S) /\ Len(Tail(s)) = Len(s) - 1
           /\ \A i \in 1 .. Len(Tail(s)) : i + 1 \in 1 .. Len(s) /\ Tail(s)[i] = s[i + 1]
           /\ Len(s) = 1 => Tail(s) = <<>>
<1>1. Len(s) \in Nat \ {0}
  OBVIOUS
<1>2. /\ Tail(s) \in Seq(S) /\ Len(Tail(s)) = Len(s) - 1
      /\ \A i \in 1 .. Len(Tail(s)) : Tail(s)[i] = s[i + 1]
  BY HeadTailProperties
<1>3. Tail(s) # <<>> => Len(Tail(s)) \in Nat \ {0}
  BY <1>2, EmptySeq
<1> QED
  BY <1>1, <1>2, <1>3

(* The answer of a call: a group that was to be paused does not run.       *)
LEMMA DockerReturnsStep ==
    ASSUME IInv, DockerReturns
    PROVE  IInv'
<1>1. /\ At("docker") /\ Head(command.calls).on = {}
      /\ UNCHANGED <<box, files, dashboard, frozen, used>>
  BY DEF DockerReturns
<1>2. /\ Busy /\ command \in Operation /\ used \in UsedType /\ box \in Boxes
      /\ command.at = "docker" /\ command.within \in Within
      /\ command.op \in OpsOf(command.within)
      /\ command.then \in {"verify", "check", "paused"}
      /\ command.then \in PlacesOf(command.within)
      /\ command.calls \in Seq(DockerCalls) /\ command.calls # <<>>
      /\ Len(command.calls) \in Nat \ {0} /\ command.calls[1].on = {}
      /\ command.then \in {"check", "paused"} => Len(command.calls) = 1
  BY <1>1, DockerFacts
<1>3. CASE Throw
  BY <1>1, <1>2, <1>3, Thrown
<1>4. CASE ~command.err /\ Answered
  <2> DEFINE rest == Tail(command.calls)
             place == IF rest = <<>> THEN command.then ELSE "docker"
  <2>1. /\ rest \in Seq(DockerCalls) /\ Len(rest) = Len(command.calls) - 1
        /\ \A i \in 1 .. Len(rest) : i + 1 \in 1 .. Len(command.calls) /\ rest[i] = command.calls[i + 1]
        /\ Len(command.calls) = 1 => rest = <<>>
    BY <1>2, RestFields
  <2>2. command' = [command EXCEPT !.calls = rest, !.err = FALSE, !.at = place]
    BY <1>4 DEF Answered
  <2> HIDE DEF rest
  <2>6. place \in Place
    BY <1>2 DEF Place
  <2> HIDE DEF place
  <2>3. /\ command' \in Operation /\ SameOperation /\ command'.at = place
        /\ command'.within = command.within /\ command'.then = command.then
        /\ command'.calls = rest
    BY <1>2, <2>1, <2>2, <2>6 DEF Operation, SameOperation
  <2>4. CASE rest = <<>>
    <3>1. command'.at = command.then
      BY <2>3, <2>4 DEF place
    <3>2. JournalsAt(command.then)
      BY <1>1, <1>2 DEF IInv, JournalInv
    <3>3. command.then = "paused" /\ Quiet => Still
      <4>1. ASSUME command.then = "paused", Quiet
            PROVE  \A c \in Those(box, "running") : <<c, backup.ids[c]>> \in command.calls[1].on
        <5>1. command.within = "create"
          BY <1>1, <4>1, DockerFacts
        <5> QED
          BY <1>1, <1>2, <1>4, <4>1, <5>1 DEF IInv, MomentInv
      <4> QED
        BY <1>2, <4>1 DEF Still
    <3>4. CommandOnly
      BY <1>1, <1>2, <2>3 DEF CommandOnly
    <3> QED
      BY <1>2, <2>3, <3>1, <3>2, <3>3, <3>4, Moved
  <2>5. CASE rest # <<>>
    <3>1. command'.at = "docker" /\ command.then = "verify"
      BY <1>2, <2>1, <2>3, <2>5 DEF place
    <3>2. CallsInv'
      BY <1>1, <2>1, <2>3, <3>1 DEF IInv, CallsInv, Named, At, files, journals
    <3>3. MomentInv'
      <4>1. /\ BackupsAreOfOneMoment' /\ staging' = staging /\ (Quiet' <=> Quiet)
            /\ used'.outside = used.outside /\ command'.since = command.since
        BY <1>1, <2>3 DEF IInv, MomentInv, BackupsAreOfOneMoment, Quiet, SameOperation, files
      <4> QED
        BY <1>2, <2>3, <3>1, <4>1 DEF IInv, MomentInv, At
    <3>4. /\ \A c \in Container :
                box[c].id <= used.outside + (IF box[c].status = "absent" THEN 0 ELSE 1)
          /\ frozen \subseteq Those(box, "paused") /\ frozen \subseteq Container
          /\ frozen # {} => /\ backup # None /\ backup.ids # None
                            /\ \A c \in frozen : backup.ids[c] = box[c].id
      BY TypeFacts DEF IInv, TypeInv, PauseInv, PausesAreUndone
    <3> QED
      BY <1>1, <1>2, <2>3, <2>5, <3>1, <3>2, <3>3, <3>4, Waited
  <2> QED
    BY <2>4, <2>5
<1> QED
  BY <1>3, <1>4 DEF DockerReturns
-----------------------------------------------------------------------------
(* Who asks for operations.                                                *)

LEMMA BeginFields ==
    ASSUME NEW op \in Kind, NEW fromDashboard \in BOOLEAN, NEW no \in Op \cup {0},
           Begin(op, fromDashboard, no)
    PROVE  /\ command' \in Operation
           /\ command'.op = op /\ command'.dashboard = fromDashboard /\ command'.no = no
           /\ command'.since = 0
           /\ \/ op \in Capturing /\ command'.at = "pending" /\ command'.within = "begin"
              \/ op = "recover" /\ command'.at = "pending" /\ command'.within = "recover"
              \/ /\ op \in {"start", "stop", "restart"}
                 /\ command'.at = "observe" /\ command'.within = "lifecycle"
<1> DEFINE place == IF op \in Capturing \cup {"recover"} THEN "pending" ELSE "observe"
           within == CASE op \in Capturing -> "begin" [] op = "recover" -> "recover" [] OTHER -> "lifecycle"
           new == [op |-> op, dashboard |-> fromDashboard, no |-> no, at |-> place,
                   within |-> within, then |-> "done", seen |-> None, calls |-> <<>>,
                   err |-> FALSE, since |-> 0]
<1>1. /\ place \in Place /\ within \in Within /\ "done" \in Place
      /\ \/ op \in Capturing /\ place = "pending" /\ within = "begin"
         \/ op = "recover" /\ place = "pending" /\ within = "recover"
         \/ op \in {"start", "stop", "restart"} /\ place = "observe" /\ within = "lifecycle"
  BY DEF Place, Within, Kind, Capturing
<1>2. <<>> \in Seq(DockerCalls) /\ 0 \in 0 .. MaxOutside
  BY HostAssumption
<1>3. command' = new
  BY DEF Begin
<1> HIDE DEF place, within
<1>4. new \in Operation
  BY <1>1, <1>2 DEF Operation
<1> QED
  BY <1>1, <1>3, <1>4

(* An operation begins: a start, stop or restart where no journal is       *)
(* pending, a backup where none but that of a backup is.                   *)
LEMMA Begun ==
    ASSUME IInv, ~Busy, NEW op \in Kind, NEW fromDashboard \in BOOLEAN, NEW no \in Op \cup {0},
           Begin(op, fromDashboard, no),
           UNCHANGED <<box, files, frozen, helper>>, plan' \in {plan, None},
           op # "recover" => lifecycle = None /\ (backup = None \/ op \in Capturing) /\ no # 0,
           used' \in UsedType, used'.outside = used.outside,
           no = 0 => used'.ops = used.ops,
           no # 0 => no = used.ops + 1 /\ used'.ops = used.ops + 1,
           job' \in [Op -> Job], \A n \in Op : n # no => job'[n] = job[n],
           no # 0 => job'[no] = (IF fromDashboard THEN "running" ELSE "none"),
           fromDashboard => helper /\ no # 0
    PROVE  IInv'
<1>1. /\ command' \in Operation
      /\ command'.op = op /\ command'.dashboard = fromDashboard /\ command'.no = no
      /\ command'.since = 0
      /\ \/ op \in Capturing /\ command'.at = "pending" /\ command'.within = "begin"
         \/ op = "recover" /\ command'.at = "pending" /\ command'.within = "recover"
         \/ /\ op \in {"start", "stop", "restart"}
            /\ command'.at = "observe" /\ command'.within = "lifecycle"
  BY BeginFields
<1>2. Busy' /\ (WillRecord' => op # "recover")
  BY <1>1 DEF Busy, NoCommand, Operation, Kind, WillRecord, Capturing
<1>3. /\ used \in UsedType /\ used.ops \in Nat /\ used'.outside \in Nat
      /\ lifecycle \in Lifecycle \cup {None} /\ backup \in Backup \cup {None}
      /\ lifecycle # None => lifecycle.no \in Op
      /\ backup # None => backup.no \in Op
  BY TypeFacts DEF UsedType, Lifecycle, Backup
<1>4. TypeInv'
  BY <1>1 DEF IInv, TypeInv, TypeOK, files, journals, UsedType
<1>5. ControlInv'
  BY <1>1 DEF ControlInv, PlacesOf, OpsOf, Recovering, At, Capturing
<1>6. JournalInv'
  BY <1>1 DEF IInv, JournalInv, JournalsAt, InBackup, OneJournal, At, Capturing, files, journals
<1>7. \A n \in Op : Before(n) => Before(n)' /\ n # no
  BY <1>1, <1>2, <1>3 DEF Before, Op
<1>8. NumberInv'
  <2>1. WillRecord' => command'.no = used'.ops /\ command'.no \in Op
    BY <1>1, <1>2
  <2> QED
    BY <1>3, <1>7, <2>1 DEF IInv, NumberInv, files, journals
<1>9. PlanInv'
  BY <1>7, PlanFacts DEF IInv, PlanInv, files, journals
<1>10. JobInv'
  <2>1. \A n \in Op : n > used'.ops => job'[n] = "none"
    BY <1>3 DEF IInv, JobInv, Op
  <2>2. /\ no # 0 => job'[no] = (IF fromDashboard THEN "running" ELSE "none")
        /\ fromDashboard => helper' /\ no # 0
    OBVIOUS
  <2>3. ReportedOverIsOver'
    BY <1>3, <1>7 DEF IInv, JobInv, NumberInv, ReportedOverIsOver, Over, files, journals
  <2> QED
    BY <1>1, <2>1, <2>2, <2>3 DEF JobInv
<1>11. PauseInv'
  BY <1>1 DEF IInv, PauseInv, PausesAreUndone, Those, files, journals
<1>12. CallsInv'
  BY <1>1 DEF CallsInv, At
<1>13. MomentInv'
  BY <1>1, <1>3 DEF IInv, MomentInv, BackupsAreOfOneMoment, At, files
<1> QED
  BY <1>4, <1>5, <1>6, <1>8, <1>9, <1>10, <1>11, <1>12, <1>13 DEF IInv

LEMMA RequestStep ==
    ASSUME IInv, NEW op \in Kind \ {"recover"}, Request(op)
    PROVE  IInv'
<1> DEFINE no == used.ops + 1
<1>1. /\ ~Busy /\ used.ops < MaxOps /\ Use("ops") /\ lifecycle = None
      /\ backup = None \/ op \in Capturing
      /\ Begin(op, FALSE, no)
      /\ UNCHANGED <<box, files, plan, helper, job, frozen>>
  BY DEF Request, dashboard
<1>2. used \in UsedType /\ job \in [Op -> Job]
  BY TypeFacts
<1>3. used' \in UsedType /\ used'.ops = used.ops + 1 /\ used'.outside = used.outside
  BY <1>1, <1>2, UseFields
<1>4. no \in Op /\ no # 0 /\ no > used.ops
  BY <1>1, <1>2, HostAssumption DEF UsedType, Op
<1>5. job[no] = "none"
  BY <1>4 DEF IInv, JobInv
<1> HIDE DEF no
<1>6. op # "recover" /\ op \in Kind /\ no \in Op \cup {0}
  BY <1>4
<1>7. no = used.ops + 1
  BY DEF no
<1> QED
  BY <1>1, <1>2, <1>3, <1>4, <1>5, <1>6, <1>7, Begun

LEMMA RecoverStep ==
    ASSUME IInv, Recover
    PROVE  IInv'
<1>1. used \in UsedType /\ job \in [Op -> Job]
  BY TypeFacts
<1>2. ~Busy /\ Begin("recover", FALSE, 0) /\ UNCHANGED <<box, files, plan, helper, job, frozen, used>>
  BY DEF Recover, dashboard
<1>3. "recover" \in Kind /\ 0 \notin Op
  BY DEF Kind, Op
<1> QED
  BY <1>1, <1>2, <1>3, Begun

LEMMA FingerprintFields ==
    ASSUME IInv, NEW op \in Kind
    PROVE  /\ Fingerprint(op)[1][1] = lifecycle /\ Fingerprint(op)[1][2] = backup
           /\ Fingerprint(op) \in ((Lifecycle \cup {None}) \X (Backup \cup {None})) \X (Boxes \cup {None})
<1>1. /\ lifecycle \in Lifecycle \cup {None} /\ backup \in Backup \cup {None} /\ box \in Boxes
  BY TypeFacts
<1> DEFINE target == IF op = "recover" THEN None ELSE box
<1>2. target \in Boxes \cup {None}
  BY <1>1
<1>3. Fingerprint(op) = <<<<lifecycle, backup>>, target>>
  BY DEF Fingerprint, journals
<1> HIDE DEF target
<1> QED
  BY <1>1, <1>2, <1>3

LEMMA CallsFramed ==
    ASSUME CallsInv, UNCHANGED <<command, lifecycle, backup>>
    PROVE  CallsInv'
<1>1. \A then, verb, c, id : Named(then, verb, c, id)' <=> Named(then, verb, c, id)
  BY DEF Named
<1> QED
  BY <1>1 DEF CallsInv, At, Busy

\* A change of the plan alone.
LEMMA Planning ==
    ASSUME IInv, plan' \in PlanType \cup {None}, PlanInv',
           UNCHANGED <<box, files, command, helper, job, frozen, used>>
    PROVE  IInv'
<1>1. TypeInv'
  BY DEF IInv, TypeInv, TypeOK, files, journals
<1>2. ControlInv' /\ JournalInv'
  BY DEF IInv, ControlInv, JournalInv, JournalsAt, OneJournal, Busy, At, Gone, InAll, files, journals
<1>3. NumberInv'
  BY DEF IInv, NumberInv, Before, WillRecord, Busy, At, files, journals
<1>4. JobInv'
  BY DEF IInv, JobInv, ReportedOverIsOver, Busy, files, journals
<1>5. PauseInv'
  BY DEF IInv, PauseInv, PausesAreUndone, Those, Busy, files, journals
<1>6. CallsInv'
  BY CallsFramed DEF IInv, files, journals
<1>7. MomentInv'
  BY DEF IInv, MomentInv, BackupsAreOfOneMoment, Busy, At, Quiet, Still, Those, Capturable, Gone,
         Complete, InAll, files, journals
<1> QED
  BY <1>1, <1>2, <1>3, <1>4, <1>5, <1>6, <1>7 DEF IInv

LEMMA PlanStep ==
    ASSUME IInv, NEW op \in Planned, Plan(op)
    PROVE  IInv'
<1>1. op \in Kind
  BY HostAssumption DEF Kind
<1> DEFINE print == Fingerprint(op)
<1>2. /\ print[1][1] = lifecycle /\ print[1][2] = backup
      /\ print \in ((Lifecycle \cup {None}) \X (Backup \cup {None})) \X (Boxes \cup {None})
  BY <1>1, FingerprintFields
<1>3. /\ plan' = [op |-> op, print |-> print, ready |-> FALSE]
      /\ UNCHANGED <<box, files, command, helper, job, frozen, used>>
  BY DEF Plan
<1> HIDE DEF print
<1>4. plan' \in PlanType /\ plan'.print = print /\ plan'.ready = FALSE
  BY <1>1, <1>2, <1>3 DEF PlanType
<1>5. (lifecycle # None => Before(lifecycle.no)) /\ (backup # None => Before(backup.no))
  BY DEF IInv, NumberInv
<1>6. \A n : Before(n) => Before(n)'
  BY <1>3 DEF Before, WillRecord, Busy
<1>7. PlanInv'
  BY <1>2, <1>4, <1>5, <1>6 DEF PlanInv
<1> QED
  BY <1>3, <1>4, <1>7, Planning

\* A preview of a plan that is ready found no journal.
LEMMA PreviewStep ==
    ASSUME IInv, Preview
    PROVE  IInv'
<1>1. plan # None /\ UNCHANGED <<box, files, command, helper, job, frozen, used>>
  BY DEF Preview
<1>2. \A n : Before(n) => Before(n)'
  BY <1>1 DEF Before, WillRecord, Busy
<1>3. CASE plan' = None
  BY <1>1, <1>3, Planning DEF PlanInv
<1>4. CASE ~(Pending /\ plan.op # "recover") /\ plan' = [plan EXCEPT !.ready = TRUE]
  <2>1. plan \in PlanType
    BY <1>1 DEF IInv, TypeInv, TypeOK
  <2>2. plan' \in PlanType /\ plan'.op = plan.op /\ plan'.print = plan.print
    BY <1>4, <2>1 DEF PlanType
  <2>3. PlanInv'
    BY <1>1, <1>2, <1>4, <2>2 DEF IInv, PlanInv, Pending, files, journals
  <2> QED
    BY <1>1, <2>2, <2>3, Planning
<1> QED
  BY <1>3, <1>4 DEF Preview

LEMMA DiscardStep ==
    ASSUME IInv, Discard
    PROVE  IInv'
BY Planning DEF Discard, PlanInv

(* A plan is executed with the journals that it was made with, and these   *)
(* are none: its preview found none that was there before.                 *)
LEMMA ExecuteStep ==
    ASSUME IInv, Execute
    PROVE  IInv'
<1>1. /\ plan # None /\ plan.ready /\ ~Busy /\ helper /\ plan' = None
      /\ UNCHANGED <<box, files, helper, frozen>>
  BY DEF Execute
<1>2. plan.op \in Kind
  BY <1>1, PlanFacts
<1>3. CASE UNCHANGED <<command, job, used>>
  BY <1>1, <1>3, Planning DEF PlanInv
<1>4. CASE /\ plan.print = Fingerprint(plan.op)
           /\ used.ops < MaxOps /\ Use("ops")
           /\ job' = [job EXCEPT ![used.ops + 1] = "running"]
           /\ Begin(plan.op, TRUE, used.ops + 1)
  <2> DEFINE no == used.ops + 1
             op == plan.op
  <2>1. used \in UsedType /\ job \in [Op -> Job]
    BY TypeFacts
  <2>2. used' \in UsedType /\ used'.ops = used.ops + 1 /\ used'.outside = used.outside
    BY <1>4, <2>1, UseFields
  <2>3. no \in Op /\ no # 0
    BY <1>4, <2>1, HostAssumption DEF UsedType, Op
  <2>4. op # "recover" => lifecycle = None /\ backup = None
    <3>1. plan.print[1][1] = lifecycle /\ plan.print[1][2] = backup
      BY <1>2, <1>4, FingerprintFields
    <3> QED
      BY <1>1, <3>1 DEF IInv, PlanInv
  <2>5. job' = [job EXCEPT ![no] = "running"] /\ Begin(op, TRUE, no) /\ no = used.ops + 1 /\ op \in Kind
    BY <1>2, <1>4
  <2> HIDE DEF no, op
  <2>6. /\ job' \in [Op -> Job] /\ job'[no] = "running"
        /\ \A n \in Op : n # no => job'[n] = job[n]
    BY <2>1, <2>3, <2>5 DEF Job
  <2>7. no \in Op \cup {0} /\ TRUE \in BOOLEAN
    BY <2>3
  <2> QED
    BY <1>1, <2>2, <2>3, <2>4, <2>5, <2>6, <2>7, Begun
<1> QED
  BY <1>3, <1>4 DEF Execute
-----------------------------------------------------------------------------
(* How operations end.                                                     *)

LEMMA Idle ==
    ASSUME IInv, command' = NoCommand, UNCHANGED <<box, files, frozen>>,
           used' \in UsedType, used'.ops = used.ops, used'.outside = used.outside,
           plan' \in {plan, None}, helper' \in BOOLEAN, job' \in [Op -> Job],
           ReportedOverIsOver', \A n \in Op : n > used.ops => job'[n] = "none"
    PROVE  IInv'
<1>1. ~Busy' /\ ~WillRecord'
  BY DEF Busy, WillRecord
<1>2. \A n : Before(n) => Before(n)'
  BY <1>1 DEF Before
<1>3. TypeInv'
  BY DEF IInv, TypeInv, TypeOK, files, journals, UsedType
<1>4. ControlInv' /\ CallsInv'
  BY <1>1 DEF ControlInv, CallsInv, At
<1>5. JournalInv'
  BY <1>1 DEF IInv, JournalInv, OneJournal, files, journals
<1>6. NumberInv'
  BY <1>1, <1>2 DEF IInv, NumberInv, files, journals
<1>7. PlanInv'
  BY <1>2 DEF IInv, PlanInv, files, journals
<1>8. JobInv'
  BY <1>1 DEF JobInv
<1>9. PauseInv'
  BY <1>1 DEF IInv, PauseInv, PausesAreUndone, Those, files, journals
<1>10. MomentInv'
  BY <1>1 DEF IInv, MomentInv, BackupsAreOfOneMoment, files
<1> QED
  BY <1>3, <1>4, <1>5, <1>6, <1>7, <1>8, <1>9, <1>10 DEF IInv

(* An operation that is done leaves no journal; of one that has failed the *)
(* helper looks whether there is one.                                      *)
LEMMA EndsStep ==
    ASSUME IInv, Ends
    PROVE  IInv'
<1>1. /\ Busy /\ command.at \in {"done", "failed"} /\ command' = NoCommand
      /\ UNCHANGED <<box, files, plan, helper, frozen, used>>
  BY DEF Ends
<1>2. /\ command \in Operation /\ used \in UsedType /\ job \in [Op -> Job] /\ helper \in BOOLEAN
      /\ command.no \in Op \cup {0} /\ command.dashboard \in BOOLEAN
  BY <1>1, BusyFacts, TypeFacts DEF Operation
<1>3. /\ ReportedOverIsOver /\ \A n \in Op : n > used.ops => job[n] = "none"
      /\ command.dashboard => command.no \in Op /\ job[command.no] = "running"
  BY <1>1, <1>2 DEF IInv, JobInv
<1>4. CASE ~command.dashboard
  <2>1. job' = job
    BY <1>4 DEF Ends
  <2>2. ReportedOverIsOver'
    BY <1>1, <1>3, <2>1 DEF ReportedOverIsOver, files, journals
  <2> QED
    BY <1>1, <1>2, <1>3, <2>1, <2>2, Idle
<1>5. CASE command.dashboard /\ At("done")
  <2>1. lifecycle = None /\ backup = None
    BY <1>5 DEF IInv, JournalInv, JournalsAt, At
  <2>2. job' = [Settled EXCEPT ![command.no] = "succeeded"]
    BY <1>5 DEF Ends
  <2>3. /\ Settled \in [Op -> Job]
        /\ \A n \in Op : job[n] = "none" => Settled[n] = "none"
    BY <1>2 DEF Settled, Job
  <2> HIDE DEF Settled
  <2>4. /\ job' \in [Op -> Job]
        /\ \A n \in Op : n # command.no => job'[n] = Settled[n]
    BY <2>2, <2>3 DEF Job
  <2>5. \A n \in Op : n > used.ops => job'[n] = "none"
    BY <1>3, <1>5, <2>3, <2>4
  <2>6. ReportedOverIsOver'
    BY <1>1, <2>1 DEF ReportedOverIsOver, files, journals
  <2> QED
    BY <1>1, <1>2, <2>4, <2>5, <2>6, Idle
<1>6. CASE command.dashboard /\ ~At("done")
  <2>1. job' = [job EXCEPT ![command.no] = Unfinished]
    BY <1>6 DEF Ends
  <2>2. Unfinished \in Job /\ (Unfinished \in Over => lifecycle = None /\ backup = None)
    BY DEF Unfinished, Pending, Job, Over
  <2> HIDE DEF Unfinished
  <2>3. /\ job' \in [Op -> Job] /\ job'[command.no] = Unfinished
        /\ \A n \in Op : n # command.no => job'[n] = job[n]
    BY <1>2, <1>3, <1>6, <2>1, <2>2
  <2>4. \A n \in Op : n > used.ops => job'[n] = "none"
    BY <1>3, <1>6, <2>3
  <2>5. ReportedOverIsOver'
    BY <1>1, <1>3, <2>2, <2>3 DEF ReportedOverIsOver, files, journals
  <2> QED
    BY <1>1, <1>2, <2>3, <2>4, <2>5, Idle
<1> QED
  BY <1>2, <1>4, <1>5, <1>6

LEMMA CrashStep ==
    ASSUME IInv, Crash
    PROVE  IInv'
<1>1. /\ Busy /\ used.faults < MaxFaults /\ Use("faults") /\ command' = NoCommand
      /\ helper' = (helper /\ ~command.dashboard) /\ plan' \in {plan, None} /\ job' = job
      /\ UNCHANGED <<box, files, frozen>>
  BY DEF Crash
<1>2. used \in UsedType /\ job \in [Op -> Job]
  BY TypeFacts
<1>3. used' \in UsedType /\ used'.ops = used.ops /\ used'.outside = used.outside
  BY <1>1, <1>2, UseFields
<1>4. helper' \in BOOLEAN
  BY <1>1
<1>5. ReportedOverIsOver' /\ \A n \in Op : n > used.ops => job'[n] = "none"
  BY <1>1 DEF IInv, JobInv, ReportedOverIsOver, files, journals
<1> QED
  BY <1>1, <1>2, <1>3, <1>4, <1>5, Idle

(* A helper that starts finds no operation of its own at work.             *)
LEMMA HelperStartsStep ==
    ASSUME IInv, HelperStarts
    PROVE  IInv'
<1> DEFINE Found(n) ==
        IF job[n] # "running" THEN job[n]
        ELSE IF Pending THEN "recovery-required" ELSE "outcome-unknown"
<1>1. /\ ~helper /\ helper' = TRUE /\ job' = [n \in Op |-> Found(n)]
      /\ UNCHANGED <<box, files, command, plan, frozen, used>>
  BY DEF HelperStarts
<1>2. /\ used \in UsedType /\ job \in [Op -> Job]
      /\ Busy => command \in Operation /\ command.no \in Op \cup {0} /\ ~command.dashboard
  BY <1>1, BusyFacts, TypeFacts DEF IInv, JobInv, Operation
<1>3. /\ job' \in [Op -> Job]
      /\ \A n \in Op : job'[n] = job[n] \/ (job'[n] \in Over => ~Pending)
      /\ \A n \in Op : job[n] = "none" => job'[n] = "none"
  <2>1. \A n \in Op : Found(n) \in Job
    BY <1>2 DEF Job
  <2> QED
    BY <1>1, <2>1 DEF Over
<1>4. TypeInv'
  BY <1>1, <1>3 DEF IInv, TypeInv, TypeOK, files, journals
<1>5. ControlInv' /\ JournalInv'
  BY <1>1 DEF IInv, ControlInv, JournalInv, JournalsAt, OneJournal, Busy, At, Gone, InAll, files, journals
<1>6. NumberInv' /\ PlanInv'
  BY <1>1 DEF IInv, NumberInv, PlanInv, Before, WillRecord, Busy, At, files, journals
<1>7. JobInv'
  <2>1. ReportedOverIsOver'
    BY <1>1, <1>3 DEF IInv, JobInv, ReportedOverIsOver, Pending, files, journals
  <2>2. \A n \in Op : n > used'.ops => job'[n] = "none"
    BY <1>1, <1>3 DEF IInv, JobInv
  <2>3. Busy' => ~command'.dashboard /\ (command'.no # 0 => job'[command'.no] = "none")
    BY <1>1, <1>2, <1>3 DEF IInv, JobInv, Busy
  <2> QED
    BY <2>1, <2>2, <2>3 DEF JobInv
<1>8. PauseInv'
  BY <1>1 DEF IInv, PauseInv, PausesAreUndone, Those, Busy, files, journals
<1>9. CallsInv'
  BY <1>1, CallsFramed DEF IInv, files, journals
<1>10. MomentInv'
  BY <1>1 DEF IInv, MomentInv, BackupsAreOfOneMoment, Busy, At, Quiet, Still, Those, Capturable, Gone,
         Complete, InAll, files, journals
<1> QED
  BY <1>4, <1>5, <1>6, <1>7, <1>8, <1>9, <1>10 DEF IInv

(* Whatever somebody does to a container, it is not paused by a backup any *)
(* more, and a backup that is being made does not call itself quiet.       *)
LEMMA OutsideStep ==
    ASSUME IInv, Outside
    PROVE  IInv'
<1>1. /\ used.outside < MaxOutside /\ Use("outside")
      /\ UNCHANGED <<files, command, dashboard>>
  BY DEF Outside
<1>2. used \in UsedType /\ box \in Boxes /\ (Busy => command \in Operation)
  BY TypeFacts
<1>3. used' \in UsedType /\ used'.ops = used.ops /\ used'.outside = used.outside + 1
  BY <1>1, <1>2, UseFields
<1>4. PICK c \in Touched :
         /\ box[c].status # "absent"
         /\ \/ \E s \in Status \ {box[c].status} : box' = [box EXCEPT ![c].status = s]
            \/ box' = [box EXCEPT ![c] = [status |-> "running", id |-> @.id + 1]]
         /\ frozen' = frozen \ {c}
  BY DEF Outside
<1>5. c \in Container
  BY HostAssumption
<1>6. /\ \A d \in Container : box[d].status \in Status /\ box[d].id \in Identity
      /\ \A d \in Container : box[d].id <= used.outside + (IF box[d].status = "absent" THEN 0 ELSE 1)
      /\ frozen \subseteq Container /\ frozen \subseteq Those(box, "paused")
      /\ frozen # {} => /\ backup # None /\ backup.ids # None
                        /\ \A d \in frozen : backup.ids[d] = box[d].id
      /\ Busy /\ command.at \in {"clean", "unjournal", "resumed", "publish"} => frozen = {}
  BY TypeFacts DEF IInv, TypeInv, PauseInv, PausesAreUndone
<1>7. PICK new \in [status : Status, id : Nat] :
         /\ box' = [box EXCEPT ![c] = new]
         /\ new.id <= box[c].id + (IF new.status = "absent" THEN 0 ELSE 1)
  <2>1. CASE \E s \in Status \ {box[c].status} : box' = [box EXCEPT ![c].status = s]
    <3>1. PICK s \in Status : box' = [box EXCEPT ![c].status = s]
      BY <2>1
    <3> DEFINE new == [status |-> s, id |-> box[c].id]
    <3>2. box' = [box EXCEPT ![c] = new] /\ new \in [status : Status, id : Nat]
      <4>1. box[c] \in [status : Status, id : Identity]
        BY <1>2, <1>5 DEF Boxes
      <4>2. [box[c] EXCEPT !.status = s] = new
        BY <4>1
      <4>3. box' = [box EXCEPT ![c] = [box[c] EXCEPT !.status = s]]
        BY <3>1
      <4>4. new \in [status : Status, id : Nat]
        BY <1>5, <1>6 DEF Identity
      <4> HIDE DEF new
      <4> QED
        BY <4>2, <4>3, <4>4
    <3>3. new.id <= box[c].id + (IF new.status = "absent" THEN 0 ELSE 1)
      BY <1>5, <1>6 DEF Identity
    <3> QED
      BY <3>2, <3>3
  <2>2. CASE box' = [box EXCEPT ![c] = [status |-> "running", id |-> @.id + 1]]
    <3> DEFINE new == [status |-> "running", id |-> box[c].id + 1]
    <3>1. box' = [box EXCEPT ![c] = new] /\ new \in [status : Status, id : Nat]
      BY <1>2, <1>5, <1>6, <2>2 DEF Boxes, Identity, Status
    <3>2. new.id <= box[c].id + (IF new.status = "absent" THEN 0 ELSE 1)
      BY <1>5, <1>6 DEF Identity
    <3> QED
      BY <3>1, <3>2
  <2> QED
    BY <1>4, <2>1, <2>2
<1>8. new.id <= used'.outside + (IF new.status = "absent" THEN 0 ELSE 1)
  <2>1. box[c].id <= used.outside + 1 /\ (box[c].status # "absent")
    BY <1>4, <1>5, <1>6
  <2> QED
    BY <1>2, <1>3, <1>5, <1>6, <1>7, <2>1 DEF UsedType, Identity
<1>9. new.id \in Identity
  BY <1>3, <1>7, <1>8, HostAssumption DEF Identity, UsedType
<1>10. /\ box' \in Boxes /\ box'[c] = new
       /\ \A d \in Container : d # c => box'[d] = box[d]
  BY <1>2, <1>5, <1>7, <1>9 DEF Boxes
<1>11. TypeInv'
  <2>1. \A d \in Container : box'[d].id <= used'.outside + (IF box'[d].status = "absent" THEN 0 ELSE 1)
    BY <1>2, <1>3, <1>6, <1>8, <1>10 DEF UsedType, Identity
  <2>2. TypeOK'
    BY <1>1, <1>3, <1>4, <1>6, <1>10 DEF IInv, TypeInv, TypeOK, files, journals, dashboard, UsedType
  <2> QED
    BY <2>1, <2>2 DEF TypeInv
<1>12. ControlInv' /\ JournalInv'
  BY <1>1 DEF IInv, ControlInv, JournalInv, JournalsAt, OneJournal, Busy, At, Gone, InAll, files, journals
<1>13. NumberInv' /\ PlanInv'
  BY <1>1, <1>3 DEF IInv, NumberInv, PlanInv, Before, WillRecord, Busy, At, files, journals, dashboard
<1>14. JobInv'
  BY <1>1, <1>3 DEF IInv, JobInv, ReportedOverIsOver, Busy, files, journals, dashboard
<1>15. PauseInv'
  BY <1>1, <1>4, <1>6, <1>10 DEF PauseInv, PausesAreUndone, Those, Busy, files, journals
<1>16. CallsInv'
  BY <1>1, CallsFramed DEF IInv, files, journals
<1>17. MomentInv'
  <2>1. Busy' /\ command'.within \in {"begin", "create"} => command'.since <= used'.outside /\ ~Quiet'
    <3>1. Busy /\ command.within \in {"begin", "create"} => command.since <= used.outside
      BY DEF IInv, MomentInv
    <3>2. Busy => command.since \in Nat
      BY <1>2, HostAssumption DEF Operation
    <3> QED
      BY <1>1, <1>2, <1>3, <3>1, <3>2 DEF Quiet, Busy, UsedType
  <2>2. Busy' /\ command'.within = "create" =>
           (command'.at \notin {"stage", "unjournal", "done"} => staging' # None)
    BY <1>1 DEF IInv, MomentInv, Busy, files
  <2>3. BackupsAreOfOneMoment'
    BY <1>1 DEF IInv, MomentInv, BackupsAreOfOneMoment, files
  <2> QED
    BY <2>1, <2>2, <2>3 DEF MomentInv
<1> QED
  BY <1>11, <1>12, <1>13, <1>14, <1>15, <1>16, <1>17 DEF IInv
-----------------------------------------------------------------------------
LEMMA InitInv == Init => IInv
<1> SUFFICES ASSUME Init
             PROVE  IInv
  OBVIOUS
<1>1. /\ box \in Boxes /\ \A c \in Container : box[c].id = 0
      /\ lifecycle = None /\ backup = None /\ staging = None /\ published = {}
      /\ plan = None /\ helper = TRUE /\ job = [n \in Op |-> "none"] /\ frozen = {}
      /\ used = [ops |-> 0, faults |-> 0, outside |-> 0]
  BY HostAssumption DEF Init, Boxes, Status, Identity
<1>2. ~Busy
  BY DEF Init, Busy
<1>3. TypeOK
  BY <1>1, HostAssumption DEF Init, TypeOK, Job
<1>4. TypeInv
  BY <1>1, <1>3 DEF TypeInv
<1>5. ControlInv /\ JournalInv /\ CallsInv /\ MomentInv
  BY <1>1, <1>2 DEF ControlInv, JournalInv, OneJournal, CallsInv, At, MomentInv, BackupsAreOfOneMoment
<1>6. NumberInv /\ PlanInv /\ JobInv
  BY <1>1, <1>2 DEF NumberInv, WillRecord, PlanInv, JobInv, ReportedOverIsOver, Over
<1>7. PauseInv
  BY <1>1 DEF PauseInv, PausesAreUndone
<1> QED
  BY <1>4, <1>5, <1>6, <1>7 DEF IInv

LEMMA UnchangedStep ==
    ASSUME IInv, UNCHANGED vars
    PROVE  IInv'
<1>1. UNCHANGED <<box, files, command, plan, helper, job, frozen, used>>
  BY DEF vars, dashboard
<1>2. plan \in PlanType \cup {None}
  BY DEF IInv, TypeInv, TypeOK
<1>3. PlanInv'
  BY <1>1 DEF IInv, PlanInv, Before, WillRecord, Busy, files, journals
<1> QED
  BY <1>1, <1>2, <1>3, Planning

LEMMA NextStep == IInv /\ [Next]_vars => IInv'
<1> SUFFICES ASSUME IInv, [Next]_vars
             PROVE  IInv'
  OBVIOUS
<1>1. CASE DockerCall
  BY <1>1, DockerCallStep
<1>2. CASE DockerReturns
  BY <1>2, DockerReturnsStep
<1>3. CASE Observe \/ Recheck \/ Record \/ RecoverLifecycle \/ Verify \/ ClearLifecycle
  BY <1>3, ObserveStep, RecheckStep, RecordStep, RecoverLifecycleStep, VerifyStep, ClearStep
<1>4. CASE PendingBackup \/ Resume \/ Check \/ Clean \/ Unjournal
  BY <1>4, PendingStep, ResumeStep, CheckStep, CleanStep, UnjournalStep
<1>5. CASE ObserveHome \/ RecordBackup \/ Stage \/ Advance \/ Publish
  BY <1>5, ObserveHomeStep, RecordBackupStep, StageStep, AdvanceStep, PublishStep
<1>6. CASE Ends \/ Fails \/ HomeChanges
  BY <1>6, EndsStep, FailsStep, HomeChangesStep
<1>7. CASE (\E op \in Kind \ {"recover"} : Request(op)) \/ Recover
  BY <1>7, RequestStep, RecoverStep
<1>8. CASE (\E op \in Planned : Plan(op)) \/ Preview \/ Discard \/ Execute
  BY <1>8, PlanStep, PreviewStep, DiscardStep, ExecuteStep
<1>9. CASE Crash \/ HelperStarts \/ Outside
  BY <1>9, CrashStep, HelperStartsStep, OutsideStep
<1>10. CASE UNCHANGED vars
  BY <1>10, UnchangedStep
<1> QED
  BY <1>1, <1>2, <1>3, <1>4, <1>5, <1>6, <1>7, <1>8, <1>9, <1>10 DEF Next, Step

THEOREM Invariance == Spec => []IInv
<1> QED
  BY InitInv, NextStep, PTL DEF Spec

(* What the operations, journals, plans and containers are.                *)
THEOREM TypeCorrect == Spec => []TypeOK
<1>1. IInv => TypeOK
  BY DEF IInv, TypeInv
<1> QED
  BY <1>1, Invariance, PTL

(* A container that a backup has paused stays on record until it is        *)
(* resumed, whatever fails and wherever a process ends (createBackup,      *)
(* which writes its journal before it calls docker pause).                 *)
THEOREM PausesUndone == Spec => []PausesAreUndone
<1>1. IInv => PausesAreUndone
  BY DEF IInv, PauseInv
<1> QED
  BY <1>1, Invariance, PTL

(* The journal of a start, stop or restart and that of a backup are never  *)
(* pending at once, though one of the two who ask for operations checks    *)
(* the journals (prepareStateBeforeCommand) and the other a fingerprint    *)
(* that it took before it had the lock (ManagementApplication).            *)
THEOREM JournalsExclude == Spec => []OneJournal
<1>1. IInv => OneJournal
  BY DEF IInv, JournalInv
<1> QED
  BY <1>1, Invariance, PTL

(* A backup that calls itself quiesced or stopped is of one moment, unless *)
(* somebody used Docker while it was made (createBackup).                  *)
THEOREM BackupMoments == Spec => []BackupsAreOfOneMoment
<1>1. IInv => BackupsAreOfOneMoment
  BY DEF IInv, MomentInv
<1> QED
  BY <1>1, Invariance, PTL

(* What the dashboard reports as over has no journal, also after a restart *)
(* of its helper (ManagementApplication.initialize).                       *)
THEOREM ReportsHold == Spec => []ReportedOverIsOver
<1>1. IInv => ReportedOverIsOver
  BY DEF IInv, JobInv
<1> QED
  BY <1>1, Invariance, PTL

\* Only Docker changes a container, and what a call does is on record.
LEMMA OnRecordStep ==
    ASSUME IInv, [Next]_vars
    PROVE  \A c \in Container : box'[c] # box[c] /\ used'.outside = used.outside => OnRecord(c)
<1>1. CASE DockerCall
  <2>1. /\ At("docker") /\ Head(command.calls) = command.calls[1]
    BY <1>1, DockerFacts DEF DockerCall
  <2>2. \/ UNCHANGED box
        \/ \E k \in command.calls[1].on :
              ~Refuses(command.calls[1].verb, k[1], k[2]) /\ Effect(command.calls[1].verb, k[1])
    BY <1>1, <2>1 DEF DockerCall
  <2> QED
    BY <2>1, <2>2, EffectFields
<1>2. CASE Outside
  <2>1. used \in UsedType /\ used.outside < MaxOutside /\ Use("outside")
    BY <1>2, TypeFacts DEF Outside
  <2>2. used'.outside = used.outside + 1 /\ used.outside \in Nat
    BY <2>1, UseFields DEF UsedType
  <2> QED
    BY <2>2
<1>3. CASE UNCHANGED box
  BY <1>3
<1>4. DockerReturns \/ Fails \/ HomeChanges \/ Ends => UNCHANGED box
  BY DEF DockerReturns, Fails, HomeChanges, Ends
<1>5. Observe \/ Recheck \/ Record \/ RecoverLifecycle \/ Verify \/ ClearLifecycle => UNCHANGED box
  BY DEF Observe, Recheck, Record, RecoverLifecycle, Verify, ClearLifecycle
<1>6. PendingBackup \/ Resume \/ Check \/ Clean \/ Unjournal => UNCHANGED box
  BY DEF PendingBackup, Resume, Check, Clean, Unjournal
<1>7. ObserveHome \/ RecordBackup \/ Stage \/ Advance \/ Publish => UNCHANGED box
  BY DEF ObserveHome, RecordBackup, Stage, Advance, Publish
<1>8. \/ \E op \in Kind \ {"recover"} : Request(op)
      \/ Recover
      \/ \E op \in Planned : Plan(op)
      \/ Preview \/ Discard \/ Execute \/ Crash \/ HelperStarts
      => UNCHANGED box
  BY DEF Request, Recover, Plan, Preview, Discard, Execute, Crash, HelperStarts
<1> QED
  BY <1>1, <1>2, <1>3, <1>4, <1>5, <1>6, <1>7, <1>8 DEF Next, Step, vars

(* Whatever an operation or its recovery changes, the journal on disk      *)
(* names, by the identity of the container (beginComputerLifecycle and     *)
(* writeBackupCreationJournal come before the calls to Docker).            *)
THEOREM ChangesOnRecord == Spec => ChangesAreRecorded
<1>1. IInv /\ [Next]_vars =>
         [\A c \in Container : box'[c] # box[c] /\ used'.outside = used.outside => OnRecord(c)]_vars
  BY OnRecordStep
<1> QED
  BY <1>1, Invariance, PTL DEF Spec, ChangesAreRecorded
=============================================================================
