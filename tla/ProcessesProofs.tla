--------------------------- MODULE ProcessesProofs ---------------------------
(***************************************************************************)
(* Proofs about module Processes, for every limit and however many         *)
(* commands, services, terminals and requests there are.                   *)
(***************************************************************************)
EXTENDS Processes, FiniteSetTheorems, TLAPS

Table ==
    [work : [Managed -> Work], terminals : SUBSET Terminal, pending : SUBSET Service,
     unstartable : SUBSET Service, alive : SUBSET Managed]

\* What holds of the manager's table by itself, between any two steps.
TableInv(t) ==
    /\ t \in Table
    /\ \A i \in Managed : /\ t.work[i].at \in Restarting => i \in Service
                          /\ t.work[i].at = "dropped" => i \in Session
    /\ t.unstartable \subseteq t.pending
    /\ \A i \in t.pending : t.work[i].at = "absent" /\ i \notin t.alive
    /\ \A i \in t.alive : Recorded(t, i)
    /\ Count(t) <= maxProcesses

\* A runner that does not serve yet has nothing but the identifiers of tasks.
ModeInv ==
    mode \in {"off", "loading"} =>
        /\ table.terminals = {} /\ table.pending = {} /\ table.alive = {} /\ kept = {}
        /\ \A i \in Managed : table.work[i].at \in (IF i \in Task THEN {"absent", "gone"} ELSE {"absent"})
        /\ bulk = NoBulk /\ stopping = NothingStopping /\ revocation = NoRevocation

\* What is saved waits, could not be removed, or has a record.
SavedInv ==
    /\ StoppedForGood
    /\ table.pending \subseteq definitions
    /\ mode \in {"on", "closing"} =>
           \A i \in definitions : i \in table.pending \cup kept \/ Recorded(table, i)

Waiting == table.pending \ (table.unstartable \cup kept)

\* Only what starts after the waiting services have been tried can end
\* without trying them.
WaitInv ==
    /\ mode = "on" /\ ~bulk.on /\ Waiting # {} => Count(table) = maxProcesses
    /\ table.terminals # {} \/ (\E i \in Session : table.work[i].at # "absent") => Waiting = {}

BulkStops(i) == stopping["bulk"][i] # "no"

\* What a bulk stop has still to do, and what would restart meanwhile.
BulkInv ==
    /\ mode # "closing" /\ ~bulk.on => \A i \in Service : table.work[i].at # "limbo"
    /\ bulk.on =>
        /\ \A i \in Service :
              \/ table.work[i].at \in Restarting
              \/ table.work[i].at = "live" /\ ~table.work[i].told
              => i \in bulk.todo \/ mode = "closing"
        /\ table.pending \subseteq bulk.todo \cup kept
        /\ ~bulk.failed =>
              /\ \A i \in Managed : table.work[i].at \in Running => i \in bulk.todo \/ BulkStops(i)
              /\ table.terminals \cup table.pending \subseteq bulk.todo
              /\ mode = "on" => \A i \in definitions : i \in kept \cup bulk.todo \/ BulkStops(i)

IInv ==
    /\ TypeOK /\ TableInv(table) /\ ModeInv /\ SavedInv /\ WaitInv /\ BulkInv

\* The records of tasks, if each is written whole or not at all.
HistoryInv ==
    /\ ~torn
    /\ \A i \in Task :
          /\ table.work[i].at = "absent" => history[i] = "none" /\ journal[i] = "none"
          /\ table.work[i].at = "live" => history[i] \in {"none", "running"}
          /\ history[i] \in {"exited", "interrupted"} => journal[i] \in {history[i], "none"}
          /\ mode \in {"on", "closing"} /\ history[i] = "running" => table.work[i].at = "live"
-----------------------------------------------------------------------------
(* The slots that are in use.                                              *)

RunningOf(t) == {i \in Managed : t.work[i].at \in Running}

LEMMA Finite ==
    /\ \A S \in SUBSET Managed : IsFiniteSet(S) /\ Cardinality(S) \in Nat
    /\ \A S \in SUBSET Terminal : IsFiniteSet(S) /\ Cardinality(S) \in Nat
<1>1. IsFiniteSet(Managed) /\ IsFiniteSet(Terminal)
  BY ProcessesAssumption, FS_Subset
<1> QED
  BY <1>1, FS_Subset, FS_CardinalityType

LEMMA CountFields ==
    ASSUME NEW t \in Table
    PROVE  /\ Count(t) = Cardinality(RunningOf(t)) + Cardinality(t.terminals)
           /\ Cardinality(RunningOf(t)) \in Nat /\ Cardinality(t.terminals) \in Nat
           /\ Count(t) \in Nat
BY Finite DEF Count, RunningOf, Table

LEMMA CountLess ==
    ASSUME NEW t \in Table, NEW u \in Table,
           RunningOf(u) \subseteq RunningOf(t), u.terminals \subseteq t.terminals
    PROVE  Count(u) <= Count(t)
<1>1. /\ IsFiniteSet(RunningOf(t)) /\ IsFiniteSet(t.terminals)
  BY Finite DEF RunningOf, Table
<1>2. /\ Cardinality(RunningOf(u)) <= Cardinality(RunningOf(t))
      /\ Cardinality(u.terminals) <= Cardinality(t.terminals)
  BY <1>1, FS_Subset
<1> QED
  BY <1>2, CountFields

LEMMA CountMore ==
    ASSUME NEW t \in Table, NEW u \in Table, NEW go \in SUBSET Managed,
           RunningOf(u) = RunningOf(t) \cup go, RunningOf(t) \cap go = {}, u.terminals = t.terminals
    PROVE  Count(u) = Count(t) + Cardinality(go)
<1>1. IsFiniteSet(RunningOf(t)) /\ IsFiniteSet(go) /\ Cardinality(go) \in Nat
  BY Finite DEF RunningOf
<1>2. Cardinality(RunningOf(t) \cap go) = 0
  BY FS_EmptySet
<1>3. Cardinality(RunningOf(t) \cup go)
        = Cardinality(RunningOf(t)) + Cardinality(go) - Cardinality(RunningOf(t) \cap go)
  BY <1>1, FS_Union
<1>4. /\ Count(t) = Cardinality(RunningOf(t)) + Cardinality(t.terminals)
      /\ Count(u) = Cardinality(RunningOf(t) \cup go) + Cardinality(t.terminals)
      /\ Cardinality(RunningOf(t)) \in Nat /\ Cardinality(t.terminals) \in Nat
  BY CountFields
<1> QED
  BY <1>1, <1>2, <1>3, <1>4

LEMMA WorkFields ==
    ASSUME NEW t \in Table
    PROVE  /\ \A i \in Managed : t.work[i] \in Work /\ t.work[i].told \in BOOLEAN /\ t.work[i].tries \in Nat
           /\ \A i \in Managed : t.work[i].at \in Running \cup {"absent", "done", "dropped", "gone"}
           /\ t.terminals \subseteq Terminal /\ t.pending \subseteq Service
           /\ t.unstartable \subseteq Service /\ t.alive \subseteq Managed
           /\ Fresh \in Work /\ Done \in Work /\ Absent \in Work
           /\ \A w \in [Managed -> Work] :
                 /\ [t EXCEPT !.work = w] \in Table
                 /\ [t EXCEPT !.work = w].work = w
                 /\ [t EXCEPT !.work = w].terminals = t.terminals
                 /\ [t EXCEPT !.work = w].pending = t.pending
                 /\ [t EXCEPT !.work = w].unstartable = t.unstartable
                 /\ [t EXCEPT !.work = w].alive = t.alive
BY DEF Table, Work, Fresh, Done, Absent, Running

\* The table with another entry for one command.
LEMMA EntryFields ==
    ASSUME NEW t \in Table, NEW i \in Managed, NEW w \in Work
    PROVE  LET u == [t EXCEPT !.work[i] = w] IN
           /\ u \in Table /\ u.work[i] = w
           /\ \A j \in Managed : j # i => u.work[j] = t.work[j]
           /\ u.terminals = t.terminals /\ u.pending = t.pending
           /\ u.unstartable = t.unstartable /\ u.alive = t.alive
BY DEF Table
-----------------------------------------------------------------------------
(* Waiting services are started.                                           *)

Fills(t, u, go) ==
    /\ \A i \in Managed : u.work[i] = IF i \in go THEN Fresh ELSE t.work[i]
    /\ u.terminals = t.terminals /\ u.alive = t.alive \cup go /\ u.pending = t.pending \ go
    /\ t.unstartable \subseteq u.unstartable

LEMMA LaunchedFields ==
    ASSUME NEW t, TableInv(t), NEW go \in SUBSET (t.pending \ t.unstartable),
           NEW bad \in SUBSET (t.pending \ t.unstartable), go \cap bad = {}
    PROVE  LET u == Launched(t, go, bad) IN
           /\ u \in Table /\ Fills(t, u, go) /\ u.unstartable = t.unstartable \cup bad
           /\ Count(u) = Count(t) + Cardinality(go) /\ Cardinality(go) \in Nat
           /\ Count(u) <= maxProcesses => TableInv(u)
<1> DEFINE u == Launched(t, go, bad)
           w == [i \in Managed |-> IF i \in go THEN Fresh ELSE t.work[i]]
<1>1. t \in Table /\ go \subseteq Service /\ bad \subseteq Service /\ Service \subseteq Managed
  BY DEF TableInv, Table, Managed
<1>2. w \in [Managed -> Work]
  BY <1>1, WorkFields
<1>3. u = [t EXCEPT !.work = w, !.alive = @ \cup go, !.pending = @ \ go, !.unstartable = @ \cup bad]
  BY <1>1 DEF Launched, Table
<1>4. /\ u \in Table /\ u.work = w /\ u.alive = t.alive \cup go /\ u.pending = t.pending \ go
      /\ u.unstartable = t.unstartable \cup bad /\ u.terminals = t.terminals
  <2>1. /\ t.alive \cup go \in SUBSET Managed /\ t.pending \ go \in SUBSET Service
        /\ t.unstartable \cup bad \in SUBSET Service /\ t.terminals \in SUBSET Terminal
    BY <1>1 DEF Table
  <2>2. u = [work |-> w, terminals |-> t.terminals, pending |-> t.pending \ go,
             unstartable |-> t.unstartable \cup bad, alive |-> t.alive \cup go]
    BY <1>1, <1>3 DEF Table
  <2> HIDE DEF u, w
  <2> QED
    BY <1>2, <2>1, <2>2 DEF Table
<1>5. Fills(t, u, go)
  BY <1>4 DEF Fills
<1> HIDE DEF u, w
<1>6. \A i \in go : t.work[i].at = "absent"
  BY DEF TableInv
<1>7. RunningOf(u) = RunningOf(t) \cup go /\ RunningOf(t) \cap go = {}
  BY <1>1, <1>5, <1>6 DEF Fills, RunningOf, Running, Restarting, Fresh
<1>8. Count(u) = Count(t) + Cardinality(go) /\ Cardinality(go) \in Nat
  BY <1>1, <1>4, <1>7, CountMore, Finite
<1>9. ASSUME Count(u) <= maxProcesses
      PROVE  TableInv(u)
  <2>1. \A i \in Managed : /\ u.work[i].at \in Restarting => i \in Service
                           /\ u.work[i].at = "dropped" => i \in Session
    BY <1>5 DEF TableInv, Fills, Fresh, Restarting
  <2>4. t.pending \subseteq Managed
    BY <1>1 DEF Table, Managed
  <2>2. /\ u.unstartable \subseteq u.pending
        /\ \A i \in u.pending : u.work[i].at = "absent" /\ i \notin u.alive
    BY <1>1, <1>4, <1>5, <2>4 DEF TableInv, Fills
  <2>3. \A i \in u.alive : Recorded(u, i)
    BY <1>1, <1>4, <1>5 DEF TableInv, Fills, Fresh, Recorded, Running, Table
  <2> QED
    BY <1>4, <1>9, <2>1, <2>2, <2>3 DEF TableInv
<1> QED
  BY <1>4, <1>5, <1>8, <1>9 DEF u

LEMMA FillSlotsFields ==
    ASSUME NEW t, TableInv(t), NEW u \in FillSlots(t)
    PROVE  /\ TableInv(u) /\ \E go \in SUBSET (t.pending \ t.unstartable) : Fills(t, u, go)
           /\ Count(u) = maxProcesses \/ u.pending \subseteq u.unstartable
<1>1. t \in Table /\ Count(t) <= maxProcesses /\ Count(t) \in Nat /\ maxProcesses \in Nat
  BY CountFields, ProcessesAssumption DEF TableInv
<1>2. CASE Count(t) >= maxProcesses
  <2>1. u = t
    BY <1>2 DEF FillSlots
  <2>2. Fills(t, t, {})
    BY DEF Fills
  <2> QED
    BY <1>1, <1>2, <2>1, <2>2
<1>3. CASE ~(Count(t) >= maxProcesses)
  <2> DEFINE eligible == t.pending \ t.unstartable
  <2>1. PICK go \in SUBSET eligible, bad \in SUBSET eligible :
           /\ u = Launched(t, go, bad) /\ go \cap bad = {}
           /\ Count(t) + Cardinality(go) <= maxProcesses
           /\ go \cup bad = eligible \/ Count(t) + Cardinality(go) = maxProcesses
    BY <1>3 DEF FillSlots
  <2>2. /\ Fills(t, u, go) /\ u.unstartable = t.unstartable \cup bad
        /\ Count(u) = Count(t) + Cardinality(go) /\ TableInv(u)
    BY <2>1, LaunchedFields
  <2>3. go \cup bad = eligible => u.pending \subseteq u.unstartable
    BY <2>2 DEF Fills
  <2> QED
    BY <2>1, <2>2, <2>3
<1> QED
  BY <1>2, <1>3

LEMMA DrainsFields ==
    ASSUME NEW t, TableInv(t), NEW u \in Drains(t)
    PROVE  /\ TableInv(u)
           /\ \E go \in SUBSET (t.pending \ t.unstartable) : Fills(t, u, go) /\ (Frozen => go = {} /\ u = t)
           /\ ~Frozen => Count(u) = maxProcesses \/ u.pending \subseteq u.unstartable
<1>1. CASE Frozen
  <2>1. u = t
    BY <1>1 DEF Drains
  <2>2. Fills(t, t, {})
    BY DEF Fills
  <2> QED
    BY <1>1, <2>1, <2>2
<1>2. CASE ~Frozen
  <2>1. u \in FillSlots(t)
    BY <1>2 DEF Drains
  <2> QED
    BY <1>2, <2>1, FillSlotsFields
<1> QED
  BY <1>1, <1>2
-----------------------------------------------------------------------------
(* A step in which nothing starts but what waits.                          *)

\* A service that runs, or would run again.
Restless(t, i) == t.work[i].at \in Restarting \/ (t.work[i].at = "live" /\ ~t.work[i].told)

Shrunk(t, u) ==
    /\ u \in Table
    /\ \A i \in Managed :
          /\ u.work[i].at \in Running => t.work[i].at \in Running
          /\ u.work[i].at = "limbo" => t.work[i].at = "limbo"
          /\ u.work[i].at = "absent" <=> t.work[i].at = "absent"
          /\ t.work[i].at = "gone" => u.work[i].at = "gone"
          /\ u.work[i].at \in Restarting => i \in Service
          /\ u.work[i].at = "dropped" => i \in Session
          /\ i \in Service /\ Restless(u, i) => Restless(t, i)
    /\ u.terminals \subseteq t.terminals /\ u.pending \subseteq t.pending
    /\ u.unstartable = t.unstartable \cap u.pending /\ u.alive \subseteq t.alive
    /\ \A i \in u.alive : Recorded(t, i) => Recorded(u, i)

LEMMA ShrunkInv ==
    ASSUME NEW t, NEW u, TableInv(t), Shrunk(t, u)
    PROVE  TableInv(u) /\ Count(u) <= Count(t)
<1>1. /\ t \in Table /\ u \in Table /\ Count(t) <= maxProcesses /\ Service \subseteq Managed
      /\ u.pending \subseteq Managed /\ u.alive \subseteq Managed
  BY DEF TableInv, Shrunk, Table, Managed
<1>2. RunningOf(u) \subseteq RunningOf(t) /\ u.terminals \subseteq t.terminals
  BY DEF Shrunk, RunningOf
<1>3. Count(u) <= Count(t) /\ Count(u) \in Nat /\ Count(t) \in Nat
  BY <1>1, <1>2, CountLess, CountFields
<1>4. Count(u) <= maxProcesses
  BY <1>1, <1>3, ProcessesAssumption
<1>5. /\ \A i \in u.pending : u.work[i].at = "absent" /\ i \notin u.alive
      /\ \A i \in u.alive : Recorded(u, i)
  BY <1>1 DEF TableInv, Shrunk
<1> QED
  BY <1>1, <1>3, <1>4, <1>5 DEF TableInv, Shrunk

LEMMA TypeFacts ==
    ASSUME IInv
    PROVE  /\ table \in Table /\ TableInv(table) /\ mode \in {"off", "loading", "on", "closing"}
           /\ Count(table) \in Nat /\ maxProcesses \in Nat /\ Count(table) <= maxProcesses
           /\ Session \subseteq Managed /\ Task \subseteq Managed /\ Service \subseteq Managed
           /\ definitions \subseteq Service /\ stopped \subseteq Service /\ kept \subseteq Service
           /\ bulk.on \in BOOLEAN /\ bulk.failed \in BOOLEAN /\ bulk.todo \subseteq Managed \cup Terminal
           /\ revocation.sessions \subseteq Session /\ revocation.terminals \subseteq Terminal
BY CountFields, ProcessesAssumption DEF IInv, TableInv, TypeOK, Managed

\* The step of the table alone: something ends, and what waits may start.
Turned(t) ==
    /\ Shrunk(table, t)
    /\ \/ table' \in Drains(t)
       \/ /\ table' = t
          /\ mode = "on" /\ ~bulk.on /\ Waiting # {} => Count(t) = Count(table)

LEMMA TurnedFields ==
    ASSUME IInv, NEW t, Turned(t)
    PROVE  /\ TableInv(t) /\ TableInv(table') /\ table' \in Table
           /\ \E go \in SUBSET (t.pending \ t.unstartable) :
                 Fills(t, table', go) /\ (Frozen => go = {} /\ table' = t)
           /\ mode = "on" /\ ~bulk.on => \/ Count(table') = maxProcesses
                                         \/ table'.pending \subseteq table'.unstartable
                                         \/ table' = t /\ (Waiting # {} => Count(t) = Count(table))
<1>1. TableInv(t)
  BY TypeFacts, ShrunkInv DEF Turned
<1>2. CASE table' \in Drains(t)
  BY <1>1, <1>2, DrainsFields DEF Frozen, TableInv
<1>3. CASE table' = t /\ (mode = "on" /\ ~bulk.on /\ Waiting # {} => Count(t) = Count(table))
  <2>1. Fills(t, t, {})
    BY DEF Fills
  <2> QED
    BY <1>1, <1>3, <2>1 DEF TableInv
<1> QED
  BY <1>2, <1>3 DEF Turned

LEMMA TurnedWait ==
    ASSUME IInv, NEW t, Turned(t), mode' = mode, bulk'.on = bulk.on, kept \subseteq kept'
    PROVE  WaitInv'
<1>1. PICK go \in SUBSET (t.pending \ t.unstartable) : Fills(t, table', go)
  BY TurnedFields
<1>2. go \subseteq Service /\ Service \cap Session = {} /\ Session \subseteq Managed
  BY ProcessesAssumption, TypeFacts DEF Turned, Shrunk, Table
<1>3. Waiting' \subseteq Waiting
  BY <1>1 DEF Waiting, Turned, Shrunk, Fills
<1>4. table'.terminals # {} => table.terminals # {}
  BY <1>1 DEF Turned, Shrunk, Fills
<1>5. \A i \in Session : table'.work[i].at # "absent" => table.work[i].at # "absent"
  BY <1>1, <1>2 DEF Turned, Shrunk, Fills
<1>6. mode' = "on" /\ ~bulk'.on /\ Waiting' # {} => Count(table') = maxProcesses
  BY <1>3, TurnedFields DEF IInv, WaitInv, Waiting
<1> QED
  BY <1>3, <1>4, <1>5, <1>6 DEF IInv, WaitInv

LEMMA TurnedSaved ==
    ASSUME IInv, NEW t, Turned(t), mode' = mode,
           t.pending \subseteq definitions', definitions' \subseteq definitions \cup (kept' \ stopped),
           kept \subseteq kept',
           \A i \in definitions' : /\ i \in table.pending => i \in t.pending \cup kept'
                                   /\ Recorded(table, i) => Recorded(t, i),
           \A i \in stopped' \ stopped :
              i \in Service /\ i \notin definitions' /\ i \notin t.alive /\ t.work[i].at \in {"absent", "gone"}
    PROVE  SavedInv'
<1>1. PICK go \in SUBSET (t.pending \ t.unstartable) : Fills(t, table', go)
  BY TurnedFields
<1>2. Service \subseteq Managed /\ stopped \subseteq Service /\ definitions \subseteq Service
  BY TypeFacts
<1>3. \A i \in stopped' : /\ i \notin definitions' /\ i \notin t.alive /\ i \in Service
                          /\ t.work[i].at \in {"absent", "gone"}
  BY <1>2 DEF IInv, SavedInv, StoppedForGood, Turned, Shrunk
<1>4. StoppedForGood'
  BY <1>1, <1>2, <1>3 DEF StoppedForGood, Fills
<1>5. table'.pending \subseteq definitions'
  BY <1>1 DEF Fills
<1>6. \A i \in definitions' : i \in table.pending \cup kept \/ Recorded(table, i)
                              => i \in table'.pending \cup kept' \/ Recorded(table', i)
  BY <1>1, <1>2 DEF Fills, Recorded, Fresh, Running
<1> QED
  BY <1>4, <1>5, <1>6 DEF IInv, SavedInv

LEMMA TurnedBulk ==
    ASSUME IInv, NEW t, Turned(t), mode' = mode, bulk' = bulk,
           \A i \in Managed : BulkStops(i) => BulkStops(i)',
           definitions' \subseteq definitions \cup kept', kept \subseteq kept'
    PROVE  BulkInv'
<1>1. PICK go \in SUBSET (t.pending \ t.unstartable) :
           Fills(t, table', go) /\ (Frozen => go = {} /\ table' = t)
  BY TurnedFields
<1>2. Service \subseteq Managed /\ definitions \subseteq Service
  BY TypeFacts
<1>3. CASE bulk.on
  <2>1. table' = t
    BY <1>1, <1>3 DEF Frozen
  <2>2. \A i \in Service : Restless(t, i) => Restless(table, i)
    BY <1>2 DEF Turned, Shrunk
  <2>3. \A i \in Service : Restless(t, i) => i \in bulk.todo \/ mode = "closing"
    BY <1>3, <2>2 DEF IInv, BulkInv, Restless
  <2>4. t.pending \subseteq bulk.todo \cup kept'
    BY <1>3 DEF IInv, BulkInv, Turned, Shrunk
  <2>5. ~bulk.failed => /\ \A i \in Managed : t.work[i].at \in Running => i \in bulk.todo \/ BulkStops(i)'
                        /\ t.terminals \cup t.pending \subseteq bulk.todo
    BY <1>3 DEF IInv, BulkInv, Turned, Shrunk
  <2>6. ~bulk.failed /\ mode = "on" => \A i \in definitions' : i \in kept' \cup bulk.todo \/ BulkStops(i)'
    BY <1>2, <1>3 DEF IInv, BulkInv
  <2> QED
    BY <1>3, <2>1, <2>3, <2>4, <2>5, <2>6 DEF BulkInv, Restless
<1>4. CASE ~bulk.on
  BY <1>1, <1>2, <1>4 DEF IInv, BulkInv, Turned, Shrunk, Fills, Fresh
<1> QED
  BY <1>3, <1>4

LEMMA Turning ==
    ASSUME IInv, NEW t, Turned(t), mode \in {"on", "closing"}, mode' = mode, bulk'.on = bulk.on,
           t.pending \subseteq definitions', definitions' \subseteq definitions \cup (kept' \ stopped),
           kept \subseteq kept',
           \A i \in definitions' : /\ i \in table.pending => i \in t.pending \cup kept'
                                   /\ Recorded(table, i) => Recorded(t, i),
           \A i \in stopped' \ stopped :
              i \in Service /\ i \notin definitions' /\ i \notin t.alive /\ t.work[i].at \in {"absent", "gone"},
           TypeOK', BulkInv'
    PROVE  IInv'
<1>1. TableInv(table)' /\ WaitInv' /\ SavedInv'
  BY TurnedFields, TurnedWait, TurnedSaved
<1>2. ModeInv'
  BY DEF ModeInv
<1> QED
  BY <1>1, <1>2 DEF IInv

RecordTypes ==
    history' \in [Task -> TaskStatus] /\ journal' \in [Task -> TaskStatus] /\ torn' \in BOOLEAN

\* Only the table and the records of tasks change.
LEMMA Settling ==
    ASSUME IInv, NEW t, Turned(t), mode \in {"on", "closing"},
           UNCHANGED <<mode, bulk, definitions, stopped, kept>>, t.pending = table.pending,
           stopping' \in [{"stop", "bulk"} -> [Managed -> {"no", "killing", "fencing"}]],
           \A i \in Managed : BulkStops(i) => BulkStops(i)',
           revocation' \in [phase : {"no", "terminals", "groups"}, sessions : SUBSET Session,
                            terminals : SUBSET Terminal],
           \A i \in Service : Recorded(table, i) => Recorded(t, i),
           RecordTypes
    PROVE  IInv'
<1>1. definitions \subseteq Service /\ table' \in Table /\ table'.unstartable \subseteq table'.pending
  BY TypeFacts, TurnedFields DEF TableInv
<1>2. t.pending \subseteq definitions
  BY DEF IInv, SavedInv
<1>3. BulkInv'
  BY TurnedBulk
<1>4. TypeOK'
  BY <1>1 DEF IInv, TypeOK, Table, RecordTypes
<1> QED
  BY <1>1, <1>2, <1>3, <1>4, Turning

LEMMA CompactedFields ==
    ASSUME NEW h \in [Task -> TaskStatus], NEW g \in Compacted(h)
    PROVE  /\ g \in [Task -> TaskStatus]
           /\ \A i \in Task : g[i] = h[i] \/ (h[i] \in {"exited", "interrupted"} /\ g[i] = "none")
BY DEF Compacted, TaskStatus

LEMMA AppendsFields ==
    ASSUME IInv, NEW i \in Task, NEW status \in TaskStatus, NEW a \in Appends(i, status), Recording(a)
    PROVE  /\ RecordTypes /\ a.ok \in BOOLEAN
           /\ ~ShortWrites /\ ~torn =>
                 /\ ~torn'
                 /\ a.ok => \/ history' = [history EXCEPT ![i] = status] /\ journal' = [journal EXCEPT ![i] = status]
                            \/ /\ journal' \in Compacted([history EXCEPT ![i] = status])
                               /\ history' = [journal' EXCEPT ![i] = status]
                 /\ ~a.ok => history' = history /\ journal' \in {journal, [journal EXCEPT ![i] = status]}
<1> DEFINE latest == [history EXCEPT ![i] = status]
           appended == [journal EXCEPT ![i] = status]
<1>1. /\ history \in [Task -> TaskStatus] /\ journal \in [Task -> TaskStatus] /\ torn \in BOOLEAN
      /\ latest \in [Task -> TaskStatus] /\ appended \in [Task -> TaskStatus]
  BY DEF IInv, TypeOK
<1>2. \/ /\ journal' \in {journal, appended} /\ torn' \in BOOLEAN
         /\ history' = latest /\ a.ok = TRUE
         /\ ~torn => journal' = appended /\ ~torn'
      \/ /\ journal' \in {journal, appended} /\ torn' \in BOOLEAN
         /\ history' = history /\ a.ok = FALSE
         /\ ~ShortWrites /\ ~torn => ~torn'
      \/ \E h \in Compacted(latest) :
            journal' = h /\ torn' = FALSE /\ history' = [h EXCEPT ![i] = status] /\ a.ok = TRUE
  <2> DEFINE written == IF torn THEN journal ELSE appended
             Is(j, t, h, ok) == a.journal = j /\ a.torn = t /\ a.history = h /\ a.ok = ok
  <2> DEFINE Result(j, t, h, ok) == [journal |-> j, torn |-> t, history |-> h, ok |-> ok]
  <2>0. \A j, t, h, ok : a = Result(j, t, h, ok) => Is(j, t, h, ok)
    BY SMT
  <2>1. \/ Is(written, FALSE, latest, TRUE)
        \/ Is(written, FALSE, history, FALSE)
        \/ Is(journal, torn, history, FALSE)
        \/ \E h \in Compacted(latest) : Is(h, FALSE, [h EXCEPT ![i] = status], TRUE)
        \/ ShortWrites /\ Is(journal, TRUE, history, FALSE)
    <3>1. \/ a = Result(written, FALSE, latest, TRUE)
          \/ a = Result(written, FALSE, history, FALSE)
          \/ a = Result(journal, torn, history, FALSE)
          \/ \E h \in Compacted(latest) : a = Result(h, FALSE, [h EXCEPT ![i] = status], TRUE)
          \/ ShortWrites /\ a = Result(journal, TRUE, history, FALSE)
      BY DEF Appends
    <3> HIDE DEF Result, written, latest, appended, Is
    <3> QED
      BY <2>0, <3>1, Zenon
  <2>2. written \in {journal, appended} /\ (~torn => written = appended)
    OBVIOUS
  <2>3. torn \in BOOLEAN
    BY <1>1
  <2> HIDE DEF written, latest, appended
  <2>4. /\ journal' = a.journal /\ torn' = a.torn /\ history' = a.history
    BY DEF Recording
  <2>5. CASE Is(written, FALSE, latest, TRUE)
    BY <2>2, <2>4, <2>5, Zenon
  <2>6. CASE Is(written, FALSE, history, FALSE)
    BY <2>2, <2>4, <2>6, Zenon
  <2>7. CASE Is(journal, torn, history, FALSE)
    BY <2>3, <2>4, <2>7, Zenon
  <2>8. CASE \E h \in Compacted(latest) : Is(h, FALSE, [h EXCEPT ![i] = status], TRUE)
    BY <2>4, <2>8, Zenon
  <2>9. CASE ShortWrites /\ Is(journal, TRUE, history, FALSE)
    BY <2>4, <2>9, Zenon
  <2> QED
    BY <2>1, <2>5, <2>6, <2>7, <2>8, <2>9
<1> HIDE DEF latest, appended
<1>3. RecordTypes /\ a.ok \in BOOLEAN
  <2>1. \A h \in Compacted(latest) : h \in [Task -> TaskStatus] /\ [h EXCEPT ![i] = status] \in [Task -> TaskStatus]
    BY <1>1, CompactedFields
  <2> QED
    BY <1>1, <1>2, <2>1 DEF RecordTypes
<1>4. ASSUME ~ShortWrites, ~torn
      PROVE  /\ ~torn'
             /\ a.ok => \/ history' = latest /\ journal' = appended
                        \/ journal' \in Compacted(latest) /\ history' = [journal' EXCEPT ![i] = status]
             /\ ~a.ok => history' = history /\ journal' \in {journal, appended}
  BY <1>2, <1>4
<1> QED
  BY <1>3, <1>4 DEF latest, appended
-----------------------------------------------------------------------------
(* The runner starts and ends.                                             *)

LEMMA EndsFields ==
    ASSUME IInv, RunnerEnds, RecordTypes
    PROVE  IInv'
<1> DEFINE w == [i \in Managed |-> IF i \in Task /\ table.work[i].at # "absent"
                                   THEN [Absent EXCEPT !.at = "gone"] ELSE Absent]
<1>1. /\ mode' = "off" /\ table' = Emptied(table) /\ bulk' = NoBulk /\ stopping' = NothingStopping
      /\ revocation' = NoRevocation /\ kept' = {} /\ UNCHANGED <<definitions, stopped>>
  BY DEF RunnerEnds
<1>2. table' = [Empty EXCEPT !.work = w]
  BY <1>1 DEF Emptied
<1>3. \A i \in Managed : w[i] \in Work /\ w[i].at \in (IF i \in Task THEN {"absent", "gone"} ELSE {"absent"})
  BY DEF Work, Absent
<1>4. w \in [Managed -> Work]
  BY <1>3
<1> HIDE DEF w
<1>5. /\ table' \in Table /\ table'.work = w /\ table'.terminals = {} /\ table'.pending = {}
      /\ table'.unstartable = {} /\ table'.alive = {}
  BY <1>2, <1>4 DEF Empty, Table
<1>6. TypeOK'
  BY <1>1, <1>5 DEF IInv, TypeOK, Table, RecordTypes, NoBulk, NothingStopping, NoRevocation
<1>7. RunningOf(table') = {}
  BY <1>3, <1>5 DEF RunningOf, Running, Restarting
<1>8. Count(table') = 0
  <2>1. Cardinality(RunningOf(table')) = 0 /\ Cardinality(table'.terminals) = 0
    BY <1>5, <1>7, FS_EmptySet
  <2>2. Count(table') = Cardinality(RunningOf(table')) + Cardinality(table'.terminals)
    BY <1>5, CountFields
  <2> QED
    BY <2>1, <2>2
<1>9. TableInv(table')
  BY <1>3, <1>5, <1>8, ProcessesAssumption DEF TableInv, Restarting
<1>10. ModeInv'
  BY <1>1, <1>3, <1>5 DEF ModeInv
<1>11. SavedInv'
  <2>1. \A i \in Service : i \in Managed /\ i \notin Task
    BY ProcessesAssumption DEF Managed
  <2> QED
    BY <1>1, <1>3, <1>5, <2>1, TypeFacts DEF IInv, SavedInv, StoppedForGood
<1>12. WaitInv'
  <2>1. \A i \in Session : i \in Managed /\ i \notin Task
    BY ProcessesAssumption DEF Managed
  <2> QED
    BY <1>1, <1>3, <1>5, <2>1 DEF WaitInv
<1>13. BulkInv'
  <2>1. \A i \in Service : i \in Managed
    BY DEF Managed
  <2> QED
    BY <1>1, <1>3, <1>5, <2>1 DEF BulkInv, NoBulk
<1> QED
  BY <1>6, <1>9, <1>10, <1>11, <1>12, <1>13 DEF IInv

LEMMA ExitStep ==
    ASSUME IInv, Exit
    PROVE  IInv'
BY EndsFields DEF Exit, RecordTypes, IInv, TypeOK

\* A step before the runner serves.
LEMMA Loading ==
    ASSUME IInv, mode \in {"off", "loading"}, mode' = "loading", RecordTypes,
           UNCHANGED <<table, bulk, stopping, revocation, definitions, stopped, kept>>
    PROVE  IInv'
<1>1. TypeOK'
  BY DEF IInv, TypeOK, RecordTypes, ModeInv
<1>2. TableInv(table)'
  BY DEF IInv
<1>3. ModeInv' /\ SavedInv'
  BY DEF IInv, ModeInv, SavedInv, StoppedForGood, Recorded
<1>4. WaitInv'
  BY DEF IInv, ModeInv, WaitInv, Waiting
<1>5. BulkInv'
  BY DEF IInv, ModeInv, BulkInv, NoBulk
<1> QED
  BY <1>1, <1>2, <1>3, <1>4, <1>5 DEF IInv

LEMMA LoadStep ==
    ASSUME IInv, Load
    PROVE  IInv'
BY Loading DEF Load, RecordTypes, IInv, TypeOK

LEMMA MarkInterruptedStep ==
    ASSUME IInv, NEW i \in Task, MarkInterrupted(i)
    PROVE  IInv'
<1>1. PICK a \in Appends(i, "interrupted") :
         /\ Recording(a)
         /\ IF a.ok THEN UNCHANGED <<table, mode, bulk, stopping, revocation, definitions, stopped, kept>>
            ELSE RunnerEnds
  BY DEF MarkInterrupted
<1>2. RecordTypes /\ mode = "loading"
  BY <1>1, AppendsFields DEF MarkInterrupted, TaskStatus
<1> QED
  BY <1>1, <1>2, EndsFields, Loading
-----------------------------------------------------------------------------
(* Steps in which nothing starts but what waits.                           *)

\* A runner with anything at all serves.
LEMMA Serving ==
    ASSUME IInv,
           \/ \E i \in Managed : table.work[i].at \notin {"absent", "gone"}
           \/ table.alive # {} \/ table.terminals # {} \/ table.pending # {}
           \/ bulk.on \/ revocation.phase # "no"
           \/ \E op \in {"stop", "bulk"}, i \in Managed : stopping[op][i] # "no"
    PROVE  mode \in {"on", "closing"}
BY TypeFacts DEF IInv, ModeInv, NoBulk, NothingStopping, NoRevocation

\* Only the table changes.
LEMMA Quiet ==
    ASSUME IInv, NEW t, Turned(t), mode \in {"on", "closing"},
           UNCHANGED <<mode, bulk, stopping, revocation, files, stopped, kept>>,
           t.pending = table.pending,
           \A i \in Service : Recorded(table, i) => Recorded(t, i)
    PROVE  IInv'
<1>1. /\ RecordTypes
      /\ stopping' \in [{"stop", "bulk"} -> [Managed -> {"no", "killing", "fencing"}]]
      /\ revocation' \in [phase : {"no", "terminals", "groups"}, sessions : SUBSET Session,
                          terminals : SUBSET Terminal]
  BY DEF files, RecordTypes, IInv, TypeOK
<1>2. \A i \in Managed : BulkStops(i) => BulkStops(i)'
  BY DEF BulkStops
<1> QED
  BY <1>1, <1>2, Settling DEF files

\* What the entry of one command may become.
Lowered(v, w) ==
    /\ w \in Work
    /\ w.at \in Running => v.at \in Running
    /\ w.at = "limbo" => v.at = "limbo"
    /\ w.at = "absent" <=> v.at = "absent"
    /\ v.at = "gone" => w.at = "gone"
    /\ w.at = "dropped" => v.at = "dropped"
    /\ w.at \in Restarting \/ (w.at = "live" /\ ~w.told)
          => v.at \in Restarting \/ (v.at = "live" /\ ~v.told)

LEMMA EntryShrunk ==
    ASSUME NEW t, TableInv(t), NEW i \in Managed, NEW w, Lowered(t.work[i], w),
           w.at \in Restarting => i \in Service,
           i \in t.alive => w.at \in Running \cup {"done"}
    PROVE  LET u == [t EXCEPT !.work[i] = w] IN
           /\ Shrunk(t, u) /\ u \in Table /\ u.work[i] = w
           /\ \A j \in Managed : j # i => u.work[j] = t.work[j]
           /\ u.terminals = t.terminals /\ u.pending = t.pending
           /\ u.unstartable = t.unstartable /\ u.alive = t.alive
           /\ (w.at \in Running <=> t.work[i].at \in Running) => Count(u) = Count(t)
<1> DEFINE u == [t EXCEPT !.work[i] = w]
<1>1. t \in Table /\ w \in Work /\ t.unstartable \subseteq t.pending /\ t.alive \subseteq Managed
  BY DEF TableInv, Lowered, Table
<1>2. /\ u \in Table /\ u.work[i] = w
      /\ \A j \in Managed : j # i => u.work[j] = t.work[j]
      /\ u.terminals = t.terminals /\ u.pending = t.pending
      /\ u.unstartable = t.unstartable /\ u.alive = t.alive
  BY <1>1, EntryFields
<1> HIDE DEF u
<1>3. \A j \in Managed : /\ Lowered(t.work[j], u.work[j])
                         /\ u.work[j].at \in Restarting => j \in Service
                         /\ j \in t.alive /\ Recorded(t, j) => Recorded(u, j)
  <2> TAKE j \in Managed
  <2>1. CASE j = i
    BY <1>2, <2>1 DEF Recorded
  <2>2. CASE j # i
    <3>1. t.work[j] \in Work /\ u.work[j] = t.work[j]
      BY <1>1, <1>2, <2>2, WorkFields
    <3> QED
      BY <3>1 DEF Lowered, Recorded, TableInv
  <2> QED
    BY <2>1, <2>2
<1>4. Shrunk(t, u)
  BY <1>1, <1>2, <1>3 DEF Shrunk, Lowered, TableInv, Restless
<1>5. ASSUME w.at \in Running <=> t.work[i].at \in Running
      PROVE  Count(u) = Count(t)
  <2>1. RunningOf(u) = RunningOf(t)
    BY <1>2, <1>5 DEF RunningOf
  <2> QED
    BY <1>1, <1>2, <2>1, CountFields
<1> QED
  BY <1>2, <1>4, <1>5 DEF u

LEMMA StillShrunk ==
    ASSUME NEW t, TableInv(t)
    PROVE  Shrunk(t, t)
BY DEF Shrunk, TableInv

\* An entry is replaced, and nothing waits or the limit was not touched.
LEMMA EntryTurned ==
    ASSUME IInv, NEW i \in Managed, NEW w, Lowered(table.work[i], w),
           w.at \in Restarting => i \in Service,
           i \in table.alive => w.at \in Running \cup {"done"},
           \/ table' \in Drains([table EXCEPT !.work[i] = w])
           \/ /\ table' = [table EXCEPT !.work[i] = w]
              /\ w.at \in Running <=> table.work[i].at \in Running
    PROVE  LET t == [table EXCEPT !.work[i] = w] IN
           /\ Turned(t) /\ t.pending = table.pending /\ t.work[i] = w
           /\ \A j \in Managed : j # i => t.work[j] = table.work[j]
           /\ Recorded(table, i) /\ w.at \in Running \cup {"done"} =>
                 \A j \in Managed : Recorded(table, j) => Recorded(t, j)
<1> DEFINE t == [table EXCEPT !.work[i] = w]
<1>1. TableInv(table)
  BY DEF IInv
<1>2. /\ Shrunk(table, t) /\ t.work[i] = w /\ t.pending = table.pending
      /\ \A j \in Managed : j # i => t.work[j] = table.work[j]
      /\ (w.at \in Running <=> table.work[i].at \in Running) => Count(t) = Count(table)
  BY <1>1, EntryShrunk
<1>3. table' \in Drains(t) \/ (table' = t /\ (w.at \in Running <=> table.work[i].at \in Running))
  OBVIOUS
<1> HIDE DEF t
<1> QED
  <2>1. Turned(t)
    BY <1>2, <1>3 DEF Turned
  <2>2. Recorded(table, i) /\ w.at \in Running \cup {"done"} =>
           \A j \in Managed : Recorded(table, j) => Recorded(t, j)
    BY <1>2 DEF Recorded
  <2> QED
    BY <1>2, <2>1, <2>2 DEF t

LEMMA EntryQuiet ==
    ASSUME IInv, NEW i \in Managed, NEW w, Lowered(table.work[i], w),
           w.at \in Restarting => i \in Service,
           table.work[i].at \in Running \cup {"done", "dropped"},
           Recorded(table, i) => w.at \in Running \cup {"done"} \/ (i \notin Service /\ i \notin table.alive),
           \/ table' \in Drains([table EXCEPT !.work[i] = w])
           \/ /\ table' = [table EXCEPT !.work[i] = w]
              /\ w.at \in Running <=> table.work[i].at \in Running,
           UNCHANGED <<mode, bulk, stopping, revocation, files, stopped, kept>>
    PROVE  IInv'
<1> DEFINE t == [table EXCEPT !.work[i] = w]
<1>1. mode \in {"on", "closing"}
  BY Serving DEF Running, Restarting
<1>2. i \in table.alive => w.at \in Running \cup {"done"}
  <2>1. i \in table.alive => Recorded(table, i)
    BY DEF IInv, TableInv
  <2> QED
    BY <2>1
<1>3. /\ Turned(t) /\ t.pending = table.pending /\ t.work[i] = w
      /\ \A j \in Managed : j # i => t.work[j] = table.work[j]
  BY <1>2, EntryTurned
<1> HIDE DEF t
<1>4. \A j \in Service : Recorded(table, j) => Recorded(t, j)
  BY <1>3, TypeFacts DEF Recorded
<1> QED
  BY <1>1, <1>3, <1>4, Quiet

LEMMA AliveTurned ==
    ASSUME IInv, NEW i \in table.alive, table' = [table EXCEPT !.alive = @ \ {i}],
           UNCHANGED <<mode, bulk, stopping, revocation, files, stopped, kept>>
    PROVE  IInv'
<1> DEFINE t == [table EXCEPT !.alive = @ \ {i}]
<1>1. table \in Table /\ TableInv(table)
  BY TypeFacts
<1>2. /\ t \in Table /\ t.work = table.work /\ t.terminals = table.terminals /\ t.pending = table.pending
      /\ t.unstartable = table.unstartable /\ t.alive = table.alive \ {i} /\ table' = t
  BY <1>1 DEF Table
<1> HIDE DEF t
<1>3. Shrunk(table, t) /\ Count(t) = Count(table)
  BY <1>1, <1>2 DEF Shrunk, TableInv, Recorded, Count, Restless
<1>4. Turned(t) /\ mode \in {"on", "closing"}
  BY <1>2, <1>3, Serving DEF Turned
<1>5. \A j \in Service : Recorded(table, j) => Recorded(t, j)
  BY <1>2 DEF Recorded
<1> QED
  BY <1>2, <1>4, <1>5, Quiet

LEMMA GroupEndsStep ==
    ASSUME IInv, NEW i \in Managed, GroupEnds(i)
    PROVE  IInv'
BY AliveTurned DEF GroupEnds

LEMMA ToldFields ==
    ASSUME NEW v \in Work
    PROVE  /\ Lowered(v, v)
           /\ v.at = "live" => /\ Lowered(v, [v EXCEPT !.told = TRUE])
                              /\ [v EXCEPT !.told = TRUE].at = "live"
                              /\ [v EXCEPT !.told = TRUE].told
<1>1. Lowered(v, v)
  BY DEF Lowered
<1>2. /\ [v EXCEPT !.told = TRUE] \in Work /\ [v EXCEPT !.told = TRUE].at = v.at
      /\ [v EXCEPT !.told = TRUE].told
  BY DEF Work
<1> QED
  BY <1>1, <1>2 DEF Lowered, Running, Restarting

\* Some terminals end, and what runs may be told to.
LEMMA TerminalsTurned ==
    ASSUME IInv, NEW ended \in SUBSET Terminal, NEW told \in SUBSET Managed,
           table' = [table EXCEPT
                      !.terminals = @ \ ended,
                      !.work = [j \in Managed |-> IF j \in told /\ @[j].at = "live"
                                                  THEN [@[j] EXCEPT !.told = TRUE] ELSE @[j]]]
    PROVE  /\ Turned(table') /\ table'.pending = table.pending
           /\ table'.terminals = table.terminals \ ended
           /\ \A j \in Managed : table'.work[j].at = table.work[j].at
<1> DEFINE w == [j \in Managed |-> IF j \in told /\ table.work[j].at = "live"
                                   THEN [table.work[j] EXCEPT !.told = TRUE] ELSE table.work[j]]
<1>1. table \in Table /\ TableInv(table)
  BY TypeFacts
<1>2. \A j \in Managed : table.work[j] \in Work
  BY <1>1, WorkFields
<1>3. \A j \in Managed : Lowered(table.work[j], w[j]) /\ w[j].at = table.work[j].at
  BY <1>2, ToldFields
<1>4. w \in [Managed -> Work]
  BY <1>3 DEF Lowered
<1>5. table' = [table EXCEPT !.terminals = @ \ ended, !.work = w]
  BY <1>1 DEF Table
<1> HIDE DEF w
<1>6. /\ table' \in Table /\ table'.work = w /\ table'.terminals = table.terminals \ ended
      /\ table'.pending = table.pending /\ table'.unstartable = table.unstartable
      /\ table'.alive = table.alive
  BY <1>1, <1>4, <1>5 DEF Table
<1>7. Shrunk(table, table')
  <2>1. \A j \in Managed :
           /\ w[j].at = table.work[j].at
           /\ table.work[j].at \in Restarting => j \in Service
           /\ table.work[j].at = "dropped" => j \in Session
           /\ w[j].at = "live" /\ ~w[j].told =>
                 table.work[j].at \in Restarting \/ (table.work[j].at = "live" /\ ~table.work[j].told)
    BY <1>1, <1>3 DEF TableInv, Lowered
  <2>2. /\ table.alive \subseteq Managed /\ table.unstartable \subseteq table.pending
    BY <1>1 DEF TableInv, Table
  <2> QED
    BY <1>6, <2>1, <2>2 DEF Shrunk, Recorded, Restless
<1>8. Waiting # {} => Count(table') = Count(table)
  <2>1. Waiting # {} => table.terminals = {}
    BY DEF IInv, WaitInv
  <2>2. RunningOf(table') = RunningOf(table)
    BY <1>3, <1>6 DEF RunningOf
  <2>3. table.terminals = {} => table'.terminals = table.terminals
    BY <1>6
  <2>4. table'.terminals = table.terminals => Count(table') = Count(table)
    BY <1>1, <1>6, <2>2, CountFields
  <2> QED
    BY <2>1, <2>3, <2>4
<1> QED
  BY <1>3, <1>6, <1>7, <1>8 DEF Turned

LEMMA TerminalEndsStep ==
    ASSUME IInv, NEW x \in Terminal, TerminalEnds(x)
    PROVE  IInv'
<1> DEFINE ended == {x}
           told == {}
<1>0. ended \in SUBSET Terminal /\ told \in SUBSET Managed
  OBVIOUS
<1>1. table' = [table EXCEPT
                 !.terminals = @ \ ended,
                 !.work = [j \in Managed |-> IF j \in told /\ @[j].at = "live"
                                             THEN [@[j] EXCEPT !.told = TRUE] ELSE @[j]]]
  <2>1. table \in Table
    BY TypeFacts
  <2>2. table.work = [j \in Managed |-> table.work[j]]
    BY <2>1 DEF Table
  <2> QED
    BY <2>1, <2>2 DEF TerminalEnds, Table
<1> HIDE DEF ended, told
<1>2. /\ Turned(table') /\ table'.pending = table.pending
      /\ \A j \in Managed : table'.work[j].at = table.work[j].at
  BY <1>0, <1>1, TerminalsTurned
<1>3. mode \in {"on", "closing"}
  BY Serving DEF TerminalEnds
<1>4. \A j \in Service : Recorded(table, j) => Recorded(table', j)
  BY <1>2, TypeFacts DEF Recorded
<1> QED
  BY <1>2, <1>3, <1>4, Quiet DEF TerminalEnds

LEMMA DoneFields ==
    ASSUME NEW v \in Work, v.at \in Running
    PROVE  Lowered(v, Done) /\ Done.at = "done"
BY DEF Lowered, Done, Work, Running, Restarting

\* The entry of a command that runs is set to finished.
LEMMA CompletionsTurned ==
    ASSUME IInv, NEW i \in Managed, table.work[i].at \in Running, table' \in Completions(table, i)
    PROVE  \E t : /\ Turned(t) /\ t.pending = table.pending /\ t.work[i].at = "done"
                  /\ \A j \in Managed : /\ j # i => t.work[j] = table.work[j]
                                        /\ Recorded(table, j) => Recorded(t, j)
<1>1. table.work[i] \in Work
  BY TypeFacts, WorkFields
<1>2. Lowered(table.work[i], Done) /\ Done.at = "done"
  BY <1>1, DoneFields
<1>6. Done.at \notin Restarting
  BY <1>2 DEF Restarting
<1>3. table' \in Drains([table EXCEPT !.work[i] = Done])
  BY DEF Completions
<1>4. Recorded(table, i)
  BY DEF Recorded
<1> DEFINE t == [table EXCEPT !.work[i] = Done]
<1>5. /\ Turned(t) /\ t.pending = table.pending /\ t.work[i] = Done
      /\ \A j \in Managed : j # i => t.work[j] = table.work[j]
      /\ \A j \in Managed : Recorded(table, j) => Recorded(t, j)
  BY <1>2, <1>3, <1>4, <1>6, EntryTurned
<1> HIDE DEF t
<1> QED
  BY <1>2, <1>5

LEMMA TerminationsTurned ==
    ASSUME IInv, NEW i \in Managed, table' \in Terminations(table, i)
    PROVE  \E t : /\ Turned(t) /\ t.pending = table.pending /\ ~Restless(t, i)
                  /\ i \in Task => t.work[i].at = table.work[i].at
                  /\ \A j \in Managed : /\ j # i => t.work[j] = table.work[j]
                                        /\ Recorded(table, j) => Recorded(t, j)
<1>1. table.work[i] \in Work /\ TableInv(table)
  BY TypeFacts, WorkFields
<1>2. CASE table.work[i].at \in Restarting
  <2>1. table' \in Completions(table, i) /\ table.work[i].at \in Running
    BY <1>2 DEF Terminations, Running, Restarting
  <2>2. PICK t : /\ Turned(t) /\ t.pending = table.pending /\ t.work[i].at = "done"
                 /\ \A j \in Managed : /\ j # i => t.work[j] = table.work[j]
                                       /\ Recorded(table, j) => Recorded(t, j)
    BY <2>1, CompletionsTurned
  <2>3. ~Restless(t, i)
    BY <2>2 DEF Restless, Restarting
  <2>4. i \notin Task
    BY <1>1, <1>2, ProcessesAssumption DEF TableInv
  <2> QED
    BY <2>2, <2>3, <2>4
<1>3. CASE table.work[i].at = "live"
  <2> DEFINE w == [table.work[i] EXCEPT !.told = TRUE]
             t == [table EXCEPT !.work[i] = w]
  <2>1. Lowered(table.work[i], w) /\ w.at = "live" /\ w.told
    BY <1>1, <1>3, ToldFields
  <2>2. table' = t
    BY <1>1, <1>3 DEF Terminations, Restarting, TableInv, Table
  <2> HIDE DEF w
  <2>3. /\ Recorded(table, i) /\ w.at \in Running \cup {"done"}
        /\ w.at \in Running <=> table.work[i].at \in Running
        /\ w.at \notin Restarting
    BY <1>3, <2>1 DEF Recorded, Running, Restarting
  <2>4. /\ Turned(t) /\ t.pending = table.pending /\ t.work[i] = w
        /\ \A j \in Managed : j # i => t.work[j] = table.work[j]
        /\ \A j \in Managed : Recorded(table, j) => Recorded(t, j)
    BY <2>1, <2>2, <2>3, EntryTurned
  <2> HIDE DEF t
  <2>5. ~Restless(t, i)
    BY <2>1, <2>4 DEF Restless, Restarting
  <2> QED
    BY <1>3, <2>1, <2>4, <2>5
<1>4. CASE table.work[i].at \notin {"live"} \cup Restarting
  <2>1. table' = table
    BY <1>4 DEF Terminations
  <2>2. Turned(table) /\ ~Restless(table, i)
    BY <1>1, <1>4, <2>1, StillShrunk DEF Turned, Restless
  <2> QED
    BY <2>2
<1> QED
  BY <1>2, <1>3, <1>4
-----------------------------------------------------------------------------
(* What commands do by themselves.                                         *)

LEMMA BackoffFields ==
    ASSUME NEW v \in Work, v.at = "live", ~v.told
    PROVE  LET w == [v EXCEPT !.at = "backoff", !.tries = @ + 1] IN Lowered(v, w) /\ w.at = "backoff"
<1> DEFINE w == [v EXCEPT !.at = "backoff", !.tries = @ + 1]
<1>1. v \in [at : Running \cup {"absent", "done", "dropped", "gone"}, told : BOOLEAN, tries : Nat]
  BY DEF Work
<1>2. v.tries + 1 \in Nat /\ "backoff" \in Running
  BY <1>1 DEF Running, Restarting
<1>3. w \in Work /\ w.at = "backoff"
  BY <1>1, <1>2 DEF Work
<1> HIDE DEF w
<1>4. Lowered(v, w)
  BY <1>3 DEF Lowered, Running, Restarting
<1> QED
  BY <1>3, <1>4 DEF w

LEMMA CloseStep ==
    ASSUME IInv, NEW i \in Managed, NEW crashed \in BOOLEAN, Close(i, crashed)
    PROVE  IInv'
<1> DEFINE restarts == i \in Service /\ crashed /\ ~table.work[i].told /\ table.work[i].tries < maxAttempts[i]
<1>1. table.work[i].at = "live" /\ table.work[i] \in Work /\ table \in Table
  BY TypeFacts, WorkFields DEF Close
<1>2. mode \in {"on", "closing"} /\ table.work[i].at \in Running
  BY <1>1, Serving DEF Running
<1>3. ASSUME table' \in Completions(table, i), RecordTypes,
             UNCHANGED <<mode, bulk, stopping, revocation, definitions, stopped, kept>>
      PROVE  IInv'
  <2>1. PICK t : /\ Turned(t) /\ t.pending = table.pending
                 /\ \A j \in Managed : Recorded(table, j) => Recorded(t, j)
    BY <1>2, <1>3, CompletionsTurned
  <2>2. /\ stopping' \in [{"stop", "bulk"} -> [Managed -> {"no", "killing", "fencing"}]]
        /\ revocation' \in [phase : {"no", "terminals", "groups"}, sessions : SUBSET Session,
                            terminals : SUBSET Terminal]
    BY <1>3 DEF IInv, TypeOK
  <2>3. \A j \in Managed : BulkStops(j) => BulkStops(j)'
    BY <1>3 DEF BulkStops
  <2>4. \A j \in Service : Recorded(table, j) => Recorded(t, j)
    BY <2>1, TypeFacts
  <2> QED
    BY <1>2, <1>3, <2>1, <2>2, <2>3, <2>4, Settling
<1>4. CASE restarts
  <2> DEFINE w == [table.work[i] EXCEPT !.at = "backoff", !.tries = @ + 1]
  <2>1. Lowered(table.work[i], w) /\ w.at = "backoff"
    BY <1>1, <1>4, BackoffFields
  <2>2. table' = [table EXCEPT !.work[i] = w]
    BY <1>1, <1>4 DEF Close, Table
  <2> HIDE DEF w
  <2>3. UNCHANGED <<mode, bulk, stopping, revocation, files, stopped, kept>>
    BY <1>4 DEF Close
  <2>4. w.at \in Running /\ table.work[i].at \in Running /\ i \in Service
    BY <1>1, <1>4, <2>1 DEF Running, Restarting
  <2> QED
    BY <2>1, <2>2, <2>3, <2>4, EntryQuiet
<1>5. CASE ~restarts /\ i \in Task
  <2>1. PICK a \in Appends(i, "exited") :
          /\ Recording(a)
          /\ IF a.ok THEN /\ table' \in Completions(table, i)
                          /\ UNCHANGED <<mode, bulk, stopping, revocation, definitions, stopped, kept>>
             ELSE RunnerEnds
    BY <1>5 DEF Close
  <2>2. RecordTypes
    BY <1>5, <2>1, AppendsFields DEF TaskStatus
  <2> QED
    BY <1>3, <2>1, <2>2, EndsFields
<1>6. CASE ~restarts /\ i \notin Task
  <2>1. /\ table' \in Completions(table, i)
        /\ UNCHANGED <<mode, bulk, stopping, revocation, files, stopped, kept>>
    BY <1>6 DEF Close
  <2>2. RecordTypes
    BY <2>1 DEF files, RecordTypes, IInv, TypeOK
  <2> QED
    BY <1>3, <2>1, <2>2 DEF files
<1> QED
  BY <1>4, <1>5, <1>6

LEMMA CloseDroppedStep ==
    ASSUME IInv, NEW i \in Session, CloseDropped(i)
    PROVE  IInv'
<1> DEFINE w == [table.work[i] EXCEPT !.at = "gone"]
<1>1. /\ table.work[i].at = "dropped" /\ table.work[i] \in Work /\ table \in Table /\ i \in Managed
      /\ i \notin Service
  BY TypeFacts, WorkFields, ProcessesAssumption DEF CloseDropped
<1>2. Lowered(table.work[i], w) /\ w.at \notin Restarting
  BY <1>1 DEF Lowered, Work, Running, Restarting
<1>3. table' \in Drains([table EXCEPT !.work[i] = w])
  <2>1. [table EXCEPT !.work[i].at = "gone"] = [table EXCEPT !.work[i] = w]
    BY <1>1 DEF Table
  <2> QED
    BY <2>1 DEF CloseDropped
<1>4. ~Recorded(table, i)
  BY <1>1 DEF Recorded, Running, Restarting
<1> HIDE DEF w
<1> QED
  BY <1>1, <1>2, <1>3, <1>4, EntryQuiet DEF CloseDropped

LEMMA RestartDueStep ==
    ASSUME IInv, NEW i \in Service, RestartDue(i)
    PROVE  IInv'
<1> DEFINE w == [table.work[i] EXCEPT !.at = "fencing"]
<1>1. table.work[i].at = "backoff" /\ table.work[i] \in Work /\ table \in Table /\ i \in Managed
  BY TypeFacts, WorkFields DEF RestartDue
<1>2. Lowered(table.work[i], w) /\ w.at \in Running /\ table.work[i].at \in Running
  BY <1>1 DEF Lowered, Work, Running, Restarting
<1>3. table' = [table EXCEPT !.work[i] = w]
  BY <1>1 DEF RestartDue, Table
<1> HIDE DEF w
<1> QED
  BY <1>1, <1>2, <1>3, EntryQuiet DEF RestartDue

LEMMA LimitStep ==
    ASSUME IInv, NEW i \in Managed, Limit(i)
    PROVE  IInv'
<1>1. PICK t : /\ Turned(t) /\ t.pending = table.pending
               /\ \A j \in Managed : Recorded(table, j) => Recorded(t, j)
  BY TerminationsTurned DEF Limit
<1>2. mode \in {"on", "closing"}
  BY Serving DEF Limit, Running, Restarting
<1>3. \A j \in Service : Recorded(table, j) => Recorded(t, j)
  BY <1>1, TypeFacts
<1> QED
  BY <1>1, <1>2, <1>3, Quiet DEF Limit

\* Records are deleted that have no group any more.
LEMMA DeletedTurned ==
    ASSUME IInv, NEW some \in SUBSET Managed, some \cap table.alive = {}, table' = Deleted(table, some),
           \A i \in some : table.work[i].at \in {"done", "gone"} \/ i \in Session
    PROVE  /\ Turned(table') /\ table'.pending = table.pending /\ table'.alive = table.alive
           /\ \A j \in Managed \ some : table'.work[j] = table.work[j]
           /\ \A j \in some : table.work[j].at = "done" => table'.work[j].at = "gone"
           /\ \A j \in Task : table'.work[j].at = "live" <=> table.work[j].at = "live"
<1> DEFINE w == [j \in Managed |->
                  CASE j \in some /\ table.work[j].at = "done" -> [table.work[j] EXCEPT !.at = "gone"]
                    [] j \in some /\ table.work[j].at = "live" -> [table.work[j] EXCEPT !.at = "dropped"]
                    [] OTHER -> table.work[j]]
<1>1. table \in Table /\ TableInv(table) /\ Session \cap Task = {} /\ Task \subseteq Managed
  BY TypeFacts, ProcessesAssumption
<1>2. table' = [table EXCEPT !.work = w]
  BY <1>1 DEF Deleted, Table
<1>3. \A j \in Managed :
        /\ table.work[j] \in Work /\ w[j] \in Work
        /\ j \notin some => w[j] = table.work[j]
        /\ \/ w[j] = table.work[j] /\ (j \in some => table.work[j].at \notin {"done", "live"})
           \/ w[j].at = "gone" /\ table.work[j].at = "done" /\ j \in some
           \/ w[j].at = "dropped" /\ table.work[j].at = "live" /\ j \in some /\ j \in Session
  <2> TAKE j \in Managed
  <2>1. table.work[j] \in Work
    BY <1>1, WorkFields
  <2>2. CASE j \in some /\ table.work[j].at = "done"
    <3>1. w[j] = [table.work[j] EXCEPT !.at = "gone"]
      BY <2>2
    <3> QED
      BY <2>1, <2>2, <3>1 DEF Work
  <2>3. CASE j \in some /\ table.work[j].at = "live"
    <3>1. w[j] = [table.work[j] EXCEPT !.at = "dropped"]
      BY <2>3
    <3> QED
      BY <2>1, <2>3, <3>1 DEF Work
  <2>4. CASE j \notin some \/ table.work[j].at \notin {"done", "live"}
    <3>1. w[j] = table.work[j]
      BY <2>4
    <3> QED
      BY <2>1, <2>4, <3>1
  <2> QED
    BY <2>2, <2>3, <2>4
<1>4. w \in [Managed -> Work]
  BY <1>3
<1> HIDE DEF w
<1>5. /\ table' \in Table /\ table'.work = w /\ table'.terminals = table.terminals
      /\ table'.pending = table.pending /\ table'.unstartable = table.unstartable
      /\ table'.alive = table.alive
  BY <1>1, <1>2, <1>4, WorkFields
<1>6. Shrunk(table, table')
  <2>1. \A j \in Managed : /\ table.work[j].at \in Restarting => j \in Service
                           /\ table.work[j].at = "dropped" => j \in Session
    BY <1>1 DEF TableInv
  <2>2. /\ table.alive \subseteq Managed /\ table.unstartable \subseteq table.pending
    BY <1>1 DEF TableInv, Table
  <2>3. \A j \in table.alive : w[j] = table.work[j]
    BY <1>3, <2>2
  <2> QED
    BY <1>3, <1>5, <2>1, <2>2, <2>3 DEF Shrunk, Recorded, Restless, Running, Restarting
<1>7. Waiting # {} => Count(table') = Count(table)
  <2>1. ASSUME Waiting # {} PROVE RunningOf(table') = RunningOf(table)
    <3>1. \A j \in Session : table.work[j].at = "absent"
      BY <2>1 DEF IInv, WaitInv
    <3>2. \A j \in Managed : w[j].at \in Running <=> table.work[j].at \in Running
      BY <1>3, <3>1 DEF Running, Restarting
    <3> QED
      BY <1>5, <3>2 DEF RunningOf
  <2> QED
    BY <1>1, <1>5, <2>1, CountFields
<1> QED
  BY <1>1, <1>3, <1>5, <1>6, <1>7 DEF Turned

LEMMA DiscardStep ==
    ASSUME IInv, NEW i \in Managed, Discard(i)
    PROVE  IInv'
<1>1. /\ i \notin Service /\ table.work[i].at = "done" /\ i \notin table.alive
      /\ table' = Deleted(table, {i})
      /\ UNCHANGED <<mode, bulk, stopping, revocation, files, stopped, kept>>
  BY DEF Discard
<1>2. /\ Turned(table') /\ table'.pending = table.pending
      /\ \A j \in Managed \ {i} : table'.work[j] = table.work[j]
  <2> DEFINE some == {i}
  <2>1. /\ some \in SUBSET Managed /\ some \cap table.alive = {} /\ table' = Deleted(table, some)
        /\ \A j \in some : table.work[j].at \in {"done", "gone"}
    BY <1>1
  <2> HIDE DEF some
  <2>2. /\ Turned(table') /\ table'.pending = table.pending
        /\ \A j \in Managed \ some : table'.work[j] = table.work[j]
    BY <2>1, DeletedTurned
  <2> QED
    BY <2>2 DEF some
<1>3. mode \in {"on", "closing"}
  BY <1>1, Serving
<1>4. \A j \in Service : Recorded(table, j) => Recorded(table', j)
  BY <1>1, <1>2, TypeFacts DEF Recorded
<1> QED
  BY <1>1, <1>2, <1>3, <1>4, Quiet

\* A restart that goes on: the new process is in the same place.
LEMMA RestartStep ==
    ASSUME IInv, NEW i \in Service, Restart(i)
    PROVE  IInv'
<1>1. /\ table.work[i].at = "fencing" /\ i \in Managed /\ table \in Table /\ TableInv(table)
      /\ table.work[i] \in Work /\ table.work[i].at \in Running
      /\ UNCHANGED <<mode, bulk, stopping, revocation, files, stopped, kept>>
      /\ mode \in {"on", "closing"}
  BY TypeFacts, WorkFields, Serving DEF Restart, Running, Restarting
<1>2. CASE table' \in Completions(table, i)
  <2>1. PICK t : /\ Turned(t) /\ t.pending = table.pending
                 /\ \A j \in Managed : Recorded(table, j) => Recorded(t, j)
    BY <1>1, <1>2, CompletionsTurned
  <2>2. \A j \in Service : Recorded(table, j) => Recorded(t, j)
    BY <2>1, TypeFacts
  <2> QED
    BY <1>1, <2>1, <2>2, Quiet
<1>3. ASSUME NEW w \in Work, NEW more \in SUBSET {i},
             w.at = IF Frozen THEN "limbo" ELSE "live",
             Frozen => more = {},
             table' = [table EXCEPT !.work[i] = w, !.alive = @ \cup more]
      PROVE  IInv'
  <2>1. /\ table' \in Table /\ table'.work[i] = w
        /\ \A j \in Managed : j # i => table'.work[j] = table.work[j]
        /\ table'.terminals = table.terminals /\ table'.pending = table.pending
        /\ table'.unstartable = table.unstartable /\ table'.alive = table.alive \cup more
    BY <1>1, <1>3 DEF Table
  <2>2. w.at \in Running /\ (w.at = "limbo" <=> Frozen)
    BY <1>3 DEF Running, Restarting
  <2>3. Count(table') = Count(table) /\ Count(table') <= maxProcesses
    <3>1. RunningOf(table') = RunningOf(table)
      BY <1>1, <2>1, <2>2 DEF RunningOf
    <3> QED
      BY <1>1, <2>1, <3>1, CountFields, TypeFacts
  <2>4. TableInv(table')
    <3>1. \A j \in Managed : /\ table'.work[j].at \in Restarting => j \in Service
                             /\ table'.work[j].at = "dropped" => j \in Session
      BY <1>1, <2>1, <2>2 DEF TableInv, Running, Restarting
    <3>2. table.pending \subseteq Managed /\ table.alive \subseteq Managed /\ i \notin table.pending
      BY <1>1 DEF TableInv, Table, Managed
    <3>3. \A j \in table'.pending : table'.work[j].at = "absent" /\ j \notin table'.alive
      BY <1>1, <2>1, <3>2 DEF TableInv
    <3>4. \A j \in table'.alive : Recorded(table', j)
      BY <1>1, <2>1, <2>2, <3>2 DEF TableInv, Recorded
    <3> QED
      BY <1>1, <2>1, <2>3, <3>1, <3>3, <3>4 DEF TableInv
  <2>5. TypeOK'
    BY <1>1, <2>1, <2>4 DEF IInv, TypeOK, Table, TableInv, files
  <2>6. SavedInv'
    <3>1. i \notin stopped
      BY <1>1 DEF IInv, SavedInv, StoppedForGood
    <3>2. \A j \in definitions : Recorded(table, j) => Recorded(table', j)
      BY <2>1, <2>2, TypeFacts DEF Recorded
    <3>3. StoppedForGood'
      BY <1>1, <2>1, <3>1, TypeFacts DEF IInv, SavedInv, StoppedForGood, files
    <3> QED
      BY <1>1, <2>1, <3>2, <3>3 DEF IInv, SavedInv, files
  <2>7. WaitInv'
    <3>1. \A j \in Session : table'.work[j] = table.work[j]
      BY <2>1, ProcessesAssumption, TypeFacts
    <3> QED
      BY <1>1, <2>1, <2>3, <3>1 DEF IInv, WaitInv, Waiting
  <2>8. BulkInv'
    <3>1. CASE Frozen
      <4>1. \A j \in Service : table'.work[j].at \in Restarting \/ (table'.work[j].at = "live" /\ ~table'.work[j].told)
               => table.work[j].at \in Restarting \/ (table.work[j].at = "live" /\ ~table.work[j].told)
        BY <1>1, <2>1, TypeFacts DEF Restarting
      <4>2. \A j \in Managed : table'.work[j].at \in Running => table.work[j].at \in Running
        BY <1>1, <2>1
      <4>3. ~(mode # "closing" /\ ~bulk.on)
        BY <3>1 DEF Frozen
      <4> QED
        BY <1>1, <2>1, <4>1, <4>2, <4>3 DEF IInv, BulkInv, BulkStops, files
    <3>2. CASE ~Frozen
      <4>1. w.at # "limbo" /\ ~bulk.on
        BY <2>2, <3>2 DEF Frozen
      <4> QED
        BY <1>1, <2>1, <4>1, TypeFacts DEF IInv, BulkInv
    <3> QED
      BY <3>1, <3>2
  <2>9. ModeInv'
    BY <1>1 DEF ModeInv
  <2> QED
    BY <2>4, <2>5, <2>6, <2>7, <2>8, <2>9 DEF IInv
<1>4. CASE Frozen /\ table' = [table EXCEPT !.work[i].at = "limbo"]
  <2> DEFINE w == [table.work[i] EXCEPT !.at = "limbo"]
             more == {}
  <2>1. w \in Work /\ w.at = "limbo"
    BY <1>1 DEF Work, Running, Restarting
  <2>2. table' = [table EXCEPT !.work[i] = w, !.alive = @ \cup more]
    BY <1>1, <1>4 DEF Table
  <2>3. more \in SUBSET {i} /\ (Frozen => more = {})
    OBVIOUS
  <2> HIDE DEF w, more
  <2> QED
    BY <1>3, <1>4, <2>1, <2>2, <2>3
<1>5. CASE ~Frozen /\ table' = [table EXCEPT !.work[i].at = "live", !.alive = @ \cup {i}]
  <2> DEFINE w == [table.work[i] EXCEPT !.at = "live"]
             more == {i}
  <2>1. w \in Work /\ w.at = "live"
    BY <1>1 DEF Work, Running, Restarting
  <2>2. table' = [table EXCEPT !.work[i] = w, !.alive = @ \cup more]
    BY <1>1, <1>5 DEF Table
  <2>3. more \in SUBSET {i}
    OBVIOUS
  <2> HIDE DEF w, more
  <2> QED
    BY <1>3, <1>5, <2>1, <2>2, <2>3
<1> QED
  BY <1>2, <1>4, <1>5 DEF Restart
-----------------------------------------------------------------------------
(* Stopping one command.                                                   *)

StoppingType == [{"stop", "bulk"} -> [Managed -> {"no", "killing", "fencing"}]]

LEMMA StoppingFields ==
    ASSUME IInv, NEW op \in {"stop", "bulk"}, NEW i \in Managed, NEW v \in {"no", "killing", "fencing"},
           stopping' = [stopping EXCEPT ![op][i] = v]
    PROVE  /\ stopping' \in StoppingType
           /\ \A j \in Managed : BulkStops(j)' <=> IF op = "bulk" /\ j = i THEN v # "no" ELSE BulkStops(j)
BY DEF IInv, TypeOK, StoppingType, BulkStops

\* A step in which the table, what is saved and what stops change.
LEMMA Stopping ==
    ASSUME IInv, NEW t, Turned(t), mode \in {"on", "closing"},
           UNCHANGED <<mode, revocation, history, journal, torn>>, stopping' \in StoppingType,
           bulk'.on = bulk.on, bulk' \in [on : BOOLEAN, todo : SUBSET (Managed \cup Terminal), failed : BOOLEAN],
           t.pending \subseteq definitions', definitions' \subseteq definitions,
           kept \subseteq kept', kept' \subseteq Service,
           \A i \in definitions' : /\ i \in table.pending => i \in t.pending \cup kept'
                                   /\ Recorded(table, i) => Recorded(t, i),
           stopped \subseteq stopped',
           \A i \in stopped' \ stopped :
              i \in Service /\ i \notin definitions' /\ i \notin t.alive /\ t.work[i].at \in {"absent", "gone"},
           BulkInv'
    PROVE  IInv'
<1>1. /\ table' \in Table /\ table'.unstartable \subseteq table'.pending
      /\ definitions' \subseteq Service /\ stopped' \subseteq Service
  BY TypeFacts, TurnedFields DEF TableInv
<1>2. TypeOK'
  BY <1>1 DEF IInv, TypeOK, Table, StoppingType
<1> QED
  BY <1>2, Turning

\* A waiting service is disabled.
LEMMA DisableFields ==
    ASSUME IInv, NEW i, Disable(i)
    PROVE  /\ Turned(table') /\ mode \in {"on", "closing"} /\ i \in Service /\ i \in bulk.todo \cup {i}
           /\ table'.pending = table.pending \ {i} /\ table'.work = table.work
           /\ table'.terminals = table.terminals /\ table'.alive = table.alive
           /\ definitions' = definitions \ {i} /\ stopped' = stopped \cup {i}
           /\ i \notin table.alive /\ table.work[i].at = "absent"
<1>1. /\ table \in Table /\ TableInv(table) /\ i \in table.pending
      /\ table' = [table EXCEPT !.pending = @ \ {i}, !.unstartable = @ \ {i}]
      /\ definitions' = definitions \ {i} /\ stopped' = stopped \cup {i}
  BY TypeFacts DEF Disable
<1>2. /\ table' \in Table /\ table'.pending = table.pending \ {i} /\ table'.work = table.work
      /\ table'.terminals = table.terminals /\ table'.alive = table.alive
      /\ table'.unstartable = table.unstartable \ {i} /\ i \in Service
  BY <1>1 DEF Table
<1>3. Shrunk(table, table') /\ Count(table') = Count(table)
  BY <1>1, <1>2 DEF Shrunk, TableInv, Recorded, Restless, Count
<1>4. mode \in {"on", "closing"}
  BY <1>1, Serving
<1> QED
  BY <1>1, <1>2, <1>3, <1>4 DEF Turned, TableInv

LEMMA StopStep ==
    ASSUME IInv, NEW i \in Managed, Stop(i)
    PROVE  IInv'
<1>1. /\ mode = "on" /\ UNCHANGED <<mode, bulk, revocation, history, journal, torn, kept>>
      /\ bulk' \in [on : BOOLEAN, todo : SUBSET (Managed \cup Terminal), failed : BOOLEAN]
      /\ kept' \subseteq Service
  BY DEF Stop, IInv, TypeOK
<1>2. CASE StopBegins("stop", i) /\ UNCHANGED <<definitions, stopped>>
  <2>1. PICK t : /\ Turned(t) /\ t.pending = table.pending
                 /\ \A j \in Managed : Recorded(table, j) => Recorded(t, j)
    BY <1>2, TerminationsTurned DEF StopBegins
  <2>2. PICK v \in {"no", "killing", "fencing"} : stopping' = [stopping EXCEPT !["stop"][i] = v]
    BY <1>2 DEF StopBegins
  <2>3. stopping' \in StoppingType /\ \A j \in Managed : BulkStops(j) => BulkStops(j)'
    <3> DEFINE op == "stop"
    <3>1. op \in {"stop", "bulk"} /\ op # "bulk" /\ stopping' = [stopping EXCEPT ![op][i] = v]
      BY <2>2
    <3> HIDE DEF op
    <3> QED
      BY <3>1, StoppingFields
  <2>4. BulkInv'
    BY <1>1, <1>2, <2>1, <2>3, TurnedBulk
  <2>5. t.pending \subseteq definitions /\ definitions \subseteq Managed
    BY <2>1, TypeFacts DEF IInv, SavedInv
  <2> QED
    BY <1>1, <1>2, <2>1, <2>3, <2>4, <2>5, Stopping
<1>3. CASE Disable(i) /\ UNCHANGED stopping
  <2>1. /\ Turned(table') /\ i \in Service
        /\ table'.pending = table.pending \ {i} /\ table'.work = table.work /\ table'.alive = table.alive
        /\ definitions' = definitions \ {i} /\ stopped' = stopped \cup {i}
        /\ i \notin table.alive /\ table.work[i].at = "absent"
    BY <1>3, DisableFields
  <2>2. stopping' \in StoppingType /\ \A j \in Managed : BulkStops(j) => BulkStops(j)'
    BY <1>3 DEF IInv, TypeOK, StoppingType, BulkStops
  <2>3. BulkInv'
    BY <1>1, <2>1, <2>2, TurnedBulk
  <2>4. table.pending \subseteq definitions
    BY DEF IInv, SavedInv
  <2>5. \A j : Recorded(table, j) => Recorded(table', j)
    BY <2>1 DEF Recorded
  <2> QED
    BY <1>1, <2>1, <2>2, <2>3, <2>4, <2>5, Stopping
<1> QED
  BY <1>2, <1>3 DEF Stop

\* What the end of a stop does to the table and to what is saved.
LEMMA StopEndsFields ==
    ASSUME IInv, NEW op \in {"stop", "bulk"}, NEW i \in Managed, StopEnds(op, i)
    PROVE  /\ Turned(table') /\ mode \in {"on", "closing"} /\ table'.pending = table.pending
           /\ \A j \in Managed : /\ table'.work[j].at \in Running => table.work[j].at \in Running
                                 /\ j # i => table'.work[j] = table.work[j]
                                 /\ j \in Task => (table'.work[j].at = "live" <=> table.work[j].at = "live")
           /\ \/ /\ definitions' = definitions \ {i} /\ bulk' = bulk
                 /\ stopped' = stopped \cup ({i} \cap Service)
                 /\ i \notin table'.alive /\ table'.work[i].at = "gone" /\ i \notin table.pending
              \/ /\ table' = table /\ stopped' = stopped /\ i \notin table.pending
                 /\ definitions' \in {definitions, definitions \ {i}}
                 /\ bulk' = IF op = "bulk" THEN [bulk EXCEPT !.failed = TRUE] ELSE bulk
<1>1. /\ table \in Table /\ TableInv(table) /\ stopping[op][i] # "no"
      /\ mode \in {"on", "closing"}
  BY TypeFacts, Serving DEF StopEnds
<1>2. CASE StopSucceeds(op, i) /\ UNCHANGED bulk
  <2> DEFINE some == {i}
  <2>1. /\ some \in SUBSET Managed /\ some \cap table.alive = {} /\ table' = Deleted(table, some)
        /\ \A j \in some : table.work[j].at \in {"done", "gone"}
        /\ table.work[i].at \in {"done", "gone"} /\ i \notin table.alive
        /\ definitions' = definitions \ {i} /\ stopped' = stopped \cup ({i} \cap Service)
    BY <1>2 DEF StopSucceeds, Finished
  <2>2. \A j \in Managed : j \in some <=> j = i
    OBVIOUS
  <2> HIDE DEF some
  <2>3. /\ Turned(table') /\ table'.pending = table.pending /\ table'.alive = table.alive
        /\ \A j \in Managed \ some : table'.work[j] = table.work[j]
        /\ \A j \in some : table.work[j].at = "done" => table'.work[j].at = "gone"
        /\ \A j \in Task : table'.work[j].at = "live" <=> table.work[j].at = "live"
    BY <2>1, DeletedTurned
  <2>4. table'.work[i].at = "gone"
    BY <2>1, <2>2, <2>3 DEF Turned, Shrunk
  <2>5. i \notin table.pending
    BY <1>1, <2>1 DEF TableInv
  <2> QED
    BY <1>1, <1>2, <2>1, <2>2, <2>3, <2>4, <2>5 DEF Turned, Shrunk
<1>3. CASE /\ StillRunning(i) \/ FenceThrows(op, i) \/ RemovalThrows(op, i) \/ DiscardThrows(op, i)
           /\ bulk' = IF op = "bulk" THEN [bulk EXCEPT !.failed = TRUE] ELSE bulk
  <2>1. /\ table' = table /\ stopped' = stopped /\ definitions' \in {definitions, definitions \ {i}}
    BY <1>3 DEF StillRunning, FenceThrows, RemovalThrows, DiscardThrows
  <2>2. i \notin table.pending
    BY <1>1, <1>3 DEF StillRunning, FenceThrows, RemovalThrows, DiscardThrows, Finished, TableInv
  <2>3. Turned(table')
    BY <1>1, <2>1, StillShrunk DEF Turned
  <2> QED
    BY <1>1, <1>3, <2>1, <2>2, <2>3
<1> QED
  BY <1>2, <1>3 DEF StopEnds

LEMMA StopEndsStep ==
    ASSUME IInv, NEW op \in {"stop", "bulk"}, NEW i \in Managed, StopEnds(op, i)
    PROVE  IInv'
<1>1. /\ Turned(table') /\ mode \in {"on", "closing"} /\ table'.pending = table.pending
      /\ \A j \in Managed : /\ table'.work[j].at \in Running => table.work[j].at \in Running
                            /\ j # i => table'.work[j] = table.work[j]
      /\ \/ /\ definitions' = definitions \ {i} /\ bulk' = bulk
            /\ stopped' = stopped \cup ({i} \cap Service)
            /\ i \notin table'.alive /\ table'.work[i].at = "gone" /\ i \notin table.pending
         \/ /\ table' = table /\ stopped' = stopped /\ i \notin table.pending
            /\ definitions' \in {definitions, definitions \ {i}}
            /\ bulk' = IF op = "bulk" THEN [bulk EXCEPT !.failed = TRUE] ELSE bulk
  BY StopEndsFields
<1>2. /\ UNCHANGED <<mode, revocation, history, journal, torn, kept>>
      /\ stopping' = [stopping EXCEPT ![op][i] = "no"]
  BY DEF StopEnds
<1>3. /\ stopping' \in StoppingType
      /\ \A j \in Managed : BulkStops(j)' <=> BulkStops(j) /\ ~(op = "bulk" /\ j = i)
  <2> DEFINE v == "no"
  <2>1. v \in {"no", "killing", "fencing"} /\ v = "no" /\ stopping' = [stopping EXCEPT ![op][i] = v]
    BY <1>2
  <2> HIDE DEF v
  <2> QED
    BY <2>1, StoppingFields
<1>4. /\ bulk'.on = bulk.on /\ bulk'.todo = bulk.todo
      /\ bulk' \in [on : BOOLEAN, todo : SUBSET (Managed \cup Terminal), failed : BOOLEAN]
      /\ bulk' = bulk \/ (op = "bulk" /\ bulk'.failed)
  <2>1. bulk' = bulk \/ (op = "bulk" /\ bulk' = [bulk EXCEPT !.failed = TRUE])
    BY <1>1
  <2>2. bulk \in [on : BOOLEAN, todo : SUBSET (Managed \cup Terminal), failed : BOOLEAN]
    BY DEF IInv, TypeOK
  <2> QED
    BY <2>1, <2>2
<1>5. Service \subseteq Managed /\ definitions \subseteq Managed /\ table.pending \subseteq definitions
  BY TypeFacts DEF IInv, SavedInv
<1>6. \A j \in Managed : j # i => (Recorded(table, j) => Recorded(table', j))
  BY <1>1 DEF Recorded
<1>7. \A j \in Service : Restless(table', j) => Restless(table, j)
  BY <1>1, <1>5 DEF Turned, Shrunk
<1>8. BulkInv'
  <2>1. CASE definitions' = definitions \ {i} /\ bulk' = bulk /\ table'.work[i].at = "gone"
    <3>1. table'.work[i].at \notin Running
      BY <2>1 DEF Running, Restarting
    <3>2. bulk.on => /\ \A j \in Service : Restless(table', j) => j \in bulk.todo \/ mode = "closing"
                     /\ table'.pending \subseteq bulk.todo \cup kept
      BY <1>1, <1>7 DEF IInv, BulkInv, Restless
    <3>3. bulk.on /\ ~bulk.failed =>
             /\ \A j \in Managed : table'.work[j].at \in Running => j \in bulk.todo \/ BulkStops(j)'
             /\ table'.terminals \cup table'.pending \subseteq bulk.todo
             /\ mode = "on" => \A j \in definitions' : j \in kept \cup bulk.todo \/ BulkStops(j)'
      BY <1>1, <1>3, <1>5, <2>1, <3>1 DEF IInv, BulkInv, Turned, Shrunk
    <3>4. mode # "closing" /\ ~bulk.on => \A j \in Service : table'.work[j].at # "limbo"
      BY <1>1, <1>5 DEF IInv, BulkInv, Turned, Shrunk
    <3> QED
      BY <1>2, <2>1, <3>2, <3>3, <3>4 DEF BulkInv, Restless
  <2>2. CASE table' = table /\ definitions' \in {definitions, definitions \ {i}}
    <3>1. ~bulk'.failed => bulk' = bulk /\ \A j \in definitions' : j \in definitions
      BY <1>4, <2>2
    <3>2. bulk.on => /\ \A j \in Service : Restless(table, j) => j \in bulk.todo \/ mode = "closing"
                     /\ table.pending \subseteq bulk.todo \cup kept
      BY DEF IInv, BulkInv, Restless
    <3>3. mode # "closing" /\ ~bulk.on => \A j \in Service : table.work[j].at # "limbo"
      BY DEF IInv, BulkInv
    <3>4. CASE bulk'.failed
      BY <1>2, <1>4, <2>2, <3>2, <3>3, <3>4 DEF BulkInv, Restless
    <3>5. CASE ~bulk'.failed
      <4>2. op = "bulk" => bulk'.failed \/ (definitions' = definitions \ {i} /\ table'.work[i].at = "gone")
        BY <1>1, <1>4 DEF IInv, TypeOK
      <4>3. CASE op # "bulk"
        <5>1. \A j \in Managed : BulkStops(j)' <=> BulkStops(j)
          BY <1>3, <4>3
        <5> QED
          BY <1>2, <1>5, <2>2, <3>1, <3>2, <3>3, <3>5, <5>1 DEF IInv, BulkInv, Restless
      <4>4. CASE op = "bulk"
        BY <2>1, <3>1, <3>5, <4>2, <4>4
      <4> QED
        BY <4>3, <4>4
    <3> QED
      BY <3>4, <3>5
  <2> QED
    BY <1>1, <2>1, <2>2
<1>9. /\ table'.pending \subseteq definitions' /\ definitions' \subseteq definitions
      /\ stopped \subseteq stopped'
      /\ \A j \in stopped' \ stopped : /\ j \in Service /\ j \notin definitions' /\ j \notin table'.alive
                                       /\ table'.work[j].at \in {"absent", "gone"}
  BY <1>1, <1>5
<1>10. \A j \in definitions' : /\ j \in table.pending => j \in table'.pending \cup kept'
                               /\ Recorded(table, j) => Recorded(table', j)
  BY <1>1, <1>5, <1>6
<1>11. kept \subseteq kept' /\ kept' \subseteq Service
  BY <1>2, TypeFacts
<1> QED
  BY <1>1, <1>2, <1>3, <1>4, <1>8, <1>9, <1>10, <1>11, Stopping
-----------------------------------------------------------------------------
(* Stopping everything.                                                    *)

\* What stays as it is when only the state of the operations changes.
LEMMA SameTable ==
    ASSUME IInv, mode \in {"on", "closing"}, UNCHANGED <<table, mode, definitions, stopped>>,
           kept \subseteq kept', kept' \subseteq Service
    PROVE  TableInv(table') /\ ModeInv' /\ SavedInv'
BY DEF IInv, ModeInv, SavedInv, StoppedForGood, Recorded

LEMMA StopAllStep ==
    ASSUME IInv, StopAll
    PROVE  IInv'
<1>1. /\ mode = "on" /\ ~bulk.on /\ bulk'.on /\ ~bulk'.failed
      /\ bulk'.todo = table.pending \cup table.terminals
                      \cup {i \in Managed : \/ table.work[i].at \in Running
                                            \/ i \in Service /\ table.work[i].at = "done"}
      /\ UNCHANGED <<table, mode, stopping, revocation, files, stopped, kept>>
  BY DEF StopAll
<1>2. table \in Table /\ Service \subseteq Managed /\ definitions \subseteq Service /\ kept \subseteq Service
  BY TypeFacts
<1>3. bulk' \in [on : BOOLEAN, todo : SUBSET (Managed \cup Terminal), failed : BOOLEAN]
  BY <1>2 DEF StopAll, Table
<1>4. TypeOK'
  BY <1>1, <1>3 DEF IInv, TypeOK, files
<1>5. TableInv(table') /\ ModeInv' /\ SavedInv'
  BY <1>1, <1>2, SameTable DEF files
<1>6. WaitInv'
  BY <1>1 DEF IInv, WaitInv, Waiting
<1>7. BulkInv'
  <2>1. \A i \in Managed : table.work[i].at \in Running => i \in bulk'.todo
    BY <1>1
  <2>2. \A i \in Service : table.work[i].at \in Restarting \cup {"live"} => i \in bulk'.todo
    BY <1>2, <2>1 DEF Running
  <2>3. \A i \in definitions : i \in kept \cup bulk'.todo
    <3>1. \A i \in definitions : i \in table.pending \cup kept \/ Recorded(table, i)
      BY <1>1 DEF IInv, SavedInv
    <3> QED
      BY <1>1, <1>2, <3>1 DEF Recorded
  <2> QED
    BY <1>1, <2>1, <2>2, <2>3 DEF BulkInv, files
<1> QED
  BY <1>4, <1>5, <1>6, <1>7 DEF IInv

LEMMA BulkEndsStep ==
    ASSUME IInv, BulkEnds
    PROVE  IInv'
<1>1. /\ bulk.on /\ bulk.todo = {} /\ bulk' = NoBulk
      /\ UNCHANGED <<table, mode, stopping, revocation, files, stopped, kept>>
      /\ mode \in {"on", "closing"}
  BY Serving DEF BulkEnds, BulkIdle
<1>2. TypeOK'
  BY <1>1 DEF IInv, TypeOK, files, NoBulk
<1>3. TableInv(table') /\ ModeInv' /\ SavedInv'
  BY <1>1, SameTable, TypeFacts DEF files
<1>4. Waiting = {}
  BY <1>1 DEF IInv, BulkInv, Waiting
<1>5. WaitInv'
  BY <1>1, <1>4 DEF WaitInv, Waiting
<1>6. mode # "closing" => \A i \in Service : table.work[i].at # "limbo"
  BY <1>1 DEF IInv, BulkInv, Restarting
<1>7. BulkInv'
  BY <1>1, <1>6 DEF BulkInv, NoBulk
<1> QED
  BY <1>2, <1>3, <1>5, <1>7 DEF IInv

\* A bulk stop is done with one item.
LEMMA BulkNext ==
    ASSUME IInv, bulk.on, NEW x \in bulk.todo,
           UNCHANGED <<mode, revocation, history, journal, torn>>,
           bulk' \in {[bulk EXCEPT !.todo = @ \ {x}], [bulk EXCEPT !.todo = @ \ {x}, !.failed = TRUE]}
    PROVE  /\ bulk'.on /\ bulk'.todo = bulk.todo \ {x} /\ mode \in {"on", "closing"}
           /\ bulk' \in [on : BOOLEAN, todo : SUBSET (Managed \cup Terminal), failed : BOOLEAN]
           /\ ~bulk'.failed => ~bulk.failed /\ bulk' = [bulk EXCEPT !.todo = @ \ {x}]
           /\ bulk' = [bulk EXCEPT !.todo = @ \ {x}, !.failed = TRUE] => bulk'.failed
<1>1. bulk \in [on : BOOLEAN, todo : SUBSET (Managed \cup Terminal), failed : BOOLEAN]
  BY DEF IInv, TypeOK
<1> QED
  BY <1>1, Serving

\* What is left after an item is left for the rest of the operation.
LEMMA BulkNextInv ==
    ASSUME IInv, bulk.on, NEW t, Turned(t), NEW x \in bulk.todo, mode' = mode,
           bulk'.on, bulk'.todo = bulk.todo \ {x}, ~bulk'.failed => ~bulk.failed,
           definitions' \subseteq definitions, kept \subseteq kept',
           \A i \in Managed : BulkStops(i) => BulkStops(i)',
           x \in Service => ~Restless(t, x),
           x \in t.pending => x \in kept',
           ~bulk'.failed => /\ x \in Managed /\ t.work[x].at \in Running => BulkStops(x)'
                            /\ x \notin t.terminals \cup t.pending
                            /\ x \in definitions' => x \in kept' \/ BulkStops(x)'
    PROVE  BulkInv'
<1>1. table' = t
  BY TurnedFields DEF Frozen
<1>2. Service \subseteq Managed /\ definitions \subseteq Managed
  BY TypeFacts
<1>3. \A i \in Service : Restless(t, i) => i \in bulk'.todo \/ mode = "closing"
  BY <1>2 DEF IInv, BulkInv, Turned, Shrunk, Restless
<1>4. t.pending \subseteq bulk'.todo \cup kept'
  BY DEF IInv, BulkInv, Turned, Shrunk
<1>5. ASSUME ~bulk'.failed
      PROVE  /\ \A i \in Managed : t.work[i].at \in Running => i \in bulk'.todo \/ BulkStops(i)'
             /\ t.terminals \cup t.pending \subseteq bulk'.todo
             /\ mode = "on" => \A i \in definitions' : i \in kept' \cup bulk'.todo \/ BulkStops(i)'
  <2>1. \A i \in Managed : t.work[i].at \in Running => i \in bulk'.todo \/ BulkStops(i)'
    BY <1>5 DEF IInv, BulkInv, Turned, Shrunk
  <2>2. t.terminals \cup t.pending \subseteq bulk'.todo
    BY <1>5 DEF IInv, BulkInv, Turned, Shrunk
  <2>3. mode = "on" => \A i \in definitions' : i \in kept' \cup bulk'.todo \/ BulkStops(i)'
    BY <1>2, <1>5 DEF IInv, BulkInv
  <2> QED
    BY <2>1, <2>2, <2>3
<1> QED
  BY <1>1, <1>3, <1>4, <1>5 DEF BulkInv, Restless

LEMMA BulkStepStep ==
    ASSUME IInv, NEW x \in Managed \cup Terminal, BulkStep(x)
    PROVE  IInv'
<1> DEFINE next == [bulk EXCEPT !.todo = @ \ {x}]
           error == [bulk EXCEPT !.todo = @ \ {x}, !.failed = TRUE]
<1>1. /\ bulk.on /\ x \in bulk.todo /\ mode \in {"on", "closing"}
      /\ UNCHANGED <<mode, revocation, history, journal, torn>>
  BY Serving DEF BulkStep, BulkIdle
<1>2. /\ table \in Table /\ TableInv(table) /\ Service \subseteq Managed /\ kept \subseteq Service
      /\ definitions \subseteq Service /\ table.pending \subseteq Service /\ table.terminals \subseteq Terminal
      /\ Terminal \cap Managed = {} /\ table.pending \subseteq definitions
      /\ stopping \in StoppingType
  BY TypeFacts, WorkFields, ProcessesAssumption DEF IInv, SavedInv, TypeOK, StoppingType
<1>3. ASSUME bulk' \in {next, error}
      PROVE  /\ bulk'.on /\ bulk'.todo = bulk.todo \ {x} /\ bulk'.on = bulk.on
             /\ bulk' \in [on : BOOLEAN, todo : SUBSET (Managed \cup Terminal), failed : BOOLEAN]
             /\ ~bulk'.failed => ~bulk.failed
             /\ bulk' = error => bulk'.failed
  <2>1. bulk \in [on : BOOLEAN, todo : SUBSET (Managed \cup Terminal), failed : BOOLEAN]
    BY DEF IInv, TypeOK
  <2> QED
    BY <1>1, <1>3, <2>1, BulkNext
<1>4. CASE Disable(x) /\ bulk' = next /\ UNCHANGED <<stopping, kept>>
  <2>1. /\ Turned(table') /\ x \in Service
        /\ table'.pending = table.pending \ {x} /\ table'.work = table.work
        /\ table'.terminals = table.terminals /\ table'.alive = table.alive
        /\ definitions' = definitions \ {x} /\ stopped' = stopped \cup {x}
        /\ x \notin table.alive /\ table.work[x].at = "absent"
    BY <1>4, DisableFields
  <2>2. /\ ~Restless(table', x) /\ table'.work[x].at \notin Running
        /\ \A j : Recorded(table, j) => Recorded(table', j)
    BY <2>1 DEF Restless, Recorded, Running, Restarting
  <2>3. \A j \in Managed : BulkStops(j) => BulkStops(j)'
    BY <1>4 DEF BulkStops
  <2>4. BulkInv'
    BY <1>1, <1>2, <1>3, <1>4, <2>1, <2>2, <2>3, BulkNextInv
  <2> QED
    BY <1>1, <1>2, <1>3, <1>4, <2>1, <2>2, <2>4, Stopping
<1>5. ASSUME UNCHANGED <<table, stopping, definitions, stopped>>, kept \subseteq kept', kept' \subseteq Service,
             bulk' \in {next, error},
             x \in table.pending => x \in kept',
             x \in Service => ~Restless(table, x),
             ~bulk'.failed => /\ x \in Managed => table.work[x].at \notin Running
                              /\ x \notin table.terminals \cup table.pending
                              /\ x \in definitions => x \in kept'
      PROVE  IInv'
  <2>1. Turned(table)
    BY <1>2, <1>5, StillShrunk DEF Turned
  <2>2. \A j \in Managed : BulkStops(j) => BulkStops(j)'
    BY <1>5 DEF BulkStops
  <2>3. BulkInv'
    BY <1>1, <1>3, <1>5, <2>1, <2>2, BulkNextInv
  <2> QED
    BY <1>1, <1>2, <1>3, <1>5, <2>1, <2>3, Stopping
<1>6. CASE /\ x \in table.pending /\ RemovalFails
           /\ bulk' = error /\ kept' = kept \cup {x}
           /\ UNCHANGED <<table, stopping, definitions, stopped>>
  <2>1. ~Restless(table, x)
    BY <1>2, <1>6 DEF TableInv, Restless, Restarting
  <2>2. bulk'.failed
    BY <1>3, <1>6
  <2> QED
    BY <1>2, <1>5, <1>6, <2>1, <2>2
<1>7. CASE /\ x \in Managed /\ StopBegins("bulk", x)
           /\ bulk' = next
           /\ UNCHANGED <<definitions, stopped, kept>>
  <2>1. PICK t : /\ Turned(t) /\ t.pending = table.pending /\ ~Restless(t, x)
                 /\ \A j \in Managed : Recorded(table, j) => Recorded(t, j)
    BY <1>7, TerminationsTurned DEF StopBegins
  <2>2. PICK v \in {"killing", "fencing"} : stopping' = [stopping EXCEPT !["bulk"][x] = v]
    BY <1>7 DEF StopBegins
  <2>3. stopping' \in StoppingType /\ BulkStops(x)' /\ \A j \in Managed : BulkStops(j) => BulkStops(j)'
    <3> DEFINE op == "bulk"
    <3>1. op \in {"stop", "bulk"} /\ op = "bulk" /\ stopping' = [stopping EXCEPT ![op][x] = v]
      BY <2>2
    <3> HIDE DEF op
    <3> QED
      BY <1>7, <2>2, <3>1, StoppingFields
  <2>4. x \notin table.pending /\ x \notin t.terminals
    <3>1. x \notin table.pending
      BY <1>2, <1>7 DEF StopBegins, TableInv, Recorded, Running, Restarting
    <3>2. t.terminals \subseteq table.terminals
      BY <2>1 DEF Turned, Shrunk
    <3> QED
      BY <1>2, <1>7, <3>1, <3>2
  <2>5. BulkInv'
    BY <1>1, <1>3, <1>7, <2>1, <2>3, <2>4, BulkNextInv
  <2> QED
    BY <1>1, <1>2, <1>3, <1>7, <2>1, <2>3, <2>5, Stopping
<1>8. CASE /\ x \in table.terminals
           /\ table' = [table EXCEPT !.terminals = @ \ {x}] /\ bulk' = next
           /\ UNCHANGED <<stopping, definitions, stopped, kept>>
  <2>1. /\ Turned(table') /\ table'.pending = table.pending /\ table'.terminals = table.terminals \ {x}
        /\ \A j \in Managed : table'.work[j].at = table.work[j].at
    <3> DEFINE ended == {x}
               told == {}
    <3>1. ended \in SUBSET Terminal /\ told \in SUBSET Managed
      BY <1>2, <1>8
    <3>2. table' = [table EXCEPT
                     !.terminals = @ \ ended,
                     !.work = [j \in Managed |-> IF j \in told /\ @[j].at = "live"
                                                 THEN [@[j] EXCEPT !.told = TRUE] ELSE @[j]]]
      <4>1. table.work = [j \in Managed |-> table.work[j]]
        BY <1>2 DEF Table
      <4> QED
        BY <1>2, <1>8, <4>1 DEF Table
    <3> HIDE DEF told, ended
    <3>3. /\ Turned(table') /\ table'.pending = table.pending /\ table'.terminals = table.terminals \ ended
          /\ \A j \in Managed : table'.work[j].at = table.work[j].at
      BY <3>1, <3>2, TerminalsTurned
    <3> QED
      BY <3>3 DEF ended
  <2>2. \A j \in Managed : /\ BulkStops(j) => BulkStops(j)'
                           /\ Recorded(table, j) => Recorded(table', j)
    BY <1>8, <2>1 DEF BulkStops, Recorded
  <2>3. x \notin Managed /\ x \notin Service /\ x \notin definitions /\ x \notin table.pending
    BY <1>2, <1>8
  <2>4. BulkInv'
    BY <1>1, <1>3, <1>8, <2>1, <2>2, <2>3, BulkNextInv
  <2> QED
    BY <1>1, <1>2, <1>3, <1>8, <2>1, <2>2, <2>4, Stopping
<1>9. CASE /\ x \in table.terminals /\ UNCHANGED table /\ bulk' = error
           /\ UNCHANGED <<stopping, definitions, stopped, kept>>
  <2>1. x \notin Service /\ x \notin table.pending /\ bulk'.failed
    BY <1>2, <1>3, <1>9
  <2> QED
    BY <1>2, <1>5, <1>9, <2>1
<1>10. CASE /\ x \notin table.pending \cup table.terminals
            /\ x \in Managed => ~Recorded(table, x)
            /\ bulk' = next
            /\ UNCHANGED <<table, stopping, definitions, stopped, kept>>
  <2>1. x \in Managed => table.work[x].at \notin Running /\ ~Restless(table, x)
    BY <1>10 DEF Recorded, Restless, Running
  <2>2. x \in definitions => x \in kept
    BY <1>1, <1>2, <1>10 DEF IInv, SavedInv
  <2> QED
    BY <1>2, <1>5, <1>10, <2>1, <2>2
<1> QED
  BY <1>4, <1>6, <1>7, <1>8, <1>9, <1>10 DEF BulkStep
-----------------------------------------------------------------------------
(* Ending the sessions of a lease.                                         *)

RevocationType ==
    [phase : {"no", "terminals", "groups"}, sessions : SUBSET Session, terminals : SUBSET Terminal]

\* The table and the revocation change.
LEMMA Revoking ==
    ASSUME IInv, Turned(table'), mode \in {"on", "closing"}, revocation' \in RevocationType,
           UNCHANGED <<mode, bulk, stopping, files, stopped, kept>>,
           table'.pending = table.pending,
           \A i \in Service : Recorded(table, i) => Recorded(table', i)
    PROVE  IInv'
<1>1. RecordTypes /\ stopping' \in StoppingType
  BY DEF files, RecordTypes, IInv, TypeOK, StoppingType
<1>2. \A i \in Managed : BulkStops(i) => BulkStops(i)'
  BY DEF BulkStops
<1> QED
  BY <1>1, <1>2, Settling DEF files, RevocationType, StoppingType

LEMMA RevokeStep ==
    ASSUME IInv, NEW o \in Owner, Revoke(o)
    PROVE  IInv'
<1>1. table' = table /\ table \in Table /\ TableInv(table)
  BY TypeFacts DEF Revoke
<1>2. Turned(table')
  BY <1>1, StillShrunk DEF Turned
<1>3. revocation' \in RevocationType
  BY <1>1 DEF Revoke, RevocationType, Table
<1> QED
  BY <1>1, <1>2, <1>3, Revoking DEF Revoke, Recorded

LEMMA RevocationTyped ==
    ASSUME IInv
    PROVE  /\ revocation \in RevocationType /\ NoRevocation \in RevocationType
           /\ [revocation EXCEPT !.phase = "groups"] \in RevocationType
BY DEF IInv, TypeOK, RevocationType, NoRevocation

LEMMA RevokeTerminalsStep ==
    ASSUME IInv, RevokeTerminals
    PROVE  IInv'
<1>1. /\ revocation.phase = "terminals" /\ revocation' \in RevocationType
      /\ UNCHANGED <<mode, bulk, stopping, files, stopped, kept>>
      /\ table \in Table /\ revocation.terminals \subseteq Terminal /\ revocation.sessions \subseteq Session
  BY RevocationTyped, TypeFacts DEF RevokeTerminals
<1>2. mode \in {"on", "closing"}
  BY <1>1, Serving
<1>3. PICK ended \in SUBSET Terminal, told \in SUBSET Managed :
        table' = [table EXCEPT
                   !.terminals = @ \ ended,
                   !.work = [j \in Managed |-> IF j \in told /\ @[j].at = "live"
                                               THEN [@[j] EXCEPT !.told = TRUE] ELSE @[j]]]
  <2>1. CASE table' = [table EXCEPT
                   !.terminals = @ \ revocation.terminals,
                   !.work = [i \in Managed |-> IF i \in revocation.sessions /\ @[i].at = "live"
                                               THEN [@[i] EXCEPT !.told = TRUE] ELSE @[i]]]
    <3>1. revocation.sessions \in SUBSET Managed
      BY <1>1 DEF Managed
    <3> QED
      BY <1>1, <2>1, <3>1
  <2>2. ASSUME NEW open \in SUBSET (revocation.terminals \cap table.terminals),
               table' = [table EXCEPT !.terminals = @ \ (revocation.terminals \ open)]
        PROVE  \E ended \in SUBSET Terminal, told \in SUBSET Managed :
                 table' = [table EXCEPT
                            !.terminals = @ \ ended,
                            !.work = [j \in Managed |-> IF j \in told /\ @[j].at = "live"
                                                        THEN [@[j] EXCEPT !.told = TRUE] ELSE @[j]]]
    <3> DEFINE end == revocation.terminals \ open
               none == {}
    <3>1. end \in SUBSET Terminal /\ none \in SUBSET Managed
      BY <1>1
    <3>2. table.work = [j \in Managed |-> table.work[j]]
      BY <1>1 DEF Table
    <3>3. table' = [table EXCEPT
                     !.terminals = @ \ end,
                     !.work = [j \in Managed |-> IF j \in none /\ @[j].at = "live"
                                                 THEN [@[j] EXCEPT !.told = TRUE] ELSE @[j]]]
      BY <1>1, <2>2, <3>2 DEF Table
    <3> HIDE DEF end, none
    <3> QED
      BY <3>1, <3>3
  <2> QED
    BY <2>1, <2>2 DEF RevokeTerminals
<1>4. /\ Turned(table') /\ table'.pending = table.pending
      /\ \A j \in Managed : table'.work[j].at = table.work[j].at
  BY <1>3, TerminalsTurned
<1>5. \A j \in Service : Recorded(table, j) => Recorded(table', j)
  BY <1>4, TypeFacts DEF Recorded
<1> QED
  BY <1>1, <1>2, <1>4, <1>5, Revoking

\* What either outcome does to the table.
LEMMA RevokeGroupsFields ==
    ASSUME IInv, RevokeGroups
    PROVE  /\ Turned(table') /\ table'.pending = table.pending
           /\ \A j \in Managed \ Session : table'.work[j] = table.work[j]
           /\ revocation' \in RevocationType /\ mode \in {"on", "closing"}
<1>1. /\ revocation' \in RevocationType /\ revocation.phase = "groups" /\ TableInv(table)
      /\ revocation.sessions \subseteq Session /\ revocation.sessions \in SUBSET Managed
  BY RevocationTyped, TypeFacts DEF RevokeGroups
<1>2. mode \in {"on", "closing"}
  BY <1>1, Serving
<1>3. CASE table' = table
  BY <1>1, <1>2, <1>3, StillShrunk DEF Turned
<1>4. CASE revocation.sessions \cap table.alive = {} /\ table' = Deleted(table, revocation.sessions)
  <2>1. /\ Turned(table') /\ table'.pending = table.pending
        /\ \A j \in Managed \ revocation.sessions : table'.work[j] = table.work[j]
    BY <1>1, <1>4, DeletedTurned
  <2> QED
    BY <1>1, <1>2, <2>1
<1> QED
  BY <1>3, <1>4 DEF RevokeGroups

LEMMA RevokeGroupsStep ==
    ASSUME IInv, RevokeGroups
    PROVE  IInv'
<1>1. /\ Turned(table') /\ table'.pending = table.pending
      /\ \A j \in Managed \ Session : table'.work[j] = table.work[j]
      /\ revocation' \in RevocationType /\ mode \in {"on", "closing"}
  BY RevokeGroupsFields
<1>2. \A j \in Service : Recorded(table, j) => Recorded(table', j)
  BY <1>1, TypeFacts, ProcessesAssumption DEF Recorded
<1> QED
  BY <1>1, <1>2, Revoking DEF RevokeGroups
-----------------------------------------------------------------------------
(* The runner stops, and begins to serve.                                  *)

LEMMA ShutdownShrunk ==
    ASSUME IInv, Shutdown
    PROVE  /\ Shrunk(table, table') /\ table'.pending = table.pending
           /\ table'.terminals = table.terminals /\ table'.alive = table.alive
           /\ \A i \in Managed : /\ Recorded(table, i) => Recorded(table', i)
                                 /\ i \in Task => table'.work[i].at = table.work[i].at
<1> DEFINE w == [i \in Managed |->
                    CASE table.work[i].at \in Restarting -> Done
                      [] table.work[i].at = "live" -> [table.work[i] EXCEPT !.told = TRUE]
                      [] OTHER -> table.work[i]]
<1>1. table \in Table /\ TableInv(table) /\ Task \cap Service = {}
  BY TypeFacts, ProcessesAssumption
<1>2. table' = [table EXCEPT !.work = w]
  BY <1>1 DEF Shutdown, Table
<1>3. \A i \in Managed : /\ Lowered(table.work[i], w[i]) /\ w[i].at \notin Restarting
                         /\ Recorded(table, i) => w[i].at \in Running \cup {"done"}
                         /\ i \in Task => w[i].at = table.work[i].at
  <2> TAKE i \in Managed
  <2>1. table.work[i] \in Work
    BY <1>1, WorkFields
  <2>2. CASE table.work[i].at \in Restarting
    <3>1. w[i] = Done
      BY <2>2 DEF Restarting
    <3>2. i \in Service /\ table.work[i].at \in Running
      BY <1>1, <2>2 DEF TableInv, Running
    <3> HIDE DEF w
    <3> QED
      BY <1>1, <2>1, <2>2, <3>1, <3>2, DoneFields DEF Restarting
  <2>3. CASE table.work[i].at = "live"
    <3>1. w[i] = [table.work[i] EXCEPT !.told = TRUE]
      BY <2>3 DEF Restarting
    <3>2. Lowered(table.work[i], w[i]) /\ w[i].at = "live"
      BY <2>1, <2>3, <3>1, ToldFields
    <3> HIDE DEF w
    <3> QED
      BY <2>3, <3>2 DEF Running, Restarting
  <2>4. CASE table.work[i].at \notin Restarting \cup {"live"}
    <3>1. w[i] = table.work[i]
      BY <2>4
    <3> HIDE DEF w
    <3> QED
      BY <2>1, <2>4, <3>1, ToldFields DEF Recorded
  <2> QED
    BY <2>2, <2>3, <2>4
<1>4. w \in [Managed -> Work]
  BY <1>3 DEF Lowered
<1> HIDE DEF w
<1>5. /\ table' \in Table /\ table'.work = w /\ table'.terminals = table.terminals
      /\ table'.pending = table.pending /\ table'.unstartable = table.unstartable
      /\ table'.alive = table.alive
  BY <1>1, <1>2, <1>4, WorkFields
<1>6. \A i \in Managed : w[i].at = "dropped" => i \in Session
  BY <1>1, <1>3 DEF Lowered, TableInv
<1>7. Shrunk(table, table')
  <2>1. table.alive \subseteq Managed /\ table.unstartable \subseteq table.pending
    BY <1>1 DEF TableInv, Table
  <2> QED
    BY <1>3, <1>5, <1>6, <2>1 DEF Shrunk, Lowered, Recorded, Restless
<1> QED
  BY <1>3, <1>5, <1>7 DEF Recorded

LEMMA ShutdownStep ==
    ASSUME IInv, Shutdown
    PROVE  IInv'
<1>1. /\ mode = "on" /\ mode' = "closing"
      /\ UNCHANGED <<bulk, stopping, revocation, definitions, history, journal, torn, stopped, kept>>
  BY DEF Shutdown
<1>2. /\ Shrunk(table, table') /\ table'.pending = table.pending
      /\ table'.terminals = table.terminals /\ table'.alive = table.alive
      /\ \A i \in Managed : Recorded(table, i) => Recorded(table', i)
  BY ShutdownShrunk
<1>3. /\ TableInv(table) /\ TableInv(table') /\ Service \subseteq Managed /\ Session \subseteq Managed
      /\ definitions \subseteq Service /\ stopped \subseteq Service
  BY <1>2, ShrunkInv, TypeFacts
<1>4. TypeOK'
  BY <1>1, <1>3 DEF IInv, TypeOK, TableInv, Table
<1>5. ModeInv'
  BY <1>1 DEF ModeInv
<1>6. SavedInv'
  <2>1. StoppedForGood'
    BY <1>1, <1>2, <1>3 DEF IInv, SavedInv, StoppedForGood, Shrunk
  <2> QED
    BY <1>1, <1>2, <1>3, <2>1 DEF IInv, SavedInv
<1>7. WaitInv'
  <2>1. Waiting' \subseteq Waiting
    BY <1>1, <1>2, <1>3 DEF Waiting, Shrunk, TableInv
  <2> QED
    BY <1>1, <1>2, <1>3, <2>1 DEF IInv, WaitInv, Shrunk
<1>8. BulkInv'
  <2>1. bulk.on /\ ~bulk.failed =>
           /\ \A i \in Managed : table'.work[i].at \in Running => i \in bulk.todo \/ BulkStops(i)
           /\ table'.terminals \cup table'.pending \subseteq bulk.todo
    BY <1>2 DEF IInv, BulkInv, Shrunk
  <2>2. bulk.on => table'.pending \subseteq bulk.todo \cup kept
    BY <1>2 DEF IInv, BulkInv
  <2> QED
    BY <1>1, <2>1, <2>2 DEF BulkInv, BulkStops
<1> QED
  BY <1>3, <1>4, <1>5, <1>6, <1>7, <1>8 DEF IInv

LEMMA ServeStep ==
    ASSUME IInv, Serve
    PROVE  IInv'
<1> DEFINE t == [table EXCEPT !.pending = definitions]
<1>1. /\ mode = "loading" /\ mode' = "on" /\ table' \in FillSlots(t)
      /\ UNCHANGED <<bulk, stopping, revocation, definitions, stopped, kept>>
      /\ table \in Table /\ TableInv(table) /\ definitions \subseteq Service /\ Service \subseteq Managed
      /\ Session \subseteq Managed /\ Task \cap Service = {} /\ Task \cap Session = {}
      /\ Session \cap Service = {} /\ stopped \subseteq Service
  BY TypeFacts, ProcessesAssumption DEF Serve
<1>2. RecordTypes
  <2>1. CASE UNCHANGED <<history, journal, torn>>
    BY <2>1 DEF RecordTypes, IInv, TypeOK
  <2>2. ASSUME NEW h \in Compacted(history), Recording([journal |-> h, torn |-> FALSE, history |-> h])
        PROVE  RecordTypes
    <3>1. history \in [Task -> TaskStatus]
      BY DEF IInv, TypeOK
    <3>2. h \in [Task -> TaskStatus]
      BY <3>1, CompactedFields
    <3> QED
      BY <2>2, <3>2 DEF RecordTypes, Recording
  <2> QED
    BY <2>1, <2>2 DEF Serve
<1>3. /\ t \in Table /\ t.work = table.work /\ t.terminals = {} /\ t.pending = definitions
      /\ t.unstartable = {} /\ t.alive = {}
  BY <1>1 DEF IInv, ModeInv, Table, TableInv
<1> HIDE DEF t
<1>4. /\ \A i \in Managed : t.work[i].at \in (IF i \in Task THEN {"absent", "gone"} ELSE {"absent"})
      /\ bulk = NoBulk /\ kept = {}
  BY <1>1, <1>3 DEF IInv, ModeInv
<1>5. TableInv(t)
  <2>1. Count(t) = Count(table)
    BY <1>1, <1>3 DEF Count, IInv, ModeInv
  <2> QED
    BY <1>1, <1>3, <1>4, <2>1 DEF TableInv, Restarting
<1>6. PICK go \in SUBSET definitions : Fills(t, table', go)
  BY <1>1, <1>3, <1>5, FillSlotsFields
<1>7. Count(table') = maxProcesses \/ table'.pending \subseteq table'.unstartable
  BY <1>1, <1>5, FillSlotsFields
<1>8. TableInv(table') /\ table' \in Table /\ table'.unstartable \subseteq table'.pending
  BY <1>1, <1>5, FillSlotsFields DEF TableInv
<1>9. TypeOK'
  BY <1>1, <1>2, <1>8 DEF IInv, TypeOK, Table, RecordTypes
<1>10. ModeInv'
  BY <1>1 DEF ModeInv
<1>11. SavedInv'
  <2>1. \A i \in stopped : i \notin definitions /\ i \notin go
    BY <1>6 DEF IInv, SavedInv, StoppedForGood
  <2>2. StoppedForGood'
    BY <1>1, <1>3, <1>4, <1>6, <2>1 DEF StoppedForGood, Fills
  <2>3. \A i \in definitions : i \in table'.pending \/ Recorded(table', i)
    BY <1>1, <1>3, <1>6 DEF Fills, Recorded, Fresh, Running
  <2> QED
    BY <1>1, <1>3, <1>6, <2>2, <2>3 DEF SavedInv, Fills
<1>12. WaitInv'
  <2>1. table'.terminals = {} /\ \A i \in Session : table'.work[i].at = "absent"
    BY <1>1, <1>3, <1>4, <1>6 DEF Fills
  <2>2. Waiting' # {} => Count(table') = maxProcesses
    BY <1>7 DEF Waiting
  <2> QED
    BY <2>1, <2>2 DEF WaitInv
<1>13. BulkInv'
  BY <1>1, <1>3, <1>4, <1>6 DEF BulkInv, NoBulk, Fills, Fresh
<1> QED
  BY <1>8, <1>9, <1>10, <1>11, <1>12, <1>13 DEF IInv
-----------------------------------------------------------------------------
(* Commands and terminals are started.                                     *)

\* What waits is tried first; when a slot is left, nothing waits that can
\* be started.
LEMMA Tried ==
    ASSUME IInv, NEW t \in Drains(table)
    PROVE  /\ TableInv(t) /\ t \in Table /\ \E go \in SUBSET table.pending : Fills(table, t, go)
           /\ \A i \in Managed : table.work[i].at = "absent" /\ i \notin table.pending =>
                 t.work[i] = table.work[i] /\ i \notin t.pending
           /\ HasRoom(t) /\ ~Frozen => t.pending \subseteq t.unstartable
           /\ t.pending \subseteq table.pending /\ Count(t) \in Nat
           /\ bulk.on => t = table
<1>1. TableInv(table) /\ table \in Table
  BY TypeFacts
<1>2. /\ TableInv(t)
      /\ \E go \in SUBSET (table.pending \ table.unstartable) : Fills(table, t, go) /\ (Frozen => go = {} /\ t = table)
      /\ ~Frozen => Count(t) = maxProcesses \/ t.pending \subseteq t.unstartable
  BY <1>1, DrainsFields
<1>3. t \in Table /\ Count(t) \in Nat
  BY <1>2, CountFields DEF TableInv
<1>4. HasRoom(t) => Count(t) # maxProcesses
  BY <1>3, ProcessesAssumption DEF HasRoom
<1> QED
  BY <1>2, <1>3, <1>4 DEF Fills, Frozen

LEMMA StartedFields ==
    ASSUME NEW t, TableInv(t), HasRoom(t), NEW i \in Managed, t.work[i].at = "absent", i \notin t.pending
    PROVE  LET u == Started(t, i) IN
           /\ TableInv(u) /\ u \in Table /\ u.work[i] = Fresh
           /\ \A j \in Managed : j # i => u.work[j] = t.work[j]
           /\ u.terminals = t.terminals /\ u.pending = t.pending /\ u.unstartable = t.unstartable
           /\ u.alive = t.alive \cup {i}
<1> DEFINE u == Started(t, i)
<1>1. t \in Table /\ Fresh \in Work /\ Count(t) \in Nat /\ t.pending \subseteq Managed
  BY WorkFields, CountFields DEF TableInv, Table, Managed
<1>2. /\ u \in Table /\ u.work[i] = Fresh
      /\ \A j \in Managed : j # i => u.work[j] = t.work[j]
      /\ u.terminals = t.terminals /\ u.pending = t.pending /\ u.unstartable = t.unstartable
      /\ u.alive = t.alive \cup {i}
  BY <1>1 DEF Started, Table
<1> HIDE DEF u
<1>3. Count(u) <= maxProcesses
  <2> DEFINE go == {i}
  <2>1. RunningOf(u) = RunningOf(t) \cup go /\ RunningOf(t) \cap go = {}
    BY <1>2 DEF RunningOf, Fresh, Running, Restarting
  <2>2. Cardinality(go) = 1 /\ go \in SUBSET Managed
    BY FS_Singleton
  <2> HIDE DEF go
  <2>3. Count(u) = Count(t) + 1
    BY <1>1, <1>2, <2>1, <2>2, CountMore
  <2> QED
    BY <1>1, <2>3, ProcessesAssumption DEF HasRoom
<1>4. \A j \in Managed : /\ u.work[j].at \in Restarting => j \in Service
                         /\ u.work[j].at = "dropped" => j \in Session
  BY <1>2 DEF TableInv, Fresh, Restarting
<1>5. /\ \A j \in u.pending : u.work[j].at = "absent" /\ j \notin u.alive
      /\ \A j \in u.alive : Recorded(u, j)
  <2>1. t.alive \subseteq Managed
    BY <1>1 DEF Table
  <2> QED
    BY <1>1, <1>2, <2>1 DEF TableInv, Fresh, Recorded, Running
<1> QED
  BY <1>2, <1>3, <1>4, <1>5 DEF TableInv, u

\* Something is started, with the record it needs.
LEMMA Starting ==
    ASSUME IInv, mode = "on", ~bulk.on, NEW t \in Drains(table), HasRoom(t),
           UNCHANGED <<mode, bulk, stopping, revocation, stopped, kept>>, RecordTypes,
           TableInv(table'), table'.pending = t.pending, table'.unstartable = t.unstartable,
           NEW s \in SUBSET Managed, s \cap stopped = {}, table'.alive = t.alive \cup s,
           \A j \in Managed : table'.work[j] = IF j \in s THEN Fresh ELSE t.work[j],
           definitions \subseteq definitions', definitions' \subseteq definitions \cup (s \cap Service)
    PROVE  IInv'
<1>1. PICK go \in SUBSET table.pending : Fills(table, t, go)
  BY Tried
<1>2. /\ table' \in Table /\ table \in Table /\ Service \subseteq Managed /\ definitions \subseteq Service
      /\ stopped \subseteq Service /\ ~Frozen /\ kept \subseteq Service /\ t.pending \subseteq table.pending
  BY TypeFacts, Tried DEF TableInv, Frozen
<1>3. t.pending \subseteq t.unstartable
  BY <1>2, Tried
<1>4. TypeOK'
  BY <1>2 DEF IInv, TypeOK, Table, RecordTypes, TableInv
<1>5. ModeInv'
  BY DEF ModeInv
<1>6. \A j \in Managed : table'.work[j] = Fresh \/ table'.work[j] = table.work[j]
  BY <1>1 DEF Fills
<1>7. SavedInv'
  <2>1. \A i \in stopped : i \notin go /\ i \notin s
    BY <1>1 DEF IInv, SavedInv, StoppedForGood
  <2>2. StoppedForGood'
    BY <1>1, <1>2, <2>1 DEF IInv, SavedInv, StoppedForGood, Fills
  <2>3. Fresh.at \in Running
    BY DEF Fresh, Running
  <2>4. \A i \in definitions' : i \in table'.pending \cup kept' \/ Recorded(table', i)
    <3> TAKE i \in definitions'
    <3>1. i \in Managed /\ (i \in s \/ i \in definitions)
      BY <1>2
    <3>2. CASE i \in s \cup go
      BY <1>1, <2>3, <3>1, <3>2 DEF Fills, Recorded
    <3>3. CASE i \notin s \cup go
      BY <1>1, <3>1, <3>3 DEF IInv, SavedInv, Fills, Recorded
    <3> QED
      BY <3>2, <3>3
  <2>5. table'.pending \subseteq definitions'
    BY <1>2 DEF IInv, SavedInv
  <2> QED
    BY <2>2, <2>4, <2>5 DEF SavedInv
<1>8. WaitInv'
  BY <1>3 DEF WaitInv, Waiting
<1>9. BulkInv'
  BY <1>2, <1>6 DEF IInv, BulkInv, Fresh
<1> QED
  BY <1>4, <1>5, <1>7, <1>8, <1>9 DEF IInv

\* Nothing is started but what waits.
LEMMA NoRoom ==
    ASSUME IInv, mode = "on", table' \in Drains(table),
           UNCHANGED <<mode, bulk, stopping, revocation, files, stopped, kept>>
    PROVE  IInv'
<1>1. Shrunk(table, table) /\ Turned(table)
  BY StillShrunk, TypeFacts DEF Turned
<1> QED
  BY <1>1, Quiet

LEMMA StartSessionStep ==
    ASSUME IInv, NEW i \in Session, StartSession(i)
    PROVE  IInv'
<1>1. /\ mode = "on" /\ ~bulk.on /\ table.work[i].at = "absent" /\ i \in Managed
      /\ UNCHANGED <<mode, bulk, stopping, revocation, files, stopped, kept>>
  BY TypeFacts DEF StartSession, Admits, files
<1>2. i \notin table.pending /\ i \notin stopped
  BY TypeFacts, WorkFields, ProcessesAssumption
<1>3. PICK t \in Drains(table) : table' = IF HasRoom(t) THEN Started(t, i) ELSE t
  BY DEF StartSession
<1>4. TableInv(t) /\ t.work[i].at = "absent" /\ i \notin t.pending
  BY <1>1, <1>2, <1>3, Tried
<1>5. CASE HasRoom(t)
  <2> DEFINE s == {i}
  <2>1. /\ TableInv(table') /\ table'.work[i] = Fresh
        /\ \A j \in Managed : j # i => table'.work[j] = t.work[j]
        /\ table'.pending = t.pending /\ table'.unstartable = t.unstartable /\ table'.alive = t.alive \cup s
    BY <1>1, <1>3, <1>4, <1>5, StartedFields
  <2>2. /\ s \in SUBSET Managed /\ s \cap stopped = {}
        /\ \A j \in Managed : table'.work[j] = IF j \in s THEN Fresh ELSE t.work[j]
    BY <1>1, <1>2, <2>1
  <2>3. RecordTypes /\ definitions' = definitions
    BY <1>1 DEF files, RecordTypes, IInv, TypeOK
  <2> HIDE DEF s
  <2> QED
    BY <1>1, <1>3, <1>5, <2>1, <2>2, <2>3, Starting
<1>6. CASE ~HasRoom(t)
  BY <1>1, <1>3, <1>6, NoRoom
<1> QED
  BY <1>5, <1>6

LEMMA StartTaskStep ==
    ASSUME IInv, NEW i \in Task, StartTask(i)
    PROVE  IInv'
<1>1. /\ mode = "on" /\ ~bulk.on /\ table.work[i].at = "absent" /\ i \in Managed
      /\ UNCHANGED <<mode, bulk, stopping, revocation, definitions, stopped, kept>>
  BY TypeFacts DEF StartTask, Admits
<1>2. i \notin table.pending /\ i \notin stopped
  BY TypeFacts, WorkFields, ProcessesAssumption
<1>3. PICK t \in Drains(table) :
        IF HasRoom(t)
        THEN table' = Started(t, i) /\ \E a \in Appends(i, "running") : Recording(a)
        ELSE table' = t /\ UNCHANGED <<history, journal, torn>>
  BY DEF StartTask
<1>4. TableInv(t) /\ t.work[i].at = "absent" /\ i \notin t.pending
  BY <1>1, <1>2, <1>3, Tried
<1>5. CASE HasRoom(t)
  <2> DEFINE s == {i}
  <2>1. /\ TableInv(table') /\ table'.work[i] = Fresh
        /\ \A j \in Managed : j # i => table'.work[j] = t.work[j]
        /\ table'.pending = t.pending /\ table'.unstartable = t.unstartable /\ table'.alive = t.alive \cup s
    BY <1>1, <1>3, <1>4, <1>5, StartedFields
  <2>2. /\ s \in SUBSET Managed /\ s \cap stopped = {}
        /\ \A j \in Managed : table'.work[j] = IF j \in s THEN Fresh ELSE t.work[j]
    BY <1>1, <1>2, <2>1
  <2>3. RecordTypes
    BY <1>3, <1>5, AppendsFields DEF TaskStatus
  <2> HIDE DEF s
  <2> QED
    BY <1>1, <1>3, <1>5, <2>1, <2>2, <2>3, Starting
<1>6. CASE ~HasRoom(t)
  BY <1>1, <1>3, <1>6, NoRoom DEF files
<1> QED
  BY <1>5, <1>6

\* The start of a service is refused, and its definition stays.
LEMMA KeptStep ==
    ASSUME IInv, NEW i \in Service, mode = "on", i \notin stopped, table' \in Drains(table),
           definitions' = definitions \cup {i}, kept' = kept \cup {i},
           UNCHANGED <<mode, bulk, stopping, revocation, history, journal, torn, stopped>>
    PROVE  IInv'
<1>1. /\ Shrunk(table, table) /\ Turned(table) /\ table.pending \subseteq definitions
      /\ definitions \subseteq Service /\ kept \subseteq Service
  BY StillShrunk, TypeFacts DEF Turned, IInv, SavedInv
<1>2. table' \in Table /\ table'.unstartable \subseteq table'.pending
  BY <1>1, TurnedFields DEF TableInv
<1>3. TypeOK'
  BY <1>1, <1>2 DEF IInv, TypeOK, Table
<1>4. \A j \in Managed : BulkStops(j) => BulkStops(j)'
  BY DEF BulkStops
<1>5. BulkInv'
  BY <1>1, <1>4, TurnedBulk
<1>6. \A j \in stopped' \ stopped : FALSE
  OBVIOUS
<1> QED
  BY <1>1, <1>3, <1>5, <1>6, Turning

LEMMA StartServiceStep ==
    ASSUME IInv, NEW i \in Service, StartService(i)
    PROVE  IInv'
<1>1. /\ mode = "on" /\ table.work[i].at = "absent" /\ i \in Managed
      /\ i \notin definitions /\ i \notin stopped /\ i \notin table.pending
      /\ UNCHANGED <<mode, bulk, stopping, revocation, history, journal, torn, stopped>>
  BY TypeFacts DEF StartService, IInv, SavedInv
<1>2. PICK t \in Drains(table) :
          IF HasRoom(t) /\ ~bulk.on
          THEN table' = Started(t, i) /\ definitions' = definitions \cup {i} /\ UNCHANGED kept
          ELSE /\ table' = t
               /\ \/ UNCHANGED <<definitions, kept>>
                  \/ RemovalFails /\ definitions' = definitions \cup {i} /\ kept' = kept \cup {i}
  BY DEF StartService
<1>3. TableInv(t) /\ t.work[i].at = "absent" /\ i \notin t.pending
  BY <1>1, <1>2, Tried
<1>4. CASE HasRoom(t) /\ ~bulk.on
  <2> DEFINE s == {i}
  <2>1. /\ TableInv(table') /\ table'.work[i] = Fresh
        /\ \A j \in Managed : j # i => table'.work[j] = t.work[j]
        /\ table'.pending = t.pending /\ table'.unstartable = t.unstartable /\ table'.alive = t.alive \cup s
    BY <1>1, <1>2, <1>3, <1>4, StartedFields
  <2>2. /\ s \in SUBSET Managed /\ s \cap stopped = {}
        /\ \A j \in Managed : table'.work[j] = IF j \in s THEN Fresh ELSE t.work[j]
    BY <1>1, <2>1
  <2>3. RecordTypes
    BY <1>1 DEF RecordTypes, IInv, TypeOK
  <2>4. definitions \subseteq definitions' /\ definitions' \subseteq definitions \cup (s \cap Service)
    BY <1>2, <1>4
  <2> HIDE DEF s
  <2> QED
    BY <1>1, <1>2, <1>4, <2>1, <2>2, <2>3, <2>4, Starting
<1>5. CASE ~(HasRoom(t) /\ ~bulk.on)
  <2>1. CASE UNCHANGED <<definitions, kept>>
    BY <1>1, <1>2, <1>5, <2>1, NoRoom DEF files
  <2>2. CASE definitions' = definitions \cup {i} /\ kept' = kept \cup {i}
    BY <1>1, <1>2, <1>5, <2>2, KeptStep
  <2> QED
    BY <1>2, <1>5, <2>1, <2>2
<1> QED
  BY <1>4, <1>5

LEMMA OpenTerminalStep ==
    ASSUME IInv, NEW x \in Terminal, OpenTerminal(x)
    PROVE  IInv'
<1>1. /\ mode = "on" /\ ~bulk.on /\ x \notin table.terminals
      /\ UNCHANGED <<mode, bulk, stopping, revocation, files, stopped, kept>>
  BY DEF OpenTerminal, Admits, files
<1>2. PICK t \in Drains(table) :
        table' = IF HasRoom(t) THEN [t EXCEPT !.terminals = @ \cup {x}] ELSE t
  BY DEF OpenTerminal
<1>3. /\ TableInv(t) /\ t \in Table /\ Count(t) \in Nat /\ t.terminals = table.terminals
      /\ t.alive \subseteq Managed
  BY <1>2, Tried DEF Fills, Table
<1>4. CASE HasRoom(t)
  <2> DEFINE s == {}
  <2>1. /\ table' \in Table /\ table'.work = t.work /\ table'.terminals = t.terminals \cup {x}
        /\ table'.pending = t.pending /\ table'.unstartable = t.unstartable
        /\ table'.alive = t.alive
    BY <1>2, <1>3, <1>4 DEF Table
  <2>2. Count(table') = Count(t) + 1
    <3>1. IsFiniteSet(t.terminals) /\ x \notin t.terminals
      BY <1>1, <1>3, Finite DEF Table
    <3>2. Cardinality(t.terminals \cup {x}) = Cardinality(t.terminals) + 1
      BY <3>1, FS_AddElement
    <3>3. RunningOf(table') = RunningOf(t)
      BY <2>1 DEF RunningOf
    <3>4. /\ Count(table') = Cardinality(RunningOf(t)) + Cardinality(t.terminals \cup {x})
          /\ Count(t) = Cardinality(RunningOf(t)) + Cardinality(t.terminals)
          /\ Cardinality(RunningOf(t)) \in Nat /\ Cardinality(t.terminals) \in Nat
      BY <1>3, <2>1, <3>3, CountFields
    <3> QED
      BY <3>2, <3>4
  <2>3. Count(table') <= maxProcesses
    BY <1>3, <1>4, <2>2, ProcessesAssumption DEF HasRoom
  <2>4. TableInv(table')
    BY <1>3, <2>1, <2>3 DEF TableInv, Recorded
  <2>5. /\ s \in SUBSET Managed /\ s \cap stopped = {} /\ table'.alive = t.alive \cup s
        /\ \A j \in Managed : table'.work[j] = IF j \in s THEN Fresh ELSE t.work[j]
    BY <2>1
  <2>6. RecordTypes /\ definitions' = definitions
    BY <1>1 DEF files, RecordTypes, IInv, TypeOK
  <2> HIDE DEF s
  <2> QED
    BY <1>1, <1>2, <1>4, <2>1, <2>4, <2>5, <2>6, Starting
<1>5. CASE ~HasRoom(t)
  BY <1>1, <1>2, <1>5, NoRoom
<1> QED
  BY <1>4, <1>5
-----------------------------------------------------------------------------
(* The invariant holds of every behaviour.                                 *)

LEMMA Stutter ==
    ASSUME IInv, UNCHANGED vars
    PROVE  IInv'
<1>1. /\ table' = table /\ mode' = mode /\ bulk' = bulk /\ stopping' = stopping
      /\ revocation' = revocation /\ definitions' = definitions /\ history' = history
      /\ journal' = journal /\ torn' = torn /\ stopped' = stopped /\ kept' = kept
  BY DEF vars
<1>2. TypeOK' /\ TableInv(table')
  BY <1>1 DEF IInv, TypeOK
<1>3. ModeInv'
  BY <1>1 DEF IInv, ModeInv
<1>4. SavedInv'
  BY <1>1 DEF IInv, SavedInv, StoppedForGood
<1>5. WaitInv'
  BY <1>1 DEF IInv, WaitInv, Waiting
<1>6. BulkInv'
  BY <1>1 DEF IInv, BulkInv, BulkStops
<1> QED
  BY <1>2, <1>3, <1>4, <1>5, <1>6 DEF IInv

LEMMA InitInv ==
    ASSUME Init
    PROVE  IInv
<1>1. /\ table = Empty /\ mode = "off" /\ bulk = NoBulk /\ stopping = NothingStopping
      /\ revocation = NoRevocation /\ definitions = {} /\ stopped = {} /\ kept = {}
      /\ history = [i \in Task |-> "none"] /\ journal = history /\ torn = FALSE
  BY DEF Init
<1>2. /\ table \in Table /\ table.work = [i \in Managed |-> Absent] /\ table.terminals = {}
      /\ table.pending = {} /\ table.unstartable = {} /\ table.alive = {}
  BY <1>1 DEF Empty, Table, Absent, Work
<1>3. Absent.at = "absent" /\ Service \subseteq Managed /\ Session \subseteq Managed
  BY DEF Absent, Managed
<1>4. TypeOK
  BY <1>1, <1>2 DEF TypeOK, Table, NoBulk, NothingStopping, NoRevocation, TaskStatus
<1>5. Count(table) = 0
  <2>1. RunningOf(table) = {}
    BY <1>2, <1>3 DEF RunningOf, Running, Restarting
  <2>2. Cardinality(RunningOf(table)) = 0 /\ Cardinality(table.terminals) = 0
    BY <1>2, <2>1, FS_EmptySet
  <2>3. Count(table) = Cardinality(RunningOf(table)) + Cardinality(table.terminals)
    BY <1>2, CountFields
  <2> QED
    BY <2>2, <2>3
<1>6. TableInv(table)
  BY <1>2, <1>3, <1>5, ProcessesAssumption DEF TableInv, Restarting
<1>7. ModeInv
  BY <1>1, <1>2, <1>3 DEF ModeInv
<1>8. SavedInv /\ WaitInv
  BY <1>1, <1>2, <1>3 DEF SavedInv, StoppedForGood, WaitInv, Waiting
<1>9. BulkInv
  BY <1>1, <1>2, <1>3 DEF BulkInv, NoBulk
<1> QED
  BY <1>4, <1>6, <1>7, <1>8, <1>9 DEF IInv

LEMMA NextInv ==
    ASSUME IInv, [Next]_vars
    PROVE  IInv'
<1>1. CASE Exit
  BY <1>1, ExitStep
<1>2. CASE Load
  BY <1>2, LoadStep
<1>3. CASE Serve
  BY <1>3, ServeStep
<1>4. CASE Shutdown
  BY <1>4, ShutdownStep
<1>5. CASE StopAll
  BY <1>5, StopAllStep
<1>6. CASE BulkEnds
  BY <1>6, BulkEndsStep
<1>7. CASE RevokeTerminals
  BY <1>7, RevokeTerminalsStep
<1>8. CASE RevokeGroups
  BY <1>8, RevokeGroupsStep
<1>9. CASE \E i \in Task : MarkInterrupted(i) \/ StartTask(i)
  BY <1>9, MarkInterruptedStep, StartTaskStep
<1>10. CASE \E i \in Session : StartSession(i) \/ CloseDropped(i)
  BY <1>10, StartSessionStep, CloseDroppedStep
<1>11. CASE \E i \in Service : StartService(i) \/ RestartDue(i) \/ Restart(i)
  BY <1>11, StartServiceStep, RestartDueStep, RestartStep
<1>12. CASE \E x \in Terminal : OpenTerminal(x) \/ TerminalEnds(x)
  BY <1>12, OpenTerminalStep, TerminalEndsStep
<1>13. CASE \E o \in Owner : Revoke(o)
  BY <1>13, RevokeStep
<1>14. CASE \E i \in Managed : GroupEnds(i) \/ Limit(i) \/ Discard(i) \/ Stop(i)
  BY <1>14, GroupEndsStep, LimitStep, DiscardStep, StopStep
<1>15. CASE \E i \in Managed : \E crashed \in BOOLEAN : Close(i, crashed)
  BY <1>15, CloseStep
<1>16. CASE \E i \in Managed : \E op \in {"stop", "bulk"} : StopEnds(op, i)
  BY <1>16, StopEndsStep
<1>17. CASE \E x \in Managed \cup Terminal : BulkStep(x)
  BY <1>17, BulkStepStep
<1>18. CASE UNCHANGED vars
  BY <1>18, Stutter
<1> QED
  BY <1>1, <1>2, <1>3, <1>4, <1>5, <1>6, <1>7, <1>8, <1>9, <1>10, <1>11, <1>12, <1>13, <1>14,
     <1>15, <1>16, <1>17, <1>18 DEF Next

(***************************************************************************)
(* The inductive invariant: the manager's table is consistent, what is     *)
(* saved waits or has a record, what waits can only wait because there is  *)
(* no room, and a bulk stop has everything that runs still before it.      *)
(***************************************************************************)
THEOREM Invariance == Spec => []IInv
<1>1. Init => IInv
  BY InitInv
<1>2. IInv /\ [Next]_vars => IInv'
  BY NextInv
<1> QED
  BY <1>1, <1>2, PTL DEF Spec

(***************************************************************************)
(* Every variable keeps its type, and a runner that does not serve yet has *)
(* neither processes nor terminals.                                        *)
(***************************************************************************)
THEOREM TypeCorrect == Spec => []TypeOK
<1>1. IInv => TypeOK
  BY DEF IInv
<1> QED
  BY <1>1, Invariance, PTL

LEMMA InUseCount == InUse = Count(table)
BY DEF InUse, Count

(***************************************************************************)
(* Commands, services that wait for their restart and terminals together   *)
(* never exceed the configured limit, and a service whose restart found    *)
(* the work frozen does not keep its slot longer than the freeze.          *)
(***************************************************************************)
THEOREM LimitKept == Spec => []LimitHolds
<1>1. IInv => LimitHolds
  <2> SUFFICES ASSUME IInv PROVE LimitHolds
    OBVIOUS
  <2>1. InUse <= maxProcesses
    BY InUseCount, TypeFacts
  <2>2. \A i \in Service : table.work[i].at = "limbo" => Frozen
    BY DEF IInv, BulkInv, Frozen
  <2> QED
    BY <2>1, <2>2 DEF LimitHolds
<1> QED
  BY <1>1, Invariance, PTL

(***************************************************************************)
(* A saved service that can be started waits only while every slot is in   *)
(* use, although neither the end of a terminal nor the end of a bulk stop  *)
(* looks for waiting services.                                             *)
(***************************************************************************)
THEOREM NoIdleSlots == Spec => []WaitingOnlyWhenFull
<1>1. IInv => WaitingOnlyWhenFull
  BY InUseCount DEF IInv, WaitInv, Waiting, WaitingOnlyWhenFull
<1> QED
  BY <1>1, Invariance, PTL

(***************************************************************************)
(* A service whose stop was acknowledged never runs again.                 *)
(***************************************************************************)
THEOREM StopsAreFinal == Spec => []StoppedForGood
<1>1. IInv => StoppedForGood
  BY DEF IInv, SavedInv
<1> QED
  BY <1>1, Invariance, PTL

(***************************************************************************)
(* Every process group that is alive has a record by which it can be ended. *)
(***************************************************************************)
THEOREM GroupsAreRecorded == Spec => []EveryGroupRecorded
<1>1. IInv => EveryGroupRecorded
  BY DEF IInv, TableInv, EveryGroupRecorded
<1> QED
  BY <1>1, Invariance, PTL

\* Only BulkEnds ends a bulk stop while the runner serves.
LEMMA OnlyBulkEnds ==
    ASSUME IInv, Next, bulk.on, ~bulk'.on, mode' = "on"
    PROVE  BulkEnds
<1>1. bulk' # bulk
  OBVIOUS
<1>2. mode' # "off"
  OBVIOUS
<1>3. CASE \E i \in Managed : \E op \in {"stop", "bulk"} : StopEnds(op, i)
  <2>1. PICK i \in Managed, op \in {"stop", "bulk"} : StopEnds(op, i)
    BY <1>3
  <2>2. bulk' = bulk \/ bulk' = [bulk EXCEPT !.failed = TRUE]
    BY <2>1 DEF StopEnds
  <2> QED
    BY <2>2 DEF IInv, TypeOK
<1>4. CASE \E x \in Managed \cup Terminal : BulkStep(x)
  <2>1. PICK x : BulkStep(x)
    BY <1>4
  <2>2. \/ bulk' = [bulk EXCEPT !.todo = @ \ {x}]
        \/ bulk' = [bulk EXCEPT !.todo = @ \ {x}, !.failed = TRUE]
    BY <2>1 DEF BulkStep, IInv, TypeOK
  <2> QED
    BY <2>2 DEF IInv, TypeOK
<1>5. ~Exit /\ ~StopAll /\ ~Load /\ ~Serve /\ ~Shutdown /\ ~RevokeTerminals /\ ~RevokeGroups
  BY <1>1, <1>2 DEF Exit, RunnerEnds, StopAll, Load, Serve, Shutdown, RevokeTerminals, RevokeGroups
<1>6. /\ \A i \in Task : ~MarkInterrupted(i) /\ ~StartTask(i)
      /\ \A i \in Session : ~StartSession(i) /\ ~CloseDropped(i)
      /\ \A i \in Service : ~StartService(i) /\ ~RestartDue(i) /\ ~Restart(i)
      /\ \A x \in Terminal : ~OpenTerminal(x) /\ ~TerminalEnds(x)
      /\ \A o \in Owner : ~Revoke(o)
  BY <1>1, <1>2 DEF MarkInterrupted, RunnerEnds, StartTask, StartSession, CloseDropped, StartService,
                    RestartDue, Restart, OpenTerminal, TerminalEnds, Revoke
<1>7. \A i \in Managed : /\ ~GroupEnds(i) /\ ~Limit(i) /\ ~Discard(i) /\ ~Stop(i)
                         /\ \A crashed \in BOOLEAN : ~Close(i, crashed)
  BY <1>1, <1>2 DEF GroupEnds, Limit, Discard, Stop, Close, RunnerEnds
<1> QED
  BY <1>3, <1>4, <1>5, <1>6, <1>7 DEF Next

LEMMA BulkComplete ==
    ASSUME IInv, [Next]_vars, BulkSucceeds
    PROVE  InUse' = 0 /\ table'.pending = {} /\ definitions' \subseteq kept'
<1>1. bulk.on /\ ~bulk'.on /\ mode' = "on" /\ ~bulk.failed
  BY DEF BulkSucceeds
<1>2. Next
  BY <1>1 DEF vars
<1>3. /\ bulk.todo = {} /\ \A i \in Managed : ~BulkStops(i)
      /\ table' = table /\ definitions' = definitions /\ kept' = kept /\ mode = "on"
  BY <1>1, <1>2, OnlyBulkEnds DEF BulkEnds, BulkIdle, BulkStops, files
<1>4. /\ table \in Table /\ definitions \subseteq Managed
  BY TypeFacts
<1>5. /\ RunningOf(table) = {} /\ table.terminals = {} /\ table.pending = {}
      /\ definitions \subseteq kept
  BY <1>1, <1>3, <1>4 DEF IInv, BulkInv, RunningOf
<1>6. Count(table) = 0
  <2>1. Cardinality(RunningOf(table)) = 0 /\ Cardinality(table.terminals) = 0
    BY <1>5, FS_EmptySet
  <2> QED
    BY <1>4, <2>1, CountFields
<1>7. InUse' = Count(table')
  BY DEF InUse, Count
<1> QED
  BY <1>3, <1>5, <1>6, <1>7

(***************************************************************************)
(* When the bulk stop reports success, nothing runs, no terminal is open,  *)
(* nothing waits, and nothing is saved but what could not be removed.      *)
(***************************************************************************)
THEOREM StopAllCompletes == Spec => StopAllIsComplete
<1>1. IInv /\ [Next]_vars => [BulkSucceeds => /\ InUse' = 0
                                              /\ table'.pending = {}
                                              /\ definitions' \subseteq kept']_vars
  BY BulkComplete
<1> QED
  BY <1>1, Invariance, PTL DEF Spec, StopAllIsComplete
-----------------------------------------------------------------------------
(* The records of tasks.                                                   *)

\* No step but the start and the end of a task itself touches whether it runs.
TasksStay ==
    \A i \in Task : /\ table'.work[i].at = "absent" <=> table.work[i].at = "absent"
                    /\ table'.work[i].at = "live" <=> table.work[i].at = "live"

LEMMA TurnedTasks ==
    ASSUME IInv, NEW t, Turned(t)
    PROVE  \A i \in Task : table'.work[i] = t.work[i]
<1>1. PICK go \in SUBSET (t.pending \ t.unstartable) : Fills(t, table', go)
  BY TurnedFields
<1>2. t.pending \subseteq Service
  BY WorkFields DEF Turned, Shrunk
<1>3. Task \cap Service = {} /\ Task \subseteq Managed
  BY TypeFacts, ProcessesAssumption
<1> QED
  BY <1>1, <1>2, <1>3 DEF Fills

LEMMA TurnedStay ==
    ASSUME IInv, NEW t, Turned(t),
           \A i \in Task : t.work[i].at = "live" <=> table.work[i].at = "live"
    PROVE  TasksStay
<1>1. \A i \in Task : table'.work[i] = t.work[i]
  BY TurnedTasks
<1>2. \A i \in Task : t.work[i].at = "absent" <=> table.work[i].at = "absent"
  BY TypeFacts DEF Turned, Shrunk
<1> QED
  BY <1>1, <1>2 DEF TasksStay

\* Only the entry of one command other than a task changes.
LEMMA EntryStays ==
    ASSUME IInv, NEW t, NEW i \in Managed \ Task, Turned(t),
           \A j \in Managed : j # i => t.work[j] = table.work[j]
    PROVE  TasksStay
BY TurnedStay, TypeFacts

\* A step that leaves the records alone.
LEMMA RecordsStay ==
    ASSUME HistoryInv, TasksStay, UNCHANGED <<history, journal, torn>>,
           mode' \in {"on", "closing"} => mode \in {"on", "closing"} \/ \A i \in Task : history[i] # "running"
    PROVE  HistoryInv'
BY DEF HistoryInv, TasksStay

LEMMA TerminationsStay ==
    ASSUME IInv, NEW i \in Managed, table' \in Terminations(table, i)
    PROVE  TasksStay
<1>1. PICK t : /\ Turned(t)
               /\ i \in Task => t.work[i].at = table.work[i].at
               /\ \A j \in Managed : j # i => t.work[j] = table.work[j]
  BY TerminationsTurned
<1>2. \A j \in Task : t.work[j].at = table.work[j].at
  BY <1>1, TypeFacts
<1> QED
  BY <1>1, <1>2, TurnedStay

LEMMA StartedStay ==
    ASSUME IInv, NEW t \in Drains(table), NEW i \in Managed \ Task, table.work[i].at = "absent",
           i \notin table.pending, table' = IF HasRoom(t) THEN Started(t, i) ELSE t
    PROVE  TasksStay
<1>1. PICK go \in SUBSET table.pending : Fills(table, t, go)
  BY Tried
<1>2. TableInv(t) /\ t.work[i].at = "absent" /\ i \notin t.pending
  BY Tried
<1>3. table.pending \subseteq Service /\ Task \cap Service = {} /\ Task \subseteq Managed
  BY TypeFacts, WorkFields, ProcessesAssumption
<1>4. \A j \in Task : t.work[j] = table.work[j]
  BY <1>1, <1>3 DEF Fills
<1>5. HasRoom(t) => \A j \in Managed : j # i => table'.work[j] = t.work[j]
  BY <1>2, StartedFields
<1>6. \A j \in Task : table'.work[j] = t.work[j]
  BY <1>3, <1>5
<1> QED
  BY <1>4, <1>6 DEF TasksStay

\* The steps that leave the records alone, those of the whole runner apart.
LEMMA StaySteps ==
    ASSUME IInv,
           \/ StopAll \/ BulkEnds \/ RevokeTerminals \/ RevokeGroups
           \/ \E i \in Session : StartSession(i) \/ CloseDropped(i)
           \/ \E i \in Service : StartService(i) \/ RestartDue(i) \/ Restart(i)
           \/ \E x \in Terminal : OpenTerminal(x) \/ TerminalEnds(x)
           \/ \E o \in Owner : Revoke(o)
           \/ \E i \in Managed : GroupEnds(i) \/ Limit(i) \/ Discard(i) \/ Stop(i)
           \/ \E i \in Managed \ Task : \E crashed \in BOOLEAN : Close(i, crashed)
           \/ \E i \in Managed : \E op \in {"stop", "bulk"} : StopEnds(op, i)
           \/ \E x \in Managed \cup Terminal : BulkStep(x)
    PROVE  TasksStay /\ UNCHANGED <<mode, history, journal, torn>>
<1>1. /\ table \in Table /\ TableInv(table) /\ Task \subseteq Managed /\ Session \subseteq Managed
      /\ Service \subseteq Managed /\ Task \cap Session = {} /\ Task \cap Service = {}
      /\ Session \cap Service = {} /\ table.pending \subseteq Service
  BY TypeFacts, WorkFields, ProcessesAssumption
<1>2. table' = table \/ table'.work = table.work => TasksStay
  BY DEF TasksStay
<1>3. CASE StopAll \/ BulkEnds \/ \E o \in Owner : Revoke(o)
  BY <1>2, <1>3 DEF StopAll, BulkEnds, Revoke, files
<1>4. CASE RevokeTerminals
  <2>1. \A j \in Managed : table'.work[j].at = table.work[j].at
    <3>1. \A j \in Managed : \A v : v = [table.work[j] EXCEPT !.told = TRUE] => v.at = table.work[j].at
      BY <1>1, WorkFields DEF Work
    <3>2. CASE table'.work = [i \in Managed |-> IF i \in revocation.sessions /\ table.work[i].at = "live"
                                               THEN [table.work[i] EXCEPT !.told = TRUE] ELSE table.work[i]]
      BY <3>1, <3>2
    <3>3. CASE table'.work = table.work
      BY <3>3
    <3> QED
      BY <1>1, <1>4, <3>2, <3>3 DEF RevokeTerminals, Table
  <2> QED
    BY <1>1, <1>4, <2>1 DEF RevokeTerminals, TasksStay, files
<1>5. CASE RevokeGroups
  <2>1. \A j \in Managed \ Session : table'.work[j] = table.work[j]
    BY <1>5, RevokeGroupsFields
  <2> QED
    BY <1>1, <1>5, <2>1 DEF RevokeGroups, TasksStay, files
<1>6. ASSUME NEW i \in Session, StartSession(i)
      PROVE  TasksStay /\ UNCHANGED <<mode, history, journal, torn>>
  <2>1. PICK t \in Drains(table) : table' = IF HasRoom(t) THEN Started(t, i) ELSE t
    BY <1>6 DEF StartSession
  <2>2. i \in Managed \ Task /\ table.work[i].at = "absent" /\ i \notin table.pending
    BY <1>1, <1>6 DEF StartSession
  <2> QED
    BY <1>6, <2>1, <2>2, StartedStay DEF StartSession
<1>7. ASSUME NEW i \in Session, CloseDropped(i)
      PROVE  TasksStay /\ UNCHANGED <<mode, history, journal, torn>>
  <2> DEFINE w == [table.work[i] EXCEPT !.at = "gone"]
  <2>1. table.work[i].at = "dropped" /\ table.work[i] \in Work /\ i \in Managed \ Task
    BY <1>1, <1>7, WorkFields DEF CloseDropped
  <2>2. Lowered(table.work[i], w) /\ w.at \notin Restarting
    BY <2>1 DEF Lowered, Work, Running, Restarting
  <2>3. table' \in Drains([table EXCEPT !.work[i] = w])
    <3>1. [table EXCEPT !.work[i].at = "gone"] = [table EXCEPT !.work[i] = w]
      BY <1>1 DEF Table
    <3> QED
      BY <1>7, <3>1 DEF CloseDropped
  <2>4. i \notin table.alive
    BY <1>1, <2>1 DEF TableInv, Recorded, Running, Restarting
  <2> HIDE DEF w
  <2> DEFINE t == [table EXCEPT !.work[i] = w]
  <2>5. Turned(t) /\ \A j \in Managed : j # i => t.work[j] = table.work[j]
    BY <2>1, <2>2, <2>3, <2>4, EntryTurned
  <2> HIDE DEF t
  <2>6. TasksStay
    BY <2>1, <2>5, EntryStays
  <2> QED
    BY <1>7, <2>6 DEF CloseDropped, files
<1>8. ASSUME NEW i \in Service, StartService(i)
      PROVE  TasksStay /\ UNCHANGED <<mode, history, journal, torn>>
  <2>1. PICK t \in Drains(table) : (table' = Started(t, i) /\ HasRoom(t)) \/ table' = t
    BY <1>8 DEF StartService
  <2>2. i \in Managed \ Task /\ table.work[i].at = "absent" /\ i \notin table.pending
    BY <1>1, <1>8 DEF StartService, IInv, SavedInv
  <2>3. CASE table' = Started(t, i) /\ HasRoom(t)
    BY <1>8, <2>2, <2>3, StartedStay DEF StartService
  <2>4. CASE table' = t
    <3>1. Turned(table)
      BY <1>1, <2>4, StillShrunk DEF Turned
    <3> QED
      BY <1>8, <3>1, TurnedStay DEF StartService
  <2> QED
    BY <2>1, <2>3, <2>4
<1>9. ASSUME NEW i \in Service, RestartDue(i)
      PROVE  TasksStay /\ UNCHANGED <<mode, history, journal, torn>>
  <2>1. \A j \in Managed : j # i => table'.work[j] = table.work[j]
    BY <1>1, <1>9 DEF RestartDue, Table
  <2> QED
    BY <1>1, <1>9, <2>1 DEF RestartDue, TasksStay, files
<1>10. ASSUME NEW i \in Service, Restart(i)
       PROVE  TasksStay /\ UNCHANGED <<mode, history, journal, torn>>
  <2>1. CASE table' \in Completions(table, i)
    <3>1. table.work[i].at \in Running
      BY <1>10 DEF Restart, Running, Restarting
    <3>2. PICK t : Turned(t) /\ \A j \in Managed : j # i => t.work[j] = table.work[j]
      BY <1>1, <2>1, <3>1, CompletionsTurned
    <3> QED
      BY <1>1, <1>10, <3>2, EntryStays DEF Restart, files
  <2>2. CASE table' \notin Completions(table, i)
    <3>1. \/ table' = [table EXCEPT !.work[i].at = "limbo"]
          \/ table' = [table EXCEPT !.work[i].at = "live", !.alive = @ \cup {i}]
      BY <1>10, <2>2 DEF Restart
    <3>2. CASE table' = [table EXCEPT !.work[i].at = "limbo"]
      BY <1>1, <1>10, <3>2 DEF Restart, TasksStay, files, Table
    <3>3. CASE table' = [table EXCEPT !.work[i].at = "live", !.alive = @ \cup {i}]
      <4>1. \A j \in Managed : j # i => table'.work[j] = table.work[j]
        BY <1>1, <3>3 DEF Table
      <4> QED
        BY <1>1, <1>10, <4>1 DEF Restart, TasksStay, files
    <3> QED
      BY <3>1, <3>2, <3>3
  <2> QED
    BY <2>1, <2>2
<1>11. ASSUME NEW x \in Terminal, OpenTerminal(x)
       PROVE  TasksStay /\ UNCHANGED <<mode, history, journal, torn>>
  <2>1. PICK t \in Drains(table) : table' = IF HasRoom(t) THEN [t EXCEPT !.terminals = @ \cup {x}] ELSE t
    BY <1>11 DEF OpenTerminal
  <2>2. t \in Table /\ \E go \in SUBSET table.pending : Fills(table, t, go)
    BY <2>1, Tried
  <2>3. table'.work = t.work /\ \A j \in Task : t.work[j] = table.work[j]
    BY <1>1, <2>1, <2>2 DEF Table, Fills
  <2> QED
    BY <1>11, <2>3 DEF OpenTerminal, TasksStay
<1>12. ASSUME NEW x \in Terminal, TerminalEnds(x)
       PROVE  TasksStay /\ UNCHANGED <<mode, history, journal, torn>>
  BY <1>1, <1>2, <1>12 DEF TerminalEnds, Table, files
<1>13. ASSUME NEW i \in Managed, GroupEnds(i) \/ Limit(i) \/ Discard(i) \/ Stop(i)
       PROVE  TasksStay /\ UNCHANGED <<mode, history, journal, torn>>
  <2>1. CASE GroupEnds(i)
    BY <1>1, <1>2, <2>1 DEF GroupEnds, Table, files
  <2>2. CASE Limit(i)
    BY <2>2, TerminationsStay DEF Limit, files
  <2>3. CASE Discard(i)
    <3> DEFINE some == {i}
    <3>1. /\ some \in SUBSET Managed /\ some \cap table.alive = {} /\ table' = Deleted(table, some)
          /\ \A j \in some : table.work[j].at \in {"done", "gone"}
      BY <2>3 DEF Discard
    <3> HIDE DEF some
    <3>2. Turned(table') /\ \A j \in Task : table'.work[j].at = "live" <=> table.work[j].at = "live"
      BY <3>1, DeletedTurned
    <3> QED
      BY <2>3, <3>2, TurnedStay DEF Discard, files
  <2>4. CASE Stop(i)
    <3>1. CASE StopBegins("stop", i)
      BY <2>4, <3>1, TerminationsStay DEF Stop, StopBegins
    <3>2. CASE Disable(i)
      BY <1>2, <2>4, <3>2, DisableFields DEF Stop
    <3> QED
      BY <2>4, <3>1, <3>2 DEF Stop
  <2> QED
    BY <1>13, <2>1, <2>2, <2>3, <2>4
<1>14. ASSUME NEW i \in Managed \ Task, NEW crashed \in BOOLEAN, Close(i, crashed)
       PROVE  TasksStay /\ UNCHANGED <<mode, history, journal, torn>>
  <2>1. table.work[i].at \in Running /\ UNCHANGED <<mode, history, journal, torn>>
    BY <1>14 DEF Close, Running, files
  <2>2. CASE table' \in Completions(table, i)
    <3>1. PICK t : Turned(t) /\ \A j \in Managed : j # i => t.work[j] = table.work[j]
      BY <2>1, <2>2, CompletionsTurned
    <3> QED
      BY <2>1, <3>1, EntryStays
  <2>3. CASE table' \notin Completions(table, i)
    <3>1. table' = [table EXCEPT !.work[i].at = "backoff", !.work[i].tries = @ + 1]
      BY <1>14, <2>3 DEF Close
    <3>2. \A j \in Managed : j # i => table'.work[j] = table.work[j]
      BY <1>1, <3>1 DEF Table
    <3> QED
      BY <1>1, <1>14, <2>1, <3>2 DEF TasksStay
  <2> QED
    BY <2>2, <2>3
<1>15. ASSUME NEW i \in Managed, NEW op \in {"stop", "bulk"}, StopEnds(op, i)
       PROVE  TasksStay /\ UNCHANGED <<mode, history, journal, torn>>
  <2>1. /\ Turned(table')
        /\ \A j \in Managed : j \in Task => (table'.work[j].at = "live" <=> table.work[j].at = "live")
    BY <1>15, StopEndsFields
  <2>2. TasksStay
    BY <1>1, <2>1, TurnedStay
  <2> QED
    BY <1>15, <2>2 DEF StopEnds
<1>16. ASSUME NEW x \in Managed \cup Terminal, BulkStep(x)
       PROVE  TasksStay /\ UNCHANGED <<mode, history, journal, torn>>
  <2>1. CASE x \in Managed /\ StopBegins("bulk", x)
    BY <1>16, <2>1, TerminationsStay DEF BulkStep, StopBegins
  <2>2. CASE Disable(x)
    BY <1>2, <1>16, <2>2, DisableFields DEF BulkStep
  <2>3. CASE ~(x \in Managed /\ StopBegins("bulk", x)) /\ ~Disable(x)
    <3>1. table' = table \/ table' = [table EXCEPT !.terminals = @ \ {x}]
      BY <1>16, <2>3 DEF BulkStep
    <3>2. table' = table \/ table'.work = table.work
      BY <1>1, <3>1 DEF Table
    <3> QED
      BY <1>2, <1>16, <3>2 DEF BulkStep
  <2> QED
    BY <2>1, <2>2, <2>3
<1> QED
  BY <1>3, <1>4, <1>5, <1>6, <1>7, <1>8, <1>9, <1>10, <1>11, <1>12, <1>13, <1>14, <1>15, <1>16

\* What may become of a record in one step.
Outcome == {"exited", "interrupted"}
Keeps(i) == history[i] \in Outcome => history'[i] \in {history[i], "none"}

\* A record is written, or is not.
LEMMA RecordWritten ==
    ASSUME IInv, HistoryInv, ~ShortWrites, NEW i \in Task, NEW status \in TaskStatus \ {"none"},
           NEW a \in Appends(i, status), Recording(a), history[i] \notin Outcome
    PROVE  /\ ~torn' /\ \A j \in Task : Keeps(j)
           /\ a.ok => /\ history'[i] = status /\ journal'[i] \in {status, "none"}
                      /\ \A j \in Task \ {i} :
                            \/ history'[j] = history[j] /\ journal'[j] \in {journal[j], history[j]}
                            \/ history[j] \in Outcome /\ history'[j] = "none" /\ journal'[j] = "none"
           /\ ~a.ok => history' = history /\ \A j \in Task \ {i} : journal'[j] = journal[j]
<1> DEFINE latest == [history EXCEPT ![i] = status]
<1>1. /\ history \in [Task -> TaskStatus] /\ journal \in [Task -> TaskStatus] /\ ~torn
      /\ latest \in [Task -> TaskStatus] /\ latest[i] = status
      /\ \A j \in Task \ {i} : latest[j] = history[j]
  BY DEF IInv, TypeOK, HistoryInv
<1>2. /\ ~torn' /\ a.ok \in BOOLEAN /\ journal' \in [Task -> TaskStatus]
      /\ a.ok => \/ history' = latest /\ journal' = [journal EXCEPT ![i] = status]
                 \/ journal' \in Compacted(latest) /\ history' = [journal' EXCEPT ![i] = status]
      /\ ~a.ok => history' = history /\ journal' \in {journal, [journal EXCEPT ![i] = status]}
  BY <1>1, AppendsFields DEF RecordTypes
<1> HIDE DEF latest
<1>3. journal' \in Compacted(latest) =>
        \A j \in Task : journal'[j] = latest[j] \/ (latest[j] \in Outcome /\ journal'[j] = "none")
  BY <1>1, CompactedFields DEF Outcome
<1>4. ASSUME a.ok
      PROVE  /\ history'[i] = status /\ journal'[i] \in {status, "none"}
             /\ \A j \in Task \ {i} :
                   \/ history'[j] = history[j] /\ journal'[j] \in {journal[j], history[j]}
                   \/ history[j] \in Outcome /\ history'[j] = "none" /\ journal'[j] = "none"
  <2>1. CASE history' = latest /\ journal' = [journal EXCEPT ![i] = status]
    BY <1>1, <2>1
  <2>2. CASE journal' \in Compacted(latest) /\ history' = [journal' EXCEPT ![i] = status]
    <3>1. history'[i] = status /\ \A j \in Task \ {i} : history'[j] = journal'[j]
      BY <1>2, <2>2
    <3> QED
      BY <1>1, <1>3, <2>2, <3>1
  <2> QED
    BY <1>2, <1>4, <2>1, <2>2
<1>5. ASSUME ~a.ok
      PROVE  history' = history /\ \A j \in Task \ {i} : journal'[j] = journal[j]
  BY <1>1, <1>2, <1>5
<1>6. \A j \in Task : Keeps(j)
  <2> TAKE j \in Task
  <2>1. CASE j = i
    BY <2>1 DEF Keeps
  <2>2. CASE j # i /\ a.ok
    BY <1>4, <2>2 DEF Keeps
  <2>3. CASE ~a.ok
    BY <1>5, <2>3 DEF Keeps
  <2> QED
    BY <1>2, <2>1, <2>2, <2>3
<1> QED
  BY <1>2, <1>4, <1>5, <1>6

\* The runner ends: no task is left running, and its records stay.
LEMMA EndsStay ==
    ASSUME IInv, RunnerEnds
    PROVE  /\ \A i \in Task : /\ table'.work[i].at = "absent" <=> table.work[i].at = "absent"
                              /\ table'.work[i].at # "live"
           /\ mode' = "off"
<1>1. /\ mode' = "off"
      /\ table' = Emptied(table) /\ Task \subseteq Managed
  BY TypeFacts DEF RunnerEnds
<1>2. table'.work = [i \in Managed |->
        IF i \in Task /\ table.work[i].at # "absent" THEN [Absent EXCEPT !.at = "gone"] ELSE Absent]
  BY <1>1 DEF Emptied, Empty
<1>3. Absent.at = "absent" /\ [Absent EXCEPT !.at = "gone"].at = "gone"
  BY DEF Absent
<1> QED
  BY <1>1, <1>2, <1>3

\* How the records and the table may change together.
LEMMA RecordStep ==
    ASSUME HistoryInv, ~torn', NEW i \in Task,
           \A j \in Task \ {i} : /\ table'.work[j].at = "absent" => table.work[j].at = "absent"
                                 /\ table'.work[j].at = "live" => table.work[j].at = "live"
                                 /\ \/ history'[j] = history[j] /\ journal'[j] \in {journal[j], history[j]}
                                    \/ history[j] \in Outcome /\ history'[j] = "none" /\ journal'[j] = "none"
                                 /\ mode' \in {"on", "closing"} =>
                                       /\ mode \in {"on", "closing"}
                                       /\ table.work[j].at = "live" => table'.work[j].at = "live",
           table'.work[i].at # "absent",
           table'.work[i].at = "live" => history'[i] \in {"none", "running"},
           history'[i] \in Outcome => journal'[i] \in {history'[i], "none"},
           mode' \in {"on", "closing"} /\ history'[i] = "running" => table'.work[i].at = "live"
    PROVE  HistoryInv'
<1>1. \A j \in Task \ {i} :
        /\ table'.work[j].at = "absent" => history'[j] = "none" /\ journal'[j] = "none"
        /\ table'.work[j].at = "live" => history'[j] \in {"none", "running"}
        /\ history'[j] \in Outcome => journal'[j] \in {history'[j], "none"}
        /\ mode' \in {"on", "closing"} /\ history'[j] = "running" => table'.work[j].at = "live"
  BY DEF HistoryInv, Outcome
<1> QED
  BY <1>1 DEF HistoryInv, Outcome

LEMMA MarkInterruptedRecords ==
    ASSUME IInv, HistoryInv, ~ShortWrites, NEW i \in Task, MarkInterrupted(i)
    PROVE  HistoryInv' /\ \A j \in Task : Keeps(j)
<1>1. /\ history[i] = "running" /\ mode = "loading" /\ history[i] \notin Outcome
      /\ table.work[i].at # "absent" /\ table.work[i].at # "live"
  BY TypeFacts DEF MarkInterrupted, Outcome, HistoryInv, IInv, ModeInv
<1>2. PICK a \in Appends(i, "interrupted") :
         /\ Recording(a)
         /\ IF a.ok THEN UNCHANGED <<table, mode, bulk, stopping, revocation, definitions, stopped, kept>>
            ELSE RunnerEnds
  BY DEF MarkInterrupted
<1>3. /\ ~torn' /\ \A j \in Task : Keeps(j)
      /\ a.ok => /\ history'[i] = "interrupted" /\ journal'[i] \in {"interrupted", "none"}
                 /\ \A j \in Task \ {i} :
                       \/ history'[j] = history[j] /\ journal'[j] \in {journal[j], history[j]}
                       \/ history[j] \in Outcome /\ history'[j] = "none" /\ journal'[j] = "none"
      /\ ~a.ok => history' = history /\ \A j \in Task \ {i} : journal'[j] = journal[j]
  BY <1>1, <1>2, RecordWritten DEF TaskStatus
<1>4. CASE a.ok
  BY <1>1, <1>2, <1>3, <1>4, RecordStep DEF Outcome
<1>5. CASE ~a.ok
  BY <1>1, <1>2, <1>3, <1>5, EndsStay, RecordStep
<1> QED
  BY <1>3, <1>4, <1>5

LEMMA StartTaskRecords ==
    ASSUME IInv, HistoryInv, ~ShortWrites, NEW i \in Task, StartTask(i)
    PROVE  HistoryInv' /\ \A j \in Task : Keeps(j)
<1>1. /\ mode = "on" /\ mode' = mode /\ table.work[i].at = "absent" /\ i \in Managed
      /\ history[i] \notin Outcome /\ history[i] = "none"
      /\ Task \cap Service = {} /\ table.pending \subseteq Service /\ Task \subseteq Managed
  BY TypeFacts, WorkFields, ProcessesAssumption DEF StartTask, Admits, Outcome, HistoryInv
<1>2. PICK t \in Drains(table) :
        IF HasRoom(t)
        THEN table' = Started(t, i) /\ \E a \in Appends(i, "running") : Recording(a)
        ELSE table' = t /\ UNCHANGED <<history, journal, torn>>
  BY DEF StartTask
<1>3. CASE HasRoom(t)
  <2>1. TableInv(t) /\ t.work[i].at = "absent" /\ i \notin t.pending
    BY <1>1, <1>2, Tried
  <2>2. /\ table'.work[i] = Fresh
        /\ \A j \in Managed : j # i => table'.work[j] = t.work[j]
    BY <1>1, <1>2, <1>3, <2>1, StartedFields
  <2>3. \A j \in Task : t.work[j] = table.work[j]
    BY <1>1, <1>2, Tried DEF Fills
  <2>4. PICK a \in Appends(i, "running") : Recording(a)
    BY <1>2, <1>3
  <2>5. /\ ~torn' /\ \A j \in Task : Keeps(j)
        /\ a.ok => /\ history'[i] = "running" /\ journal'[i] \in {"running", "none"}
                   /\ \A j \in Task \ {i} :
                         \/ history'[j] = history[j] /\ journal'[j] \in {journal[j], history[j]}
                         \/ history[j] \in Outcome /\ history'[j] = "none" /\ journal'[j] = "none"
        /\ ~a.ok => history' = history /\ \A j \in Task \ {i} : journal'[j] = journal[j]
    BY <1>1, <2>4, RecordWritten DEF TaskStatus
  <2>6. /\ table'.work[i].at = "live"
        /\ \A j \in Task \ {i} : table'.work[j] = table.work[j]
    BY <1>1, <2>2, <2>3 DEF Fresh
  <2>7. /\ history'[i] \in {"none", "running"}
        /\ \A j \in Task \ {i} :
              \/ history'[j] = history[j] /\ journal'[j] \in {journal[j], history[j]}
              \/ history[j] \in Outcome /\ history'[j] = "none" /\ journal'[j] = "none"
    BY <1>1, <2>5
  <2> QED
    BY <1>1, <2>5, <2>6, <2>7, RecordStep DEF Outcome
<1>4. CASE ~HasRoom(t)
  <2>1. table' \in Drains(table) /\ UNCHANGED <<mode, history, journal, torn>>
    BY <1>1, <1>2, <1>4
  <2>2. Turned(table)
    BY <2>1, StillShrunk, TypeFacts DEF Turned
  <2>3. TasksStay
    BY <2>2, TurnedStay
  <2> QED
    BY <2>1, <2>3, RecordsStay DEF Keeps
<1> QED
  BY <1>3, <1>4

LEMMA CloseRecords ==
    ASSUME IInv, HistoryInv, ~ShortWrites, NEW i \in Task, NEW crashed \in BOOLEAN, Close(i, crashed)
    PROVE  HistoryInv' /\ \A j \in Task : Keeps(j)
<1>1. /\ table.work[i].at = "live" /\ i \notin Service /\ Task \subseteq Managed
      /\ history[i] \notin Outcome /\ mode \in {"on", "closing"} /\ table.work[i].at \in Running
  BY TypeFacts, ProcessesAssumption, Serving DEF Close, Outcome, HistoryInv, Running
<1>2. PICK a \in Appends(i, "exited") :
         /\ Recording(a)
         /\ IF a.ok THEN /\ table' \in Completions(table, i)
                         /\ UNCHANGED <<mode, bulk, stopping, revocation, definitions, stopped, kept>>
            ELSE RunnerEnds
  BY <1>1 DEF Close
<1>3. /\ ~torn' /\ \A j \in Task : Keeps(j)
      /\ a.ok => /\ history'[i] = "exited" /\ journal'[i] \in {"exited", "none"}
                 /\ \A j \in Task \ {i} :
                       \/ history'[j] = history[j] /\ journal'[j] \in {journal[j], history[j]}
                       \/ history[j] \in Outcome /\ history'[j] = "none" /\ journal'[j] = "none"
      /\ ~a.ok => history' = history /\ \A j \in Task \ {i} : journal'[j] = journal[j]
  BY <1>1, <1>2, RecordWritten DEF TaskStatus
<1>4. CASE a.ok
  <2>1. PICK t : /\ Turned(t) /\ t.work[i].at = "done"
                 /\ \A j \in Managed : j # i => t.work[j] = table.work[j]
    BY <1>1, <1>2, <1>4, CompletionsTurned
  <2>2. table'.work[i].at = "done" /\ \A j \in Task \ {i} : table'.work[j] = table.work[j]
    BY <1>1, <2>1, TurnedTasks
  <2> QED
    BY <1>1, <1>2, <1>3, <1>4, <2>2, RecordStep DEF Outcome
<1>5. CASE ~a.ok
  BY <1>1, <1>2, <1>3, <1>5, EndsStay, RecordStep
<1> QED
  BY <1>3, <1>4, <1>5

LEMMA RunnerRecords ==
    ASSUME IInv, HistoryInv, Exit \/ Load \/ Serve \/ Shutdown
    PROVE  HistoryInv' /\ \A j \in Task : Keeps(j)
<1>1. CASE Exit
  <2>1. /\ \A i \in Task : /\ table'.work[i].at = "absent" <=> table.work[i].at = "absent"
                           /\ table'.work[i].at # "live"
        /\ mode' = "off" /\ UNCHANGED <<history, journal, torn>>
    BY <1>1, EndsStay DEF Exit
  <2> QED
    BY <2>1 DEF HistoryInv, Keeps
<1>2. CASE Load
  BY <1>2, TypeFacts DEF Load, HistoryInv, Keeps, Outcome, IInv, ModeInv
<1>3. CASE Serve
  <2> DEFINE t == [table EXCEPT !.pending = definitions]
  <2>1. /\ mode = "loading" /\ mode' = "on" /\ table' \in FillSlots(t)
        /\ table \in Table /\ TableInv(table) /\ definitions \subseteq Service /\ Service \subseteq Managed
        /\ Task \cap Service = {} /\ Task \subseteq Managed
        /\ \A i \in Task : history[i] # "running"
    BY <1>3, TypeFacts, ProcessesAssumption DEF Serve
  <2>2. /\ t \in Table /\ t.work = table.work /\ t.terminals = {} /\ t.pending = definitions
        /\ t.unstartable = {} /\ t.alive = {}
    BY <2>1 DEF IInv, ModeInv, Table, TableInv
  <2> HIDE DEF t
  <2>3. \A i \in Managed : t.work[i].at \in (IF i \in Task THEN {"absent", "gone"} ELSE {"absent"})
    BY <2>1, <2>2 DEF IInv, ModeInv
  <2>4. TableInv(t)
    <3>1. Count(t) = Count(table)
      BY <2>1, <2>2 DEF Count, IInv, ModeInv
    <3> QED
      BY <2>1, <2>2, <2>3, <3>1 DEF TableInv, Restarting
  <2>5. TasksStay
    <3>1. PICK go \in SUBSET definitions : Fills(t, table', go)
      BY <2>1, <2>2, <2>4, FillSlotsFields
    <3> QED
      BY <2>1, <2>2, <3>1 DEF Fills, TasksStay
  <2>6. CASE UNCHANGED <<history, journal, torn>>
    BY <2>1, <2>5, <2>6, RecordsStay DEF Keeps
  <2>7. ASSUME NEW h \in Compacted(history), Recording([journal |-> h, torn |-> FALSE, history |-> h])
        PROVE  HistoryInv' /\ \A j \in Task : Keeps(j)
    <3>1. /\ journal' = h /\ history' = h /\ ~torn' /\ history \in [Task -> TaskStatus]
      BY <2>7 DEF Recording, IInv, TypeOK
    <3>2. \A i \in Task : h[i] = history[i] \/ (history[i] \in Outcome /\ h[i] = "none")
      BY <3>1, CompactedFields DEF Outcome
    <3> QED
      BY <2>1, <2>5, <3>1, <3>2 DEF HistoryInv, Keeps, TasksStay
  <2> QED
    BY <1>3, <2>6, <2>7 DEF Serve
<1>4. CASE Shutdown
  <2>1. /\ mode = "on" /\ UNCHANGED <<history, journal, torn>> /\ TasksStay
    BY <1>4, ShutdownShrunk, TypeFacts DEF Shutdown, TasksStay
  <2> QED
    BY <2>1, RecordsStay DEF Keeps
<1> QED
  BY <1>1, <1>2, <1>3, <1>4

LEMMA RecordsNext ==
    ASSUME IInv, HistoryInv, ~ShortWrites, [Next]_vars
    PROVE  HistoryInv' /\ \A j \in Task : Keeps(j)
<1>1. CASE UNCHANGED vars
  BY <1>1 DEF vars, HistoryInv, Keeps
<1>2. CASE Exit \/ Load \/ Serve \/ Shutdown
  BY <1>2, RunnerRecords
<1>3. CASE \E i \in Task : MarkInterrupted(i)
  BY <1>3, MarkInterruptedRecords
<1>4. CASE \E i \in Task : StartTask(i)
  BY <1>4, StartTaskRecords
<1>5. CASE \E i \in Task : \E crashed \in BOOLEAN : Close(i, crashed)
  BY <1>5, CloseRecords
<1>6. CASE \/ StopAll \/ BulkEnds \/ RevokeTerminals \/ RevokeGroups
           \/ \E i \in Session : StartSession(i) \/ CloseDropped(i)
           \/ \E i \in Service : StartService(i) \/ RestartDue(i) \/ Restart(i)
           \/ \E x \in Terminal : OpenTerminal(x) \/ TerminalEnds(x)
           \/ \E o \in Owner : Revoke(o)
           \/ \E i \in Managed : GroupEnds(i) \/ Limit(i) \/ Discard(i) \/ Stop(i)
           \/ \E i \in Managed \ Task : \E crashed \in BOOLEAN : Close(i, crashed)
           \/ \E i \in Managed : \E op \in {"stop", "bulk"} : StopEnds(op, i)
           \/ \E x \in Managed \cup Terminal : BulkStep(x)
  <2>1. TasksStay /\ UNCHANGED <<mode, history, journal, torn>>
    BY <1>6, StaySteps
  <2> QED
    BY <2>1, RecordsStay DEF Keeps
<1> QED
  BY <1>1, <1>2, <1>3, <1>4, <1>5, <1>6 DEF Next

LEMMA RecordsInit ==
    ASSUME Init
    PROVE  HistoryInv
BY DEF Init, HistoryInv

LEMMA RecordsInvariance ==
    ASSUME ~ShortWrites
    PROVE  Spec => [](IInv /\ HistoryInv)
<1>1. Init => IInv /\ HistoryInv
  BY InitInv, RecordsInit
<1>2. IInv /\ HistoryInv /\ [Next]_vars => IInv' /\ HistoryInv'
  BY NextInv, RecordsNext
<1> QED
  BY <1>1, <1>2, PTL DEF Spec

(***************************************************************************)
(* While the runner serves, a task that is reported as running has a       *)
(* process, and one that is reported as interrupted is not found running   *)
(* by the next start: as long as every record is written whole or not at   *)
(* all, which no write to a file guarantees.                               *)
(***************************************************************************)
THEOREM RunningTasksRun ==
    ASSUME ~ShortWrites
    PROVE  Spec => []RunningIsLive
<1>1. IInv /\ HistoryInv => RunningIsLive
  BY DEF HistoryInv, RunningIsLive
<1> QED
  BY <1>1, RecordsInvariance, PTL

(***************************************************************************)
(* The outcome of a task does not change once it is known, under the same  *)
(* condition.                                                              *)
(***************************************************************************)
THEOREM OutcomesAreKept ==
    ASSUME ~ShortWrites
    PROVE  Spec => OutcomeKept
<1>1. IInv /\ HistoryInv /\ [Next]_vars =>
        [\A i \in Task : history[i] \in {"exited", "interrupted"} =>
            history'[i] \in {history[i], "none"}]_vars
  BY RecordsNext DEF Keeps, Outcome
<1> QED
  BY <1>1, RecordsInvariance, PTL DEF Spec, OutcomeKept
=============================================================================
