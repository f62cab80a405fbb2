------------------------- MODULE RecordedRuns_proofs -------------------------
(***************************************************************************)
(* Proofs about the two logs by which work is not done twice: the journal   *)
(* of the workflow engine, and the annex of runs beside the drafting of     *)
(* missing knowledge.  They share no variable; a process of one never       *)
(* touches the other.                                                       *)
(*                                                                         *)
(* The journal, for any number of keys, steps, attempts, cancelling          *)
(* processes, runs and kills, when one process drives: Inv is inductive      *)
(* whatever a kill does to the last line; Committed is inductive beside it   *)
(* when a kill never leaves part of a line behind, and with Ordered beside   *)
(* both, every step is one of DurableRuns.                                  *)
(*                                                                         *)
(* Drafting, for any gaps, answers, prices, caps, reviewers, authors, packs  *)
(* and kills: DraftingInv is inductive for any number of drafters;          *)
(* DraftedOnce is inductive beside it when one drafts at a time.             *)
(***************************************************************************)
EXTENDS WorkflowJournal, Drafting, SequenceTheorems, FiniteSetTheorems, WellFoundedInduction,
        TLAPS

\* The package's own hosts run one driving process beside the journal.
OneDriver == \A v, w \in Driver : v = w

Driven == {"start", "args", "body", "attempt", "step", "effect", "record"}
InStep == {"attempt", "step", "effect", "record"}

\* What holds of a process whose row is j: only a driver drives, what it points
\* at is there, and what it read of the journal before it acts is still so.
RowOK(w, j) ==
    /\ j.at \in Driven => w \in Driver
    /\ j.at \notin {"idle", "start"} => j.on \in DOMAIN run
    /\ j.todo \subseteq DOMAIN run
    /\ j.at = "start" => j.key \in Key /\ StartedUnder(j.key) = {}
    /\ j.at \in InStep => j.step \in Steps /\ j.step \notin run[j.on].done

Inv ==
    /\ TypeOK
    /\ \A w \in Worker : RowOK(w, worker[w])
    /\ OneRunPerKey

-----------------------------------------------------------------------------
(* What the steps do to the runs *)

\* A step that mints no run: the rows keep what they were started with.
RowsKept ==
    /\ run' \in Seq(RunRow)
    /\ Len(run') = Len(run)
    /\ \A q \in DOMAIN run : run'[q].key = run[q].key /\ run'[q].known = run[q].known

\* Nor does it record a step.
DoneKept == \A q \in DOMAIN run : run'[q].done = run[q].done

\* The runs are numbered from one, and there are at most MaxRuns.
LEMMA RunsNumbered ==
    ASSUME TypeOK
    PROVE  /\ DOMAIN run = 1 .. Len(run) /\ Len(run) \in Nat
           /\ DOMAIN run \subseteq Run
           /\ \A q \in DOMAIN run : run[q] \in RunRow
<1>1. run \in Seq(RunRow) /\ Len(run) <= MaxRuns /\ MaxRuns \in Nat
  BY WorkflowAssumption DEF TypeOK
<1>2. DOMAIN run = 1 .. Len(run) /\ Len(run) \in Nat /\ \A q \in 1 .. Len(run) : run[q] \in RunRow
  BY <1>1
<1> QED
  BY <1>1, <1>2 DEF Run

\* An append to a run's row replaces that row, or is lost behind a torn line.
LEMMA Appended ==
    ASSUME TypeOK, NEW r \in DOMAIN run, NEW row \in RunRow, AppendTo(r, row)
    PROVE  /\ run' \in Seq(RunRow) /\ Len(run') = Len(run) /\ DOMAIN run' = DOMAIN run
           /\ \A q \in DOMAIN run :
                run'[q] = IF q = r /\ ~torn THEN row ELSE run[q]
           /\ torn' = FALSE
<1> DEFINE new == Fold(run[r], row)
<1>1. run \in Seq(RunRow) /\ r \in 1 .. Len(run)
  BY RunsNumbered DEF TypeOK
<1>2. new \in RunRow
  BY RunsNumbered DEF Fold
<1>3. run' = [run EXCEPT ![r] = new] /\ torn' = FALSE
  BY DEF AppendTo
<1>4. run' \in Seq(RunRow) /\ Len(run') = Len(run)
      /\ \A q \in 1 .. Len(run) : run'[q] = IF q = r THEN new ELSE run[q]
  <2> HIDE DEF new
  <2> QED
    BY <1>1, <1>2, <1>3, ExceptSeq
<1> QED
  BY <1>1, <1>3, <1>4, RunsNumbered DEF Fold

\* Such a row keeps key and known, so the rows are kept.
LEMMA AppendedKeeps ==
    ASSUME TypeOK, NEW r \in DOMAIN run, NEW row \in RunRow, AppendTo(r, row),
           row.key = run[r].key, row.known = run[r].known
    PROVE  /\ RowsKept
           /\ row.done = run[r].done => DoneKept
BY Appended DEF RowsKept, DoneKept

\* A status record keeps everything but the status.
LEMMA FinishKeeps ==
    ASSUME TypeOK, NEW r \in DOMAIN run, NEW status \in Terminal, Finish(r, status)
    PROVE  RowsKept /\ DoneKept
<1> DEFINE row == [run[r] EXCEPT !.status = status]
<1>1. run[r] \in RunRow
  BY RunsNumbered
<1>2. row \in RunRow /\ row.key = run[r].key /\ row.known = run[r].known
      /\ row.done = run[r].done
  BY <1>1 DEF RunRow
<1>3. AppendTo(r, row)
  BY DEF Finish
<1> HIDE DEF row
<1> QED
  BY <1>2, <1>3, AppendedKeeps

\* A step that leaves the runs alone keeps them.
LEMMA SameRunsKeep ==
    ASSUME TypeOK, UNCHANGED run
    PROVE  RowsKept /\ DoneKept
BY DEF TypeOK, RowsKept, DoneKept

\* Among the runs to drive one was minted first.
LEMMA FirstIsOne ==
    ASSUME NEW S, S \subseteq Nat, S # {}
    PROVE  First(S) \in S
<1> DEFINE R == OpToRel(<, Nat)
<1>1. IsWellFoundedOn(R, Nat)
  BY NatLessThanWellFounded
<1> HIDE DEF R
<1>2. PICK x \in S : \A y \in S : <<y, x>> \notin R
  BY <1>1, WFMin
<1>3. \A y \in S : ~(y < x)
  BY <1>2 DEF R, OpToRel
<1>4. \A y \in S : x <= y
  BY <1>3
<1> QED
  BY <1>2, <1>4 DEF First

-----------------------------------------------------------------------------
(* What the steps do to the processes *)

\* A row that is right stays right while the rows are kept.
LEMMA RowStays ==
    ASSUME TypeOK, RowsKept, DoneKept, NEW w, NEW j, RowOK(w, j)
    PROVE  RowOK(w, j)'
<1>1. DOMAIN run' = DOMAIN run
  BY RunsNumbered DEF RowsKept
<1>2. \A key : StartedUnder(key)' = StartedUnder(key)
  BY <1>1 DEF StartedUnder, Known, RowsKept
<1>3. j.at \in InStep => j.on \in DOMAIN run
  BY DEF RowOK, InStep
<1> QED
  BY <1>1, <1>2, <1>3 DEF RowOK, DoneKept

\* One process moves to a row that is right, and the runs are kept.
LEMMA Moves ==
    ASSUME Inv, RowsKept, DoneKept, NEW w \in Worker, NEW j \in WorkerRow, RowOK(w, j),
           worker' = [worker EXCEPT ![w] = j],
           effects' \subseteq Effect, torn' \in BOOLEAN,
           fired' \in [Effect -> Nat], crashes' \in 0 .. MaxCrashes
    PROVE  Inv'
<1>1. TypeOK'
  BY DEF Inv, TypeOK, RowsKept
<1>2. ASSUME NEW v \in Worker PROVE RowOK(v, worker[v])'
  <2>1. worker'[v] = IF v = w THEN j ELSE worker[v]
    BY DEF Inv, TypeOK
  <2>2. PICK x : x = worker'[v]
    OBVIOUS
  <2>3. RowOK(v, x)
    BY <2>1, <2>2 DEF Inv
  <2>4. RowOK(v, x)'
    BY <2>3, RowStays DEF Inv
  <2> QED
    BY <2>2, <2>4
<1>3. OneRunPerKey'
  <2>1. DOMAIN run' = DOMAIN run
    BY RunsNumbered DEF RowsKept, Inv
  <2> QED
    BY <2>1 DEF Inv, OneRunPerKey, Known, RowsKept
<1> QED
  BY <1>1, <1>2, <1>3 DEF Inv

\* A process that does nothing points at nothing.
LEMMA IdleOK ==
    ASSUME WorkflowAssumption, NEW w
    PROVE  Idle \in WorkerRow /\ RowOK(w, Idle)
BY WorkflowAssumption DEF Idle, WorkerRow, RowOK, Driven, InStep

\* Nor does a driver that begins to drive runs that are there point anywhere else.
LEMMA DrivingOK ==
    ASSUME Inv, NEW w \in Driver, NEW S, S \subseteq DOMAIN run
    PROVE  Driving(S) \in WorkerRow /\ RowOK(w, Driving(S))
<1>1. CASE S = {}
  BY <1>1, IdleOK, WorkflowAssumption DEF Driving
<1>2. CASE S # {}
  <2> DEFINE r == First(S)
             j == [Idle EXCEPT !.at = "args", !.on = r, !.todo = S \ {r}, !.args = run[r].args]
  <2>1. S \subseteq Run /\ S \subseteq Nat
    BY RunsNumbered DEF Inv, Run
  <2>2. r \in S
    BY <1>2, <2>1, FirstIsOne
  <2>3. run[r].args \in {"none", "given", "empty"}
    BY <2>2, RunsNumbered DEF Inv, RunRow
  <2> HIDE DEF r
  <2>4. j \in WorkerRow
    <3>1. /\ S \ {r} \in SUBSET Run /\ r \in {0} \cup Run
          /\ 0 \in 0 .. NSteps + 1 /\ 0 \in 0 .. MaxAttempts
      BY <2>1, <2>2, WorkflowAssumption
    <3> QED
      BY <2>3, <3>1, IdleOK, WorkflowAssumption, Zenon DEF WorkerRow
  <2>5. RowOK(w, j)
    BY <2>2 DEF Idle, RowOK, Driven, InStep
  <2> QED
    BY <1>2, <2>4, <2>5 DEF Driving, r
<1> QED
  BY <1>1, <1>2

\* A driver that leaves its run begins the next, or nothing.
LEMMA LeaveInv ==
    ASSUME Inv, RowsKept, DoneKept, NEW w \in Driver, Leave(w),
           torn' \in BOOLEAN, UNCHANGED <<effects, fired, crashes>>
    PROVE  Inv'
<1>1. worker[w].todo \subseteq DOMAIN run
  BY DEF Inv, RowOK, Worker
<1>2. Driving(worker[w].todo) \in WorkerRow /\ RowOK(w, Driving(worker[w].todo))
  BY <1>1, DrivingOK
<1>3. worker' = [worker EXCEPT ![w] = Driving(worker[w].todo)]
  BY DEF Leave
<1>4. w \in Worker /\ effects' \subseteq Effect /\ fired' \in [Effect -> Nat]
      /\ crashes' \in 0 .. MaxCrashes
  BY DEF Inv, TypeOK, Worker
<1> QED
  BY <1>2, <1>3, <1>4, Moves

\* A process that becomes idle.
LEMMA IdleInv ==
    ASSUME Inv, RowsKept, DoneKept, NEW w \in Worker, worker' = [worker EXCEPT ![w] = Idle],
           torn' \in BOOLEAN, crashes' \in 0 .. MaxCrashes, UNCHANGED <<effects, fired>>
    PROVE  Inv'
<1>1. effects' \subseteq Effect /\ fired' \in [Effect -> Nat]
  BY DEF Inv, TypeOK
<1> QED
  BY <1>1, IdleOK, Moves, WorkflowAssumption

\* A process where it drives is a driver's, and its run is there.
LEMMA DriverHere ==
    ASSUME Inv, NEW w \in Worker
    PROVE  /\ worker[w] \in WorkerRow
           /\ worker[w].at \in Driven => w \in Driver
           /\ worker[w].at \notin {"idle", "start"} =>
                /\ Current(w) \in DOMAIN run
                /\ run[Current(w)] \in RunRow
BY RunsNumbered DEF Inv, TypeOK, RowOK, Current

-----------------------------------------------------------------------------
(* Each step *)

LEMMA StartCheckInv ==
    ASSUME Inv, NEW w \in Driver, NEW key \in Key, StartCheck(w, key)
    PROVE  Inv'
<1> DEFINE j == [Idle EXCEPT !.at = "start", !.key = key]
<1>1. j \in WorkerRow
  BY IdleOK, WorkflowAssumption DEF Idle, WorkerRow
<1>2. RowOK(w, j)
  BY DEF StartCheck, RowOK, Idle, Driven, InStep
<1>3. worker' = [worker EXCEPT ![w] = j]
  BY DEF StartCheck
<1>4. /\ RowsKept /\ DoneKept /\ w \in Worker
      /\ effects' \subseteq Effect /\ torn' \in BOOLEAN /\ fired' \in [Effect -> Nat]
      /\ crashes' \in 0 .. MaxCrashes
  BY SameRunsKeep DEF Inv, TypeOK, StartCheck, Worker
<1> QED
  BY <1>1, <1>2, <1>3, <1>4, Moves

LEMMA StartAppendInv ==
    ASSUME Inv, OneDriver, NEW w \in Worker, StartAppend(w)
    PROVE  Inv'
<1> DEFINE row == [key |-> worker[w].key, known |-> ~torn, status |-> "running",
                   args |-> "none", done |-> {}, cancelled |-> FALSE]
           j == [worker[w] EXCEPT !.at = "args", !.args = "given", !.on = Len(run) + 1]
<1>1. /\ worker[w] \in WorkerRow /\ worker[w].at = "start" /\ w \in Driver
      /\ worker[w].key \in Key /\ StartedUnder(worker[w].key) = {}
      /\ worker[w].todo \subseteq DOMAIN run
  BY DEF StartAppend, Inv, TypeOK, RowOK, Driven
<1>2. row \in RunRow
  BY <1>1 DEF RunRow, Inv, TypeOK
<1>3. /\ run \in Seq(RunRow) /\ Len(run) \in Nat /\ DOMAIN run = 1 .. Len(run)
      /\ Len(run) < MaxRuns /\ MaxRuns \in Nat
  BY RunsNumbered, WorkflowAssumption DEF Inv, TypeOK, StartAppend
<1>4. run' = Append(run, row) /\ worker' = [worker EXCEPT ![w] = j] /\ torn' = FALSE
  BY <1>1 DEF StartAppend, Inv, TypeOK, WorkerRow
<1> HIDE DEF row
<1>5. /\ run' \in Seq(RunRow) /\ Len(run') = Len(run) + 1
      /\ \A q \in 1 .. Len(run) : run'[q] = run[q]
      /\ run'[Len(run) + 1] = row
  BY <1>2, <1>3, <1>4, AppendProperties
<1>6. DOMAIN run' = 1 .. (Len(run) + 1)
  BY <1>5
<1>7. j \in WorkerRow
  <2>1. Len(run) + 1 \in Run
    BY <1>3 DEF Run
  <2> QED
    BY <1>1, <2>1, Zenon DEF WorkerRow
<1>8. TypeOK'
  <2>1. worker' \in [Worker -> WorkerRow] /\ torn' \in BOOLEAN
    BY <1>4, <1>7 DEF Inv, TypeOK
  <2>2. run' \in Seq(RunRow) /\ Len(run') <= MaxRuns
    BY <1>3, <1>5
  <2> QED
    BY <2>1, <2>2 DEF Inv, TypeOK, StartAppend
<1>9. ASSUME NEW v \in Worker PROVE RowOK(v, worker[v])'
  <2>1. CASE v = w
    <3>1. worker'[v] = j
      BY <1>4, <2>1 DEF Inv, TypeOK
    <3> QED
      <4>1. /\ j.at = "args" /\ j.on = Len(run) + 1 /\ j.todo = worker[w].todo
        BY <1>1 DEF WorkerRow
      <4>2. Len(run) + 1 \in DOMAIN run' /\ DOMAIN run \subseteq DOMAIN run'
        BY <1>3, <1>6
      <4> HIDE DEF j
      <4> QED
        BY <1>1, <2>1, <3>1, <4>1, <4>2 DEF RowOK, Driven, InStep
  <2>2. CASE v # w
    <3>1. worker'[v] = worker[v] /\ worker[v].at \notin Driven
      BY <1>1, <1>4, <2>2 DEF Inv, TypeOK, RowOK, OneDriver
    <3> QED
      BY <1>3, <1>6, <3>1 DEF Inv, RowOK, Driven, InStep
  <2> QED
    BY <2>1, <2>2
<1>10. OneRunPerKey'
  <2>1. \A q \in Known : run[q].key # row.key
    BY <1>1 DEF StartedUnder, row
  <2>2. \A q \in DOMAIN run : run'[q] = run[q]
    BY <1>3, <1>5
  <2>3. \A q \in DOMAIN run' : q \in DOMAIN run \/ q = Len(run) + 1
    BY <1>3, <1>6
  <2> QED
    BY <1>5, <2>1, <2>2, <2>3 DEF Inv, OneRunPerKey, Known
<1> QED
  BY <1>8, <1>9, <1>10 DEF Inv

LEMMA RecordArgsInv ==
    ASSUME Inv, NEW w \in Worker, RecordArgs(w)
    PROVE  Inv'
<1> DEFINE args == IF worker[w].args = "none" THEN "empty" ELSE worker[w].args
           row == [run[Current(w)] EXCEPT !.args = args]
           j == [worker[w] EXCEPT !.at = "body", !.args = args, !.step = 1]
<1>1. /\ worker[w] \in WorkerRow /\ worker[w].at = "args" /\ w \in Driver
      /\ Current(w) \in DOMAIN run /\ run[Current(w)] \in RunRow
  BY DriverHere DEF RecordArgs, Driven
<1>2. args \in {"none", "given", "empty"}
  BY <1>1 DEF WorkerRow
<1>3. row \in RunRow /\ row.key = run[Current(w)].key /\ row.known = run[Current(w)].known
      /\ row.done = run[Current(w)].done
  BY <1>1, <1>2 DEF RunRow
<1>4. j \in WorkerRow
  <2>1. 1 \in 0 .. NSteps + 1
    BY WorkflowAssumption
  <2> HIDE DEF args
  <2> QED
    BY <1>1, <1>2, <2>1, Zenon DEF WorkerRow
<1>5. worker' = [worker EXCEPT ![w] = j]
  BY <1>1 DEF RecordArgs, Inv, TypeOK, WorkerRow
<1>6. UNCHANGED <<run, torn>> \/ AppendTo(Current(w), row)
  BY DEF RecordArgs
<1>7. RowOK(w, j)
  BY <1>1 DEF Inv, RowOK, WorkerRow, Current, Driven, InStep
<1> HIDE DEF row, j
<1>8. RowsKept /\ DoneKept /\ torn' \in BOOLEAN
  BY <1>1, <1>3, <1>6, SameRunsKeep, AppendedKeeps, Appended DEF Inv, TypeOK
<1>9. /\ effects' \subseteq Effect /\ fired' \in [Effect -> Nat] /\ crashes' \in 0 .. MaxCrashes
  BY DEF Inv, TypeOK, RecordArgs
<1> QED
  BY <1>4, <1>5, <1>7, <1>8, <1>9, Moves

LEMMA BodyInv ==
    ASSUME Inv, NEW w \in Worker, BodyRaises(w) \/ BodyReturns(w) \/ BodyCancelled(w)
    PROVE  Inv'
<1>1. worker[w].at = "body"
  BY DEF BodyRaises, BodyReturns, BodyCancelled, InBody
<1>2. w \in Driver /\ Current(w) \in DOMAIN run /\ TypeOK
  BY <1>1, DriverHere DEF Driven, Inv
<1>3. CASE BodyRaises(w)
  BY <1>3, <1>2, SameRunsKeep, IdleInv DEF BodyRaises, TypeOK
<1>4. ASSUME NEW status \in Terminal, Finish(Current(w), status), Leave(w),
             UNCHANGED <<effects, fired, crashes>>
      PROVE  Inv'
  <2>1. RowsKept /\ DoneKept
    BY <1>2, <1>4, FinishKeeps
  <2>2. torn' \in BOOLEAN
    BY <1>4 DEF Finish, AppendTo
  <2> QED
    BY <1>2, <1>4, <2>1, <2>2, LeaveInv
<1> QED
  BY <1>3, <1>4 DEF BodyReturns, BodyCancelled, Terminal

LEMMA EnterStepInv ==
    ASSUME Inv, NEW w \in Worker, EnterStep(w)
    PROVE  Inv'
<1>1. /\ worker[w] \in WorkerRow /\ worker[w].at = "body" /\ w \in Driver
      /\ Current(w) \in DOMAIN run /\ worker[w].step \in Steps
  BY DriverHere DEF EnterStep, InBody, Driven
<1>2. /\ RowsKept /\ DoneKept
      /\ effects' \subseteq Effect /\ torn' \in BOOLEAN /\ fired' \in [Effect -> Nat]
      /\ crashes' \in 0 .. MaxCrashes
  BY SameRunsKeep DEF Inv, TypeOK, EnterStep
<1>3. CASE Recorded(Current(w), worker[w].step)
  <2> DEFINE j == [worker[w] EXCEPT !.step = @ + 1]
  <2>1. worker[w].step + 1 \in 0 .. NSteps + 1
    BY <1>1, WorkflowAssumption DEF Steps
  <2>2. j \in WorkerRow
    BY <1>1, <2>1, Zenon DEF WorkerRow
  <2>3. worker' = [worker EXCEPT ![w] = j]
    BY <1>1, <1>3 DEF EnterStep, Inv, TypeOK, WorkerRow
  <2>4. RowOK(w, j)
    BY <1>1 DEF Inv, RowOK, WorkerRow, Driven, InStep
  <2> QED
    BY <1>2, <2>2, <2>3, <2>4, Moves
<1>4. CASE ~Recorded(Current(w), worker[w].step)
  <2> DEFINE j == [worker[w] EXCEPT !.at = "attempt", !.attempt = 1]
  <2>1. 1 \in 0 .. MaxAttempts
    BY WorkflowAssumption
  <2>2. j \in WorkerRow
    BY <1>1, <2>1, Zenon DEF WorkerRow
  <2>3. worker' = [worker EXCEPT ![w] = j]
    BY <1>1, <1>4 DEF EnterStep, Inv, TypeOK, WorkerRow
  <2>4. RowOK(w, j)
    BY <1>1, <1>4 DEF Inv, RowOK, WorkerRow, Driven, InStep, Recorded, Current
  <2> QED
    BY <1>2, <2>2, <2>3, <2>4, Moves
<1> QED
  BY <1>3, <1>4

\* From one place of an attempt to the next nothing but the place changes.
LEMMA PlaceInv ==
    ASSUME Inv, NEW w \in Worker, NEW at \in InStep, worker[w].at \in InStep,
           worker' = [worker EXCEPT ![w].at = at], UNCHANGED <<run, crashes>>,
           effects' \subseteq Effect, torn' \in BOOLEAN, fired' \in [Effect -> Nat]
    PROVE  Inv'
<1> DEFINE j == [worker[w] EXCEPT !.at = at]
<1>1. worker[w] \in WorkerRow
  BY DriverHere
<1>2. j \in WorkerRow
  BY <1>1, Zenon DEF WorkerRow, InStep
<1>3. worker' = [worker EXCEPT ![w] = j]
  BY <1>1 DEF Inv, TypeOK, WorkerRow
<1>4. RowOK(w, j)
  BY <1>1 DEF Inv, RowOK, WorkerRow, Driven, InStep
<1>5. RowsKept /\ DoneKept /\ crashes' \in 0 .. MaxCrashes
  BY SameRunsKeep DEF Inv, TypeOK
<1> QED
  BY <1>2, <1>3, <1>4, <1>5, Moves

\* The effect a process is about to commit is one of the run's.
LEMMA EffectThere ==
    ASSUME Inv, NEW w \in Worker, worker[w].at \in InStep
    PROVE  EffectOf(w) \in Effect
<1>1. /\ worker[w].step \in Steps /\ Current(w) \in DOMAIN run
      /\ run[Current(w)] \in RunRow
  BY DriverHere DEF Inv, RowOK, InStep
<1> QED
  BY <1>1 DEF EffectOf, Effect, RunRow

LEMMA AttemptInv ==
    ASSUME Inv, NEW w \in Worker, Attempt(w)
    PROVE  Inv'
BY PlaceInv DEF Attempt, InStep, Inv, TypeOK

LEMMA DedupeCheckInv ==
    ASSUME Inv, NEW w \in Worker, DedupeCheck(w)
    PROVE  Inv'
<1>1. PICK at \in {"effect", "record"} : worker' = [worker EXCEPT ![w].at = at]
  BY DEF DedupeCheck
<1> QED
  BY <1>1, PlaceInv DEF DedupeCheck, InStep, Inv, TypeOK

LEMMA DedupeCommitInv ==
    ASSUME Inv, NEW w \in Worker, DedupeCommit(w)
    PROVE  Inv'
<1>1. EffectOf(w) \in Effect
  BY EffectThere DEF DedupeCommit, InStep
<1>2. effects' \subseteq Effect /\ torn' \in BOOLEAN /\ fired' \in [Effect -> Nat]
  <2>1. effects' \subseteq Effect /\ torn' \in BOOLEAN
    BY <1>1 DEF DedupeCommit, Fold, Inv, TypeOK
  <2>2. fired \in [Effect -> Nat] /\ fired' = [fired EXCEPT ![EffectOf(w)] = @ + 1]
    BY DEF DedupeCommit, Inv, TypeOK
  <2>3. fired[EffectOf(w)] + 1 \in Nat
    BY <1>1, <2>2
  <2>4. fired' \in [Effect -> Nat]
    BY <2>2, <2>3, Zenon
  <2> QED
    BY <2>1, <2>4
<1> QED
  BY <1>2, PlaceInv DEF DedupeCommit, InStep

LEMMA StepRaisesInv ==
    ASSUME Inv, NEW w \in Worker, StepRaises(w)
    PROVE  Inv'
<1>1. /\ worker[w] \in WorkerRow /\ worker[w].at \in {"step", "record"} /\ w \in Driver
      /\ Current(w) \in DOMAIN run
  BY DriverHere DEF StepRaises, Driven
<1>2. CASE AttemptsLeft(w)
  <2> DEFINE j == [worker[w] EXCEPT !.at = "attempt", !.attempt = @ + 1]
  <2>1. worker[w].attempt + 1 \in 0 .. MaxAttempts
    <3>1. worker[w].attempt \in 0 .. MaxAttempts
      BY <1>1 DEF WorkerRow
    <3> QED
      BY <1>2, <3>1, WorkflowAssumption DEF AttemptsLeft
  <2>2. j \in WorkerRow
    BY <1>1, <2>1, Zenon DEF WorkerRow
  <2>3. worker' = [worker EXCEPT ![w] = j]
    BY <1>1, <1>2 DEF StepRaises, Inv, TypeOK, WorkerRow
  <2>4. RowOK(w, j)
    BY <1>1 DEF Inv, RowOK, WorkerRow, Driven, InStep
  <2>5. /\ RowsKept /\ DoneKept
        /\ effects' \subseteq Effect /\ torn' \in BOOLEAN /\ fired' \in [Effect -> Nat]
        /\ crashes' \in 0 .. MaxCrashes
    BY <1>2, SameRunsKeep DEF Inv, TypeOK, StepRaises
  <2> QED
    BY <2>2, <2>3, <2>4, <2>5, Moves
<1>3. CASE ~AttemptsLeft(w)
  <2>1. Finish(Current(w), "failed") /\ Leave(w) /\ UNCHANGED <<effects, fired, crashes>>
    BY <1>3 DEF StepRaises
  <2>2. RowsKept /\ DoneKept /\ torn' \in BOOLEAN
    BY <1>1, <2>1, FinishKeeps DEF Terminal, Finish, AppendTo, Inv
  <2> QED
    BY <1>1, <2>1, <2>2, LeaveInv
<1> QED
  BY <1>2, <1>3

\* A step's record is the only append to what is done; only the one driver reads it.
LEMMA StepReturnsInv ==
    ASSUME Inv, OneDriver, NEW w \in Worker, StepReturns(w)
    PROVE  Inv'
<1> DEFINE r == Current(w)
           row == [run[r] EXCEPT !.done = @ \cup {worker[w].step}]
           j == [worker[w] EXCEPT !.at = "body", !.step = @ + 1, !.attempt = 0]
<1>1. /\ worker[w] \in WorkerRow /\ worker[w].at = "record" /\ w \in Driver
      /\ r \in DOMAIN run /\ run[r] \in RunRow /\ worker[w].step \in Steps
  BY DriverHere DEF StepReturns, Driven, Inv, RowOK, InStep
<1>2. row \in RunRow /\ row.key = run[r].key /\ row.known = run[r].known
  BY <1>1 DEF RunRow
<1>3. AppendTo(r, row)
  BY DEF StepReturns
<1> HIDE DEF row
<1>4. /\ RowsKept /\ torn' = FALSE
      /\ \A q \in DOMAIN run : q # r => run'[q] = run[q]
  BY <1>1, <1>2, <1>3, Appended, AppendedKeeps DEF Inv
<1>5. DOMAIN run' = DOMAIN run /\ \A key : StartedUnder(key)' = StartedUnder(key)
  <2>1. DOMAIN run' = DOMAIN run
    BY <1>4, RunsNumbered DEF RowsKept, Inv
  <2> QED
    BY <1>4, <2>1 DEF StartedUnder, Known, RowsKept
<1>6. j \in WorkerRow
  <2>1. worker[w].step + 1 \in 0 .. NSteps + 1 /\ 0 \in 0 .. MaxAttempts
    BY <1>1, WorkflowAssumption DEF Steps
  <2> QED
    BY <1>1, <2>1, Zenon DEF WorkerRow
<1>7. worker' = [worker EXCEPT ![w] = j]
  BY <1>1 DEF StepReturns, Inv, TypeOK, WorkerRow
<1>8. TypeOK'
  BY <1>4, <1>6, <1>7, ZenonT(60) DEF Inv, TypeOK, RowsKept, StepReturns
<1>9. ASSUME NEW v \in Worker PROVE RowOK(v, worker[v])'
  <2>1. CASE v = w
    <3>1. j.at = "body" /\ j.on = r /\ j.todo = worker[w].todo
      BY <1>1 DEF WorkerRow, Current
    <3>2. worker'[v] = j
      BY <1>7, <2>1 DEF Inv, TypeOK
    <3> HIDE DEF j
    <3> QED
      BY <1>1, <1>5, <2>1, <3>1, <3>2 DEF Inv, RowOK, Driven, InStep
  <2>2. CASE v # w
    <3>1. worker'[v] = worker[v] /\ worker[v].at \notin Driven
      BY <1>1, <1>7, <2>2 DEF Inv, TypeOK, RowOK, OneDriver
    <3> QED
      BY <1>5, <3>1 DEF Inv, RowOK, Driven, InStep
  <2> QED
    BY <2>1, <2>2
<1>10. OneRunPerKey'
  BY <1>4, <1>5 DEF Inv, OneRunPerKey, Known, RowsKept
<1> QED
  BY <1>8, <1>9, <1>10 DEF Inv

LEMMA RecoverInv ==
    ASSUME Inv, NEW w \in Driver, Recover(w)
    PROVE  Inv'
<1>1. Driving(Unfinished) \in WorkerRow /\ RowOK(w, Driving(Unfinished))
  BY DrivingOK DEF Unfinished
<1>2. /\ RowsKept /\ DoneKept /\ w \in Worker
      /\ effects' \subseteq Effect /\ torn' \in BOOLEAN /\ fired' \in [Effect -> Nat]
      /\ crashes' \in 0 .. MaxCrashes
      /\ worker' = [worker EXCEPT ![w] = Driving(Unfinished)]
  BY SameRunsKeep DEF Inv, TypeOK, Recover, Worker
<1> QED
  BY <1>1, <1>2, Moves

LEMMA CancelRequestInv ==
    ASSUME Inv, NEW w \in Canceller, NEW r \in DOMAIN run, CancelRequest(w, r)
    PROVE  Inv'
<1> DEFINE j == [Idle EXCEPT !.at = "cancel", !.on = r]
           row == [run[r] EXCEPT !.cancelled = TRUE]
<1>1. r \in Run /\ run[r] \in RunRow
  BY RunsNumbered DEF Inv
<1>2. j \in WorkerRow
  BY <1>1, IdleOK, WorkflowAssumption, Zenon DEF WorkerRow
<1>3. row \in RunRow /\ row.key = run[r].key /\ row.known = run[r].known
      /\ row.done = run[r].done
  BY <1>1 DEF RunRow
<1>4. AppendTo(r, row) /\ worker' = [worker EXCEPT ![w] = j]
  BY DEF CancelRequest
<1>5. RowOK(w, j)
  BY DEF RowOK, Idle, Driven, InStep
<1> HIDE DEF row, j
<1>6. RowsKept /\ DoneKept /\ torn' \in BOOLEAN
  BY <1>3, <1>4, AppendedKeeps DEF AppendTo, Inv
<1>7. /\ effects' \subseteq Effect /\ fired' \in [Effect -> Nat] /\ crashes' \in 0 .. MaxCrashes
      /\ w \in Worker
  BY DEF Inv, TypeOK, CancelRequest, Worker
<1> QED
  BY <1>2, <1>4, <1>5, <1>6, <1>7, Moves

LEMMA CancelReadInv ==
    ASSUME Inv, NEW w \in Worker, CancelRead(w)
    PROVE  Inv'
<1>1. worker[w] \in WorkerRow /\ worker[w].at = "cancel"
  BY DriverHere DEF CancelRead
<1>2. /\ RowsKept /\ DoneKept
      /\ effects' \subseteq Effect /\ torn' \in BOOLEAN /\ fired' \in [Effect -> Nat]
      /\ crashes' \in 0 .. MaxCrashes
  BY SameRunsKeep DEF Inv, TypeOK, CancelRead
<1>3. CASE InFlight(Current(w))
  <2> DEFINE j == [worker[w] EXCEPT !.at = "cancelling"]
  <2>1. j \in WorkerRow
    BY <1>1, Zenon DEF WorkerRow
  <2>2. RowOK(w, j)
    BY <1>1 DEF Inv, RowOK, WorkerRow, Driven, InStep
  <2>3. worker' = [worker EXCEPT ![w] = j]
    BY <1>3 DEF CancelRead
  <2> QED
    BY <1>2, <2>1, <2>2, <2>3, Moves
<1>4. CASE ~InFlight(Current(w))
  BY <1>2, <1>4, IdleInv DEF CancelRead
<1> QED
  BY <1>3, <1>4

LEMMA CancelFinishInv ==
    ASSUME Inv, NEW w \in Worker, CancelFinish(w)
    PROVE  Inv'
<1>1. Current(w) \in DOMAIN run
  BY DriverHere DEF CancelFinish
<1>2. RowsKept /\ DoneKept
  BY <1>1, FinishKeeps DEF CancelFinish, Terminal, Inv
<1>3. torn' \in BOOLEAN /\ crashes' \in 0 .. MaxCrashes
  BY DEF CancelFinish, Finish, AppendTo, Inv, TypeOK
<1> QED
  BY <1>2, <1>3, IdleInv DEF CancelFinish

LEMMA KillInv ==
    ASSUME Inv, NEW w \in Worker, Kill(w)
    PROVE  Inv'
<1>1. torn' \in BOOLEAN /\ crashes' \in 0 .. MaxCrashes
  <2>1. crashes \in 0 .. MaxCrashes /\ crashes < MaxCrashes /\ MaxCrashes \in Nat
    BY WorkflowAssumption DEF Kill, Inv, TypeOK
  <2>2. crashes' \in 0 .. MaxCrashes
    BY <2>1 DEF Kill
  <2> QED
    BY <2>2 DEF Kill, Inv, TypeOK
<1> QED
  BY <1>1, SameRunsKeep, IdleInv DEF Kill, Inv

\* Every step keeps the invariant.
LEMMA NextInv ==
    ASSUME OneDriver, Inv, [Next]_vars
    PROVE  Inv'
<1>1. CASE UNCHANGED vars
  BY <1>1 DEF vars, Inv, TypeOK, RowOK, StartedUnder, Known, OneRunPerKey
<1>2. ASSUME NEW w \in Driver, NEW key \in Key, StartCheck(w, key) PROVE Inv'
  BY <1>2, StartCheckInv
<1>3. ASSUME NEW w \in Driver, Recover(w) PROVE Inv'
  BY <1>3, RecoverInv
<1>4. ASSUME NEW w \in Canceller, NEW r \in DOMAIN run, CancelRequest(w, r) PROVE Inv'
  BY <1>4, CancelRequestInv
<1>5. ASSUME NEW w \in Worker, Drive(w) PROVE Inv'
  BY <1>5, StartAppendInv, RecordArgsInv, BodyInv, EnterStepInv, AttemptInv, DedupeCheckInv,
     DedupeCommitInv, StepRaisesInv, StepReturnsInv, CancelReadInv, CancelFinishInv DEF Drive
<1>6. ASSUME NEW w \in Worker, Kill(w) PROVE Inv'
  BY <1>6, KillInv
<1> QED
  BY <1>1, <1>2, <1>3, <1>4, <1>5, <1>6 DEF Next

LEMMA InitInv ==
    ASSUME Init
    PROVE  Inv
<1>1. \A w \in Worker : Idle \in WorkerRow /\ RowOK(w, Idle)
  BY IdleOK, WorkflowAssumption
<1>2. 0 \in 0 .. MaxCrashes /\ 0 <= MaxRuns
  BY WorkflowAssumption
<1>3. <<>> \in Seq(RunRow) /\ Len(<<>>) = 0 /\ DOMAIN <<>> = {}
  OBVIOUS
<1>4. TypeOK
  BY <1>1, <1>2, <1>3 DEF Init, TypeOK
<1>5. \A w \in Worker : RowOK(w, worker[w])
  BY <1>1 DEF Init
<1>6. OneRunPerKey
  BY <1>3 DEF Init, OneRunPerKey, Known
<1> QED
  BY <1>4, <1>5, <1>6 DEF Inv

LEMMA AlwaysInv ==
    ASSUME OneDriver
    PROVE  Spec => []Inv
<1>1. Init => Inv
  BY InitInv
<1>2. Inv /\ [Next]_vars => Inv'
  BY NextInv
<1> QED
  BY <1>1, <1>2, PTL DEF Spec

-----------------------------------------------------------------------------
(* Whole lines *)

\* Without torn lines every record that was appended is read: an effect is in the
\* journal exactly if it fired, a run's records tell what it did, and a process
\* knows what the run it drives has done.
Committed ==
    /\ ~torn
    /\ \A e \in Effect : fired[e] = IF e \in effects THEN 1 ELSE 0
    /\ \A r \in DOMAIN run : \A k \in run[r].done : <<run[r].key, k>> \in effects
    /\ \A r \in DOMAIN run : run[r].status = "completed" => run[r].done = Steps
    /\ \A w \in Worker :
         /\ worker[w].at = "effect" => EffectOf(w) \notin effects
         /\ worker[w].at = "record" => EffectOf(w) \in effects
         /\ worker[w].at \in {"body"} \cup InStep =>
              \A k \in Steps : k < worker[w].step => k \in run[Current(w)].done

\* A process whose row is j drives a run that is there.
OnRun(j) == j.at \in {"body"} \cup InStep => j.on \in DOMAIN run

\* The last part of Committed, of a process whose row is j.
RowCommitted(j) ==
    /\ j.at = "effect" => <<run[j.on].key, j.step>> \notin effects
    /\ j.at = "record" => <<run[j.on].key, j.step>> \in effects
    /\ j.at \in {"body"} \cup InStep =>
         \A k \in Steps : k < j.step => k \in run[j.on].done

\* What a step does to the statuses: it completes only a run that has done all.
StatusSound ==
    \A q \in DOMAIN run :
        run'[q].status = "completed" => run[q].status = "completed" \/ run[q].done = Steps

\* One process moves to a row that is right, and neither what is done nor what is
\* committed changes.
LEMMA CommittedMoves ==
    ASSUME Inv, Committed, RowsKept, DoneKept, StatusSound, NEW w \in Worker, NEW j,
           OnRun(j), RowCommitted(j), worker' = [worker EXCEPT ![w] = j],
           ~torn', UNCHANGED <<effects, fired>>
    PROVE  Committed'
<1>1. DOMAIN run' = DOMAIN run
  BY RunsNumbered DEF RowsKept, Inv
<1>2. \A v \in Worker : worker'[v] = IF v = w THEN j ELSE worker[v]
  BY DEF Inv, TypeOK
<1>3. \A r \in DOMAIN run' : \A k \in run'[r].done : <<run'[r].key, k>> \in effects
  BY <1>1 DEF Committed, RowsKept, DoneKept
<1>4. \A r \in DOMAIN run' : run'[r].status = "completed" => run'[r].done = Steps
  BY <1>1 DEF Committed, StatusSound, DoneKept
<1>5. ASSUME NEW x, OnRun(x), RowCommitted(x)
      PROVE  RowCommitted(x)'
  BY <1>5 DEF OnRun, RowCommitted, RowsKept, DoneKept, InStep
<1>6. ASSUME NEW v \in Worker
      PROVE  /\ worker'[v].at = "effect" => EffectOf(v)' \notin effects
             /\ worker'[v].at = "record" => EffectOf(v)' \in effects
             /\ worker'[v].at \in {"body"} \cup InStep =>
                  \A k \in Steps : k < worker'[v].step => k \in run'[Current(v)'].done
  <2>1. PICK x : x = worker'[v]
    OBVIOUS
  <2>2. OnRun(x)
    BY <1>2, <2>1 DEF Inv, RowOK, OnRun, InStep
  <2>3. RowCommitted(x)
    <3>1. RowCommitted(worker[v])
      BY DEF Committed, RowCommitted, EffectOf, Current
    <3> QED
      BY <1>2, <2>1, <3>1
  <2>4. RowCommitted(x)'
    BY <1>5, <2>2, <2>3
  <2> QED
    BY <2>1, <2>4 DEF RowCommitted, EffectOf, Current
<1> QED
  BY <1>3, <1>4, <1>6 DEF Committed

\* A step that leaves the runs alone completes none.
LEMMA SameRunsSound ==
    ASSUME UNCHANGED run
    PROVE  StatusSound
BY DEF StatusSound

\* A row appended with a status that is sound.
LEMMA AppendedSound ==
    ASSUME TypeOK, NEW r \in DOMAIN run, NEW row \in RunRow, AppendTo(r, row),
           \/ row.status = run[r].status
           \/ row.status # "completed"
           \/ run[r].done = Steps
    PROVE  StatusSound
BY Appended DEF StatusSound

\* A process that begins to drive, or is idle, has nothing to know.
LEMMA BeginsCommitted ==
    /\ RowCommitted(Idle)
    /\ \A S : RowCommitted(Driving(S))
BY DEF RowCommitted, Idle, Driving, InStep

\* Nor is it on a run that is not there.
LEMMA BeginsOnRun ==
    /\ OnRun(Idle)
    /\ \A S : OnRun(Driving(S))
BY DEF OnRun, Idle, Driving, InStep

LEMMA StartAppendCommitted ==
    ASSUME Inv, Committed, NEW w \in Worker, StartAppend(w)
    PROVE  Committed'
<1> DEFINE row == [key |-> worker[w].key, known |-> ~torn, status |-> "running",
                   args |-> "none", done |-> {}, cancelled |-> FALSE]
<1>1. worker[w] \in WorkerRow /\ worker[w].at = "start" /\ worker[w].key \in Key
  BY DEF StartAppend, Inv, TypeOK, RowOK
<1>2. row \in RunRow
  BY <1>1 DEF RunRow, Inv, TypeOK
<1>3. /\ run \in Seq(RunRow) /\ Len(run) \in Nat /\ DOMAIN run = 1 .. Len(run)
      /\ run' = Append(run, row) /\ row.done = {} /\ row.status = "running"
  BY RunsNumbered DEF Inv, TypeOK, StartAppend
<1> HIDE DEF row
<1>4. /\ \A q \in DOMAIN run : q \in DOMAIN run' /\ run'[q] = run[q]
      /\ \A q \in DOMAIN run' : q \in DOMAIN run \/ run'[q] = row
  <2>1. /\ Len(run') = Len(run) + 1 /\ run' \in Seq(RunRow)
        /\ \A q \in 1 .. Len(run) : run'[q] = run[q]
        /\ run'[Len(run) + 1] = row
    BY <1>2, <1>3, AppendProperties
  <2> QED
    BY <1>3, <2>1
<1>5. /\ ~torn' /\ effects' = effects /\ fired' = fired
      /\ worker'[w].at = "args"
      /\ \A v \in Worker \ {w} : worker'[v] = worker[v]
  BY <1>1 DEF StartAppend, Inv, TypeOK, WorkerRow
<1>6. ASSUME NEW v \in Worker
      PROVE  /\ worker'[v].at = "effect" => EffectOf(v)' \notin effects
             /\ worker'[v].at = "record" => EffectOf(v)' \in effects
             /\ worker'[v].at \in {"body"} \cup InStep =>
                  \A k \in Steps : k < worker'[v].step => k \in run'[Current(v)'].done
  <2>1. CASE v = w
    BY <1>5, <2>1 DEF InStep
  <2>2. CASE v # w
    <3>1. worker'[v] = worker[v]
      BY <1>5, <2>2
    <3>2. worker[v].at \in {"body"} \cup InStep => worker[v].on \in DOMAIN run
      BY DEF Inv, RowOK, InStep
    <3> QED
      BY <1>4, <3>1, <3>2 DEF Committed, EffectOf, Current, InStep
  <2> QED
    BY <2>1, <2>2
<1> QED
  BY <1>3, <1>4, <1>5, <1>6, ZenonT(60) DEF Committed

LEMMA RecordArgsCommitted ==
    ASSUME Inv, Committed, NEW w \in Worker, RecordArgs(w)
    PROVE  Committed'
<1> DEFINE args == IF worker[w].args = "none" THEN "empty" ELSE worker[w].args
           row == [run[Current(w)] EXCEPT !.args = args]
           j == [worker[w] EXCEPT !.at = "body", !.args = args, !.step = 1]
<1>1. /\ worker[w] \in WorkerRow /\ worker[w].at = "args"
      /\ Current(w) \in DOMAIN run /\ run[Current(w)] \in RunRow
  BY DriverHere DEF RecordArgs
<1>2. args \in {"none", "given", "empty"}
  BY <1>1 DEF WorkerRow
<1>3. row \in RunRow /\ row.key = run[Current(w)].key /\ row.known = run[Current(w)].known
      /\ row.done = run[Current(w)].done /\ row.status = run[Current(w)].status
  BY <1>1, <1>2 DEF RunRow
<1>4. worker' = [worker EXCEPT ![w] = j]
  BY <1>1 DEF RecordArgs, Inv, TypeOK, WorkerRow
<1>5. UNCHANGED <<run, torn>> \/ AppendTo(Current(w), row)
  BY DEF RecordArgs
<1>6. j.at = "body" /\ j.step = 1 /\ j.on = Current(w)
  BY <1>1 DEF WorkerRow, Current
<1> HIDE DEF row, j
<1>7. OnRun(j) /\ RowCommitted(j)
  BY <1>1, <1>6 DEF OnRun, RowCommitted, Steps
<1>8. RowsKept /\ DoneKept /\ StatusSound /\ ~torn'
  <2>1. CASE UNCHANGED <<run, torn>>
    BY <2>1, SameRunsKeep, SameRunsSound DEF Inv, Committed
  <2>2. CASE AppendTo(Current(w), row)
    BY <1>1, <1>3, <2>2, AppendedKeeps, AppendedSound, Appended DEF Inv
  <2> QED
    BY <1>5, <2>1, <2>2
<1>9. UNCHANGED <<effects, fired>>
  BY DEF RecordArgs
<1> QED
  BY <1>4, <1>7, <1>8, <1>9, CommittedMoves

\* The end of a run, and what the process does next.
LEMMA FinishCommitted ==
    ASSUME Inv, Committed, NEW w \in Worker, Current(w) \in DOMAIN run,
           NEW status \in Terminal, Finish(Current(w), status),
           status = "completed" => run[Current(w)].done = Steps,
           NEW j, OnRun(j), RowCommitted(j), worker' = [worker EXCEPT ![w] = j],
           UNCHANGED <<effects, fired>>
    PROVE  Committed'
<1> DEFINE row == [run[Current(w)] EXCEPT !.status = status]
<1>1. run[Current(w)] \in RunRow
  BY RunsNumbered DEF Inv
<1>2. row \in RunRow /\ row.status = status
  BY <1>1 DEF RunRow
<1>3. AppendTo(Current(w), row)
  BY DEF Finish
<1> HIDE DEF row
<1>4. RowsKept /\ DoneKept /\ StatusSound /\ ~torn'
  BY <1>2, <1>3, FinishKeeps, AppendedSound, Appended DEF Inv
<1> QED
  BY <1>4, CommittedMoves

LEMMA BodyCommitted ==
    ASSUME Inv, Committed, NEW w \in Worker,
           BodyRaises(w) \/ BodyReturns(w) \/ BodyCancelled(w)
    PROVE  Committed'
<1>1. worker[w].at = "body"
  BY DEF BodyRaises, BodyReturns, BodyCancelled, InBody
<1>2. Current(w) \in DOMAIN run /\ worker[w] \in WorkerRow /\ run[Current(w)] \in RunRow
  BY <1>1, DriverHere
<1>3. CASE BodyRaises(w)
  <2>1. RowsKept /\ DoneKept /\ StatusSound /\ ~torn' /\ UNCHANGED <<effects, fired>>
    BY <1>3, SameRunsKeep, SameRunsSound DEF BodyRaises, Inv, Committed
  <2> QED
    BY <1>3, <2>1, BeginsCommitted, BeginsOnRun, CommittedMoves DEF BodyRaises
<1>4. CASE BodyReturns(w)
  <2>1. run[Current(w)].done = Steps
    <3>1. \A k \in Steps : k \in run[Current(w)].done
      <4>1. worker[w].step \in 0 .. NSteps + 1 /\ worker[w].step > NSteps
        BY <1>2, <1>4 DEF WorkerRow, BodyReturns
      <4> QED
        BY <1>1, <4>1, WorkflowAssumption DEF Committed, Steps
    <3> QED
      BY <1>2, <3>1 DEF RunRow
  <2> QED
    BY <1>2, <1>4, <2>1, BeginsCommitted, BeginsOnRun, FinishCommitted
    DEF BodyReturns, Leave, Terminal
<1>5. CASE BodyCancelled(w)
  BY <1>2, <1>5, BeginsCommitted, BeginsOnRun, FinishCommitted DEF BodyCancelled, Leave, Terminal
<1> QED
  BY <1>3, <1>4, <1>5

LEMMA EnterStepCommitted ==
    ASSUME Inv, Committed, NEW w \in Worker, EnterStep(w)
    PROVE  Committed'
<1>1. /\ worker[w] \in WorkerRow /\ worker[w].at = "body"
      /\ Current(w) \in DOMAIN run /\ worker[w].step \in Steps
      /\ RowCommitted(worker[w])
  BY DriverHere DEF EnterStep, InBody, Committed, RowCommitted, Current, EffectOf
<1>2. RowsKept /\ DoneKept /\ StatusSound /\ ~torn' /\ UNCHANGED <<effects, fired>>
  BY SameRunsKeep, SameRunsSound DEF EnterStep, Inv, Committed
<1>3. CASE Recorded(Current(w), worker[w].step)
  <2> DEFINE j == [worker[w] EXCEPT !.step = @ + 1]
  <2>1. worker' = [worker EXCEPT ![w] = j]
    BY <1>1, <1>3 DEF EnterStep, Inv, TypeOK, WorkerRow
  <2>2. j.at = "body" /\ j.on = Current(w) /\ j.step = worker[w].step + 1
    BY <1>1 DEF WorkerRow, Current
  <2> HIDE DEF j
  <2>3. OnRun(j) /\ RowCommitted(j)
    BY <1>1, <1>3, <2>2, WorkflowAssumption DEF OnRun, RowCommitted, Recorded, Steps, Current
  <2> QED
    BY <1>2, <2>1, <2>3, CommittedMoves
<1>4. CASE ~Recorded(Current(w), worker[w].step)
  <2> DEFINE j == [worker[w] EXCEPT !.at = "attempt", !.attempt = 1]
  <2>1. worker' = [worker EXCEPT ![w] = j]
    BY <1>1, <1>4 DEF EnterStep, Inv, TypeOK, WorkerRow
  <2>2. j.at = "attempt" /\ j.on = Current(w) /\ j.step = worker[w].step
    BY <1>1 DEF WorkerRow, Current
  <2> HIDE DEF j
  <2>3. OnRun(j) /\ RowCommitted(j)
    BY <1>1, <2>2 DEF OnRun, RowCommitted, Current
  <2> QED
    BY <1>2, <2>1, <2>3, CommittedMoves
<1> QED
  BY <1>3, <1>4

LEMMA AttemptCommitted ==
    ASSUME Inv, Committed, NEW w \in Worker, Attempt(w) \/ DedupeCheck(w)
    PROVE  Committed'
<1>1. /\ worker[w] \in WorkerRow /\ Current(w) \in DOMAIN run
      /\ RowCommitted(worker[w]) /\ worker[w].at \in InStep
  BY DriverHere DEF Attempt, DedupeCheck, Committed, RowCommitted, Current, EffectOf, InStep
<1>2. RowsKept /\ DoneKept /\ StatusSound /\ ~torn' /\ UNCHANGED <<effects, fired>>
  BY SameRunsKeep, SameRunsSound DEF Attempt, DedupeCheck, Inv, Committed
<1>3. PICK at \in {"step", "effect", "record"} :
          /\ worker' = [worker EXCEPT ![w].at = at]
          /\ at = "effect" => EffectOf(w) \notin effects
          /\ at = "record" => EffectOf(w) \in effects
  BY DEF Attempt, DedupeCheck, Unseen
<1> DEFINE j == [worker[w] EXCEPT !.at = at]
<1>4. worker' = [worker EXCEPT ![w] = j]
  BY <1>1, <1>3 DEF Inv, TypeOK, WorkerRow
<1>5. j.at = at /\ j.on = Current(w) /\ j.step = worker[w].step
  BY <1>1 DEF WorkerRow, Current
<1> HIDE DEF j
<1>6. OnRun(j) /\ RowCommitted(j)
  BY <1>1, <1>3, <1>5 DEF OnRun, RowCommitted, Current, EffectOf, InStep
<1> QED
  BY <1>2, <1>4, <1>6, CommittedMoves

\* Only one process drives, so what another is about to commit is nothing.
LEMMA OthersRest ==
    ASSUME Inv, OneDriver, NEW w \in Driver, NEW v \in Worker, v # w
    PROVE  worker[v].at \notin Driven
BY DEF Inv, RowOK, OneDriver

LEMMA DedupeCommitCommitted ==
    ASSUME Inv, Committed, OneDriver, NEW w \in Worker, DedupeCommit(w)
    PROVE  Committed'
<1> DEFINE e == EffectOf(w)
<1>1. /\ worker[w] \in WorkerRow /\ worker[w].at = "effect" /\ w \in Driver
      /\ Current(w) \in DOMAIN run
  BY DriverHere DEF DedupeCommit, Driven
<1>2. e \in Effect /\ e \notin effects
  BY <1>1, EffectThere DEF InStep, Committed
<1>3. /\ effects' = effects \cup {e} /\ ~torn' /\ run' = run
      /\ fired' = [fired EXCEPT ![e] = @ + 1]
      /\ fired \in [Effect -> Nat]
  BY DEF DedupeCommit, Fold, Committed, Inv, TypeOK
<1>4. /\ worker'[w].at = "record" /\ EffectOf(w)' = e
      /\ worker'[w].step = worker[w].step /\ Current(w)' = Current(w)
      /\ \A v \in Worker \ {w} : worker'[v] = worker[v]
  BY <1>1, <1>3 DEF DedupeCommit, Inv, TypeOK, WorkerRow, EffectOf, Current
<1> HIDE DEF e
<1>5. \A x \in Effect : fired'[x] = IF x \in effects' THEN 1 ELSE 0
  <2>1. \A x \in Effect : fired'[x] = IF x = e THEN fired[e] + 1 ELSE fired[x]
    BY <1>2, <1>3
  <2>2. fired[e] = 0
    BY <1>2 DEF Committed
  <2> QED
    BY <1>2, <1>3, <2>1, <2>2 DEF Committed
<1>6. ASSUME NEW v \in Worker
      PROVE  /\ worker'[v].at = "effect" => EffectOf(v)' \notin effects'
             /\ worker'[v].at = "record" => EffectOf(v)' \in effects'
             /\ worker'[v].at \in {"body"} \cup InStep =>
                  \A k \in Steps : k < worker'[v].step => k \in run'[Current(v)'].done
  <2>1. CASE v = w
    BY <1>1, <1>3, <1>4, <2>1 DEF Committed, InStep
  <2>2. CASE v # w
    BY <1>1, <1>4, <2>2, OthersRest DEF Driven, InStep
  <2> QED
    BY <2>1, <2>2
<1> QED
  BY <1>3, <1>5, <1>6 DEF Committed

LEMMA StepRaisesCommitted ==
    ASSUME Inv, Committed, NEW w \in Worker, StepRaises(w)
    PROVE  Committed'
<1>1. /\ worker[w] \in WorkerRow /\ Current(w) \in DOMAIN run /\ worker[w].at \in InStep
      /\ RowCommitted(worker[w])
  BY DriverHere DEF StepRaises, InStep, Committed, RowCommitted, Current, EffectOf
<1>2. CASE AttemptsLeft(w)
  <2> DEFINE j == [worker[w] EXCEPT !.at = "attempt", !.attempt = @ + 1]
  <2>1. worker' = [worker EXCEPT ![w] = j]
    BY <1>1, <1>2 DEF StepRaises, Inv, TypeOK, WorkerRow
  <2>2. j.at = "attempt" /\ j.on = Current(w) /\ j.step = worker[w].step
    BY <1>1 DEF WorkerRow, Current
  <2> HIDE DEF j
  <2>3. OnRun(j) /\ RowCommitted(j)
    BY <1>1, <2>2 DEF OnRun, RowCommitted, Current
  <2>4. RowsKept /\ DoneKept /\ StatusSound /\ ~torn' /\ UNCHANGED <<effects, fired>>
    BY <1>2, SameRunsKeep, SameRunsSound DEF StepRaises, Inv, Committed
  <2> QED
    BY <2>1, <2>3, <2>4, CommittedMoves
<1>3. CASE ~AttemptsLeft(w)
  BY <1>1, <1>3, BeginsCommitted, BeginsOnRun, FinishCommitted DEF StepRaises, Leave, Terminal
<1> QED
  BY <1>2, <1>3

LEMMA StepReturnsCommitted ==
    ASSUME Inv, Committed, OneDriver, NEW w \in Worker, StepReturns(w)
    PROVE  Committed'
<1> DEFINE r == Current(w)
           k == worker[w].step
           row == [run[r] EXCEPT !.done = @ \cup {worker[w].step}]
<1>1. /\ worker[w] \in WorkerRow /\ worker[w].at = "record" /\ w \in Driver
      /\ r \in DOMAIN run /\ run[r] \in RunRow /\ k \in Steps
      /\ <<run[r].key, k>> \in effects
      /\ \A i \in Steps : i < k => i \in run[r].done
  BY DriverHere DEF StepReturns, Driven, Inv, RowOK, InStep, Committed, EffectOf
<1>2. row \in RunRow /\ row.key = run[r].key /\ row.status = run[r].status
      /\ row.done = run[r].done \cup {k}
  BY <1>1 DEF RunRow
<1>3. AppendTo(r, row)
  BY DEF StepReturns
<1> HIDE DEF row
<1>4. /\ DOMAIN run' = DOMAIN run /\ ~torn'
      /\ \A q \in DOMAIN run : run'[q] = IF q = r THEN row ELSE run[q]
  <2>1. TypeOK /\ ~torn
    BY DEF Inv, Committed
  <2>2. r \in DOMAIN run
    BY <1>1
  <2> HIDE DEF r
  <2> QED
    BY <1>2, <1>3, <2>1, <2>2, Appended
<1>5. /\ worker'[w].at = "body" /\ worker'[w].step = k + 1 /\ Current(w)' = r
      /\ \A v \in Worker \ {w} : worker'[v] = worker[v]
      /\ UNCHANGED <<effects, fired>>
  BY <1>1 DEF StepReturns, Inv, TypeOK, WorkerRow, Current
<1>6. \A q \in DOMAIN run' : \A i \in run'[q].done : <<run'[q].key, i>> \in effects
  BY <1>1, <1>2, <1>4 DEF Committed
<1>7. ASSUME NEW q \in DOMAIN run', run'[q].status = "completed" PROVE run'[q].done = Steps
  <2>1. run[q].status = "completed" /\ run[q].done = Steps
    BY <1>2, <1>4, <1>7 DEF Committed
  <2>2. CASE q = r
    <3>1. run'[q].done = Steps \cup {k}
      BY <1>2, <1>4, <2>1, <2>2
    <3> QED
      BY <1>1, <3>1
  <2>3. CASE q # r
    BY <1>4, <2>1, <2>3
  <2> QED
    BY <2>2, <2>3
<1>8. ASSUME NEW v \in Worker
      PROVE  /\ worker'[v].at = "effect" => EffectOf(v)' \notin effects
             /\ worker'[v].at = "record" => EffectOf(v)' \in effects
             /\ worker'[v].at \in {"body"} \cup InStep =>
                  \A i \in Steps : i < worker'[v].step => i \in run'[Current(v)'].done
  <2>1. CASE v = w
    <3>1. \A i \in Steps : i < k + 1 => i < k \/ i = k
      BY <1>1 DEF Steps
    <3> QED
      BY <1>1, <1>2, <1>4, <1>5, <2>1, <3>1
  <2>2. CASE v # w
    BY <1>1, <1>5, <2>2, OthersRest DEF Driven, InStep
  <2> QED
    BY <2>1, <2>2
<1> QED
  BY <1>4, <1>5, <1>6, <1>7, <1>8 DEF Committed

LEMMA StartsCommitted ==
    ASSUME Inv, Committed, NEW w \in Worker,
           Recover(w) \/ \E key \in Key : StartCheck(w, key)
    PROVE  Committed'
<1>1. RowsKept /\ DoneKept /\ StatusSound /\ ~torn' /\ UNCHANGED <<effects, fired>>
  <2>1. UNCHANGED <<run, torn, effects, fired>> /\ TypeOK /\ ~torn
    BY DEF Recover, StartCheck, Inv, Committed
  <2> QED
    BY <2>1, SameRunsKeep, SameRunsSound
<1>2. CASE Recover(w)
  BY <1>1, <1>2, BeginsCommitted, BeginsOnRun, CommittedMoves DEF Recover
<1>3. ASSUME NEW key \in Key, StartCheck(w, key) PROVE Committed'
  <2> DEFINE j == [Idle EXCEPT !.at = "start", !.key = key]
  <2>1. worker' = [worker EXCEPT ![w] = j] /\ j.at = "start"
    BY <1>3 DEF StartCheck, Idle
  <2> HIDE DEF j
  <2>2. OnRun(j) /\ RowCommitted(j)
    BY <2>1 DEF OnRun, RowCommitted, InStep
  <2> QED
    BY <1>1, <2>1, <2>2, CommittedMoves
<1> QED
  BY <1>2, <1>3

LEMMA CancelCommitted ==
    ASSUME Inv, Committed, NEW w \in Worker,
           \/ \E r \in DOMAIN run : CancelRequest(w, r)
           \/ CancelRead(w)
           \/ CancelFinish(w)
    PROVE  Committed'
<1>1. ASSUME NEW r \in DOMAIN run, CancelRequest(w, r) PROVE Committed'
  <2> DEFINE j == [Idle EXCEPT !.at = "cancel", !.on = r]
             row == [run[r] EXCEPT !.cancelled = TRUE]
  <2>1. run[r] \in RunRow
    BY RunsNumbered DEF Inv
  <2>2. row \in RunRow /\ row.key = run[r].key /\ row.known = run[r].known
        /\ row.done = run[r].done /\ row.status = run[r].status
    BY <2>1 DEF RunRow
  <2>3. AppendTo(r, row) /\ worker' = [worker EXCEPT ![w] = j] /\ UNCHANGED <<effects, fired>>
    BY <1>1 DEF CancelRequest
  <2>4. j.at = "cancel"
    BY DEF Idle
  <2> HIDE DEF row, j
  <2>5. RowsKept /\ DoneKept /\ StatusSound /\ ~torn'
    BY <2>2, <2>3, AppendedKeeps, AppendedSound, Appended DEF Inv
  <2>6. OnRun(j) /\ RowCommitted(j)
    BY <2>4 DEF OnRun, RowCommitted, InStep
  <2> QED
    BY <2>3, <2>5, <2>6, CommittedMoves
<1>2. CASE CancelRead(w)
  <2>1. RowsKept /\ DoneKept /\ StatusSound /\ ~torn' /\ UNCHANGED <<effects, fired>>
    BY <1>2, SameRunsKeep, SameRunsSound DEF CancelRead, Inv, Committed
  <2>2. CASE InFlight(Current(w))
    <3> DEFINE j == [worker[w] EXCEPT !.at = "cancelling"]
    <3>1. worker' = [worker EXCEPT ![w] = j]
      BY <1>2, <2>2 DEF CancelRead
    <3>2. j.at = "cancelling"
      BY DriverHere DEF WorkerRow
    <3> HIDE DEF j
    <3>3. OnRun(j) /\ RowCommitted(j)
      BY <3>2 DEF OnRun, RowCommitted, InStep
    <3> QED
      BY <2>1, <3>1, <3>3, CommittedMoves
  <2>3. CASE ~InFlight(Current(w))
    BY <1>2, <2>1, <2>3, BeginsCommitted, BeginsOnRun, CommittedMoves DEF CancelRead
  <2> QED
    BY <2>2, <2>3
<1>3. CASE CancelFinish(w)
  <2>1. Current(w) \in DOMAIN run
    BY <1>3, DriverHere DEF CancelFinish
  <2> QED
    BY <1>3, <2>1, BeginsCommitted, BeginsOnRun, FinishCommitted DEF CancelFinish, Terminal
<1> QED
  BY <1>1, <1>2, <1>3

LEMMA KillCommitted ==
    ASSUME Inv, Committed, ~TornWrites, NEW w \in Worker, Kill(w)
    PROVE  Committed'
<1>1. RowsKept /\ DoneKept /\ StatusSound /\ ~torn' /\ UNCHANGED <<effects, fired>>
  BY SameRunsKeep, SameRunsSound DEF Kill, Inv, Committed
<1> QED
  BY <1>1, BeginsCommitted, BeginsOnRun, CommittedMoves DEF Kill

LEMMA NextCommitted ==
    ASSUME OneDriver, ~TornWrites, Inv, Committed, [Next]_vars
    PROVE  Committed'
<1>1. CASE UNCHANGED vars
  BY <1>1 DEF vars, Committed, EffectOf, Current
<1>2. ASSUME NEW w \in Driver, NEW key \in Key, StartCheck(w, key) PROVE Committed'
  BY <1>2, StartsCommitted DEF Worker
<1>3. ASSUME NEW w \in Driver, Recover(w) PROVE Committed'
  BY <1>3, StartsCommitted DEF Worker
<1>4. ASSUME NEW w \in Canceller, NEW r \in DOMAIN run, CancelRequest(w, r) PROVE Committed'
  BY <1>4, CancelCommitted DEF Worker
<1>5. ASSUME NEW w \in Worker, Drive(w) PROVE Committed'
  BY <1>5, StartAppendCommitted, RecordArgsCommitted, BodyCommitted, EnterStepCommitted,
     AttemptCommitted, DedupeCommitCommitted, StepRaisesCommitted, StepReturnsCommitted,
     CancelCommitted DEF Drive
<1>6. ASSUME NEW w \in Worker, Kill(w) PROVE Committed'
  BY <1>6, KillCommitted
<1> QED
  BY <1>1, <1>2, <1>3, <1>4, <1>5, <1>6 DEF Next

LEMMA InitCommitted ==
    ASSUME Init
    PROVE  Committed
<1>1. DOMAIN run = {}
  BY DEF Init
<1>2. \A w \in Worker : worker[w].at = "idle"
  BY DEF Init, Idle
<1> QED
  BY <1>1, <1>2 DEF Init, Committed, InStep

LEMMA AlwaysCommitted ==
    ASSUME OneDriver, ~TornWrites
    PROVE  Spec => []Committed
<1>1. Init => Committed
  BY InitCommitted
<1>2. Inv /\ Committed /\ [Next]_vars => Committed'
  BY NextCommitted
<1>3. Spec => []Inv
  BY AlwaysInv
<1> QED
  BY <1>1, <1>2, <1>3, PTL DEF Spec

-----------------------------------------------------------------------------
(* The theorems *)

\* Every reachable state of the journal and of its processes has the types declared.
THEOREM TypeCorrect ==
    ASSUME OneDriver
    PROVE  Spec => []TypeOK
<1>1. Inv => TypeOK
  BY DEF Inv
<1> QED
  BY <1>1, AlwaysInv, PTL

\* However often a key is started, and whichever process dies at which point, even
\* in the middle of a line, it names one readable run (start).
THEOREM KeysNameOneRun ==
    ASSUME OneDriver
    PROVE  Spec => []OneRunPerKey
<1>1. Inv => OneRunPerKey
  BY DEF Inv
<1> QED
  BY <1>1, AlwaysInv, PTL

\* No driver executes a step whose result is recorded, however many kills, torn
\* lines and recoveries came before (_run_step).
THEOREM ReplayNeverExecutes ==
    ASSUME OneDriver
    PROVE  Spec => []FinishedStepsAreReplayed
<1>1. Inv => FinishedStepsAreReplayed
  BY DEF Inv, RowOK, FinishedStepsAreReplayed, InStep, Current
<1> QED
  BY <1>1, AlwaysInv, PTL

\* While no kill tears a line, every effect fires at most once (dedupe); the torn
\* line is why the assumption is needed.
THEOREM EffectsFireOnce ==
    ASSUME OneDriver, ~TornWrites
    PROVE  Spec => []EffectOnce
<1>1. Committed => EffectOnce
  BY DEF Committed, EffectOnce
<1> QED
  BY <1>1, AlwaysCommitted, PTL

\* While no kill tears a line, a run recorded as completed has recorded each step,
\* and each recorded step has committed its effect (_drive, _run_step).
THEOREM CompletedRunsAreDone ==
    ASSUME OneDriver, ~TornWrites
    PROVE  Spec => []CompletedMeansDone
<1>1. Committed => CompletedMeansDone
  BY DEF Committed, CompletedMeansDone, Known
<1> QED
  BY <1>1, AlwaysCommitted, PTL

-----------------------------------------------------------------------------
(* The journal implements DurableRuns *)

Entry(row) ==
    [key |-> row.key, done |-> row.done, status |-> row.status, asked |-> row.cancelled]

NoVerdict == {"running", "cancelled"}

\* A run's finished steps are the first ones of the body.
InStepOrder(done) == \E m \in 0 .. NSteps : done = 1 .. m

\* What holds of a process whose row is j, of the journal's rows: the runs a driver
\* drives or has still to drive have no verdict, and what is to be cancelled was
\* asked to be.
RowOrdered(w, j, rows) ==
    /\ w \in Driver =>
         /\ j.at \in Driven \ {"start"} => rows[j.on].status \in NoVerdict
         /\ \A r \in j.todo : r # j.on /\ rows[r].status \in NoVerdict
    /\ j.at \in {"cancel", "cancelling"} => rows[j.on].cancelled

Ordered ==
    /\ \A r \in DOMAIN run : InStepOrder(run[r].done)
    /\ \A w \in Worker : RowOrdered(w, worker[w], run)

LEMMA BookIs ==
    /\ Book = [r \in DOMAIN run |-> Entry(run[r])]
    /\ Book' = [r \in DOMAIN run' |-> Entry(run'[r])]
BY DEF Book, Entry

\* Rows that differ in nothing the caller sees make the same book.
LEMMA BookSame ==
    ASSUME DOMAIN run' = DOMAIN run, \A r \in DOMAIN run : Entry(run'[r]) = Entry(run[r])
    PROVE  Book' = Book
BY BookIs

\* Nor is a verdict taken from a run by anybody but the driver.
RunsGoOn(w) ==
    \A q \in DOMAIN run :
        /\ run[q].cancelled => run'[q].cancelled
        /\ run[q].status \in NoVerdict => run'[q].status \in NoVerdict \/ w \in Driver

\* One process moves to a row that is right.
LEMMA OrderedMoves ==
    ASSUME Inv, OneDriver, Ordered, RowsKept, NEW w \in Worker, NEW j,
           RunsGoOn(w), \A q \in DOMAIN run : InStepOrder(run'[q].done),
           worker' = [worker EXCEPT ![w] = j], RowOrdered(w, j, run')
    PROVE  Ordered'
<1>1. DOMAIN run' = DOMAIN run
  BY RunsNumbered DEF RowsKept, Inv
<1>2. ASSUME NEW r \in DOMAIN run' PROVE InStepOrder(run'[r].done)
  BY <1>1
<1>3. ASSUME NEW v \in Worker PROVE RowOrdered(v, worker'[v], run')
  <2>1. worker'[v] = IF v = w THEN j ELSE worker[v]
    BY DEF Inv, TypeOK
  <2>2. CASE v = w
    BY <2>1, <2>2
  <2>3. CASE v # w
    <3>1. RowOrdered(v, worker[v], run) /\ RowOK(v, worker[v])
      BY DEF Ordered, Inv
    <3>2. v \in Driver => w \notin Driver
      BY <2>3 DEF OneDriver
    <3>3. worker[v].at \in (Driven \ {"start"}) \cup {"cancel", "cancelling"} =>
            worker[v].on \in DOMAIN run
      BY <3>1 DEF RowOK, Driven
    <3>4. worker[v].todo \subseteq DOMAIN run
      BY <3>1 DEF RowOK
    <3>5. worker'[v] = worker[v]
      BY <2>1, <2>3
    <3> QED
      BY <3>1, <3>2, <3>3, <3>4, <3>5 DEF RowOrdered, RunsGoOn
  <2> QED
    BY <2>2, <2>3
<1>4. Ordered' <=> /\ \A r \in DOMAIN run' : InStepOrder(run'[r].done)
                   /\ \A v \in Worker : RowOrdered(v, worker'[v], run')
  BY DEF Ordered, InStepOrder, RowOrdered
<1> QED
  BY <1>2, <1>3, <1>4

\* A step that leaves the runs alone, and whose process moves to a row that is right.
LEMMA OrderedQuiet ==
    ASSUME Inv, OneDriver, Ordered, UNCHANGED run, NEW w \in Worker, NEW j,
           worker' = [worker EXCEPT ![w] = j], RowOrdered(w, j, run)
    PROVE  Ordered' /\ Book' = Book
<1>1. RowsKept
  BY SameRunsKeep DEF Inv
<1>2. RunsGoOn(w) /\ \A q \in DOMAIN run : InStepOrder(run'[q].done)
  BY DEF RunsGoOn, Ordered
<1>3. RowOrdered(w, j, run')
  OBVIOUS
<1> QED
  BY <1>1, <1>2, <1>3, OrderedMoves, BookSame

LEMMA IdleOrdered ==
    ASSUME NEW w, NEW rows
    PROVE  RowOrdered(w, Idle, rows)
BY DEF RowOrdered, Idle, Driven

\* Runs without a verdict can be driven.
LEMMA DrivingOrdered ==
    ASSUME NEW w, NEW rows, NEW S, S \subseteq Nat, \A r \in S : rows[r].status \in NoVerdict
    PROVE  RowOrdered(w, Driving(S), rows)
<1>1. CASE S = {}
  BY <1>1, IdleOrdered DEF Driving
<1>2. CASE S # {}
  <2>1. First(S) \in S
    BY <1>2, FirstIsOne
  <2>2. /\ Driving(S).at = "args" /\ Driving(S).on = First(S)
        /\ Driving(S).todo = S \ {First(S)}
    BY <1>2 DEF Driving, Idle
  <2> QED
    BY <2>1, <2>2 DEF RowOrdered
<1> QED
  BY <1>1, <1>2

\* Where a process is in a step, that is the step the run is at.
LEMMA AtItsStep ==
    ASSUME Inv, Committed, Ordered, NEW w \in Worker, worker[w].at \in InStep
    PROVE  /\ worker[w].step \in Steps /\ Current(w) \in DOMAIN run /\ w \in Driver
           /\ run[Current(w)].done = 1 .. (worker[w].step - 1)
           /\ run[Current(w)].status \in NoVerdict
           /\ Durable!AtStep(Current(w), worker[w].step)
<1> DEFINE r == Current(w)
           k == worker[w].step
<1>1. k \in Steps /\ k \notin run[r].done /\ r \in DOMAIN run /\ w \in Driver
  BY DriverHere DEF Inv, RowOK, Current, InStep, Driven
<1>2. \A x \in Steps : x < k => x \in run[r].done
  BY DEF Committed, Current
<1>3. PICK m \in 0 .. NSteps : run[r].done = 1 .. m
  BY <1>1 DEF Ordered, InStepOrder
<1>4. m = k - 1
  <2>1. k \in 1 .. NSteps /\ NSteps \in Nat /\ m \in 0 .. NSteps
    BY <1>1, WorkflowAssumption DEF Steps
  <2>2. m < k
    BY <1>1, <1>3, <2>1
  <2>3. k - 1 > m => (k - 1) \in 1 .. m
    <3>1. k - 1 > m => (k - 1) \in Steps /\ k - 1 < k
      BY <2>1 DEF Steps
    <3> QED
      BY <1>2, <1>3, <3>1
  <2> QED
    BY <2>1, <2>2, <2>3
<1>5. run[r].status \in NoVerdict
  BY <1>1 DEF Ordered, RowOrdered, Current, InStep, Driven
<1>6. Book[r].done = run[r].done /\ Book[r].status = run[r].status
  BY <1>1, BookIs DEF Entry
<1>7. Durable!AtStep(r, k)
  BY <1>3, <1>4, <1>5, <1>6 DEF Durable!AtStep, Durable!Unjudged, NoVerdict
<1> QED
  BY <1>1, <1>3, <1>4, <1>5, <1>7

\* The steps that write no record a caller sees.
LEMMA StartsQuiet ==
    ASSUME Inv, OneDriver, Ordered, NEW w \in Driver,
           Recover(w) \/ \E key \in Key : StartCheck(w, key)
    PROVE  Ordered' /\ UNCHANGED <<Book, fired>>
<1>1. CASE Recover(w)
  <2>1. Unfinished \subseteq Nat
    BY RunsNumbered DEF Unfinished, Inv, Run
  <2>2. \A r \in Unfinished : run[r].status \in NoVerdict
    <3>1. ASSUME NEW r \in Unfinished PROVE run[r].status \in NoVerdict
      BY RunsNumbered DEF Unfinished, InFlight, Known, Inv, RunRow, NoVerdict
    <3> QED
      BY <3>1
  <2>3. RowOrdered(w, Driving(Unfinished), run)
    BY <2>1, <2>2, DrivingOrdered
  <2>4. worker' = [worker EXCEPT ![w] = Driving(Unfinished)] /\ UNCHANGED <<run, fired>>
    BY <1>1 DEF Recover
  <2> QED
    BY <2>3, <2>4, OrderedQuiet DEF Worker
<1>2. CASE \E key \in Key : StartCheck(w, key)
  <2>1. PICK key \in Key : StartCheck(w, key)
    BY <1>2
  <2> DEFINE j == [Idle EXCEPT !.at = "start", !.key = key]
  <2>2. worker' = [worker EXCEPT ![w] = j] /\ UNCHANGED <<run, fired>>
    BY <2>1 DEF StartCheck
  <2>3. RowOrdered(w, j, run)
    BY DEF RowOrdered, Idle, Driven
  <2> QED
    BY <2>2, <2>3, OrderedQuiet DEF Worker
<1> QED
  BY <1>1, <1>2

LEMMA StopsQuiet ==
    ASSUME Inv, OneDriver, Ordered, NEW w \in Worker, BodyRaises(w) \/ Kill(w)
    PROVE  Ordered' /\ UNCHANGED <<Book, fired>>
<1>1. worker' = [worker EXCEPT ![w] = Idle] /\ UNCHANGED <<run, fired>>
  BY DEF BodyRaises, Kill
<1> QED
  BY <1>1, IdleOrdered, OrderedQuiet

\* The process stays with its run, or with what it is cancelling.
LEMMA StaysQuiet ==
    ASSUME Inv, OneDriver, Ordered, NEW w \in Worker,
           EnterStep(w) \/ Attempt(w) \/ DedupeCheck(w) \/ CancelRead(w)
    PROVE  Ordered' /\ UNCHANGED <<Book, fired>>
<1>1. worker[w] \in WorkerRow /\ worker \in [Worker -> WorkerRow]
  BY DEF Inv, TypeOK
<1>2. RowOrdered(w, worker[w], run)
  BY DEF Ordered
<1>3. UNCHANGED <<run, fired>>
  BY DEF EnterStep, Attempt, DedupeCheck, CancelRead
<1>4. CASE EnterStep(w)
  <2>1. /\ worker[w].at = "body" /\ worker'[w].on = worker[w].on
        /\ worker'[w].todo = worker[w].todo /\ worker'[w].at \in {"body", "attempt"}
        /\ worker' = [worker EXCEPT ![w] = worker'[w]]
    BY <1>1, <1>4 DEF EnterStep, InBody, WorkerRow
  <2>2. RowOrdered(w, worker'[w], run)
    BY <1>2, <2>1 DEF RowOrdered, Driven
  <2>3. PICK j : j = worker'[w]
    OBVIOUS
  <2> QED
    BY <1>3, <2>1, <2>2, <2>3, OrderedQuiet
<1>5. CASE Attempt(w) \/ DedupeCheck(w)
  <2>1. /\ worker[w].at \in InStep /\ worker'[w].on = worker[w].on
        /\ worker'[w].todo = worker[w].todo /\ worker'[w].at \in InStep
        /\ worker' = [worker EXCEPT ![w] = worker'[w]]
    <3>1. worker[w].at \in InStep
      BY <1>5 DEF Attempt, DedupeCheck, InStep
    <3>2. PICK at \in InStep : worker' = [worker EXCEPT ![w].at = at]
      BY <1>5 DEF Attempt, DedupeCheck, InStep
    <3> QED
      BY <1>1, <3>1, <3>2 DEF WorkerRow
  <2>2. RowOrdered(w, worker'[w], run)
    BY <1>2, <2>1 DEF RowOrdered, Driven, InStep
  <2>3. PICK j : j = worker'[w]
    OBVIOUS
  <2> QED
    BY <1>3, <2>1, <2>2, <2>3, OrderedQuiet
<1>6. CASE CancelRead(w)
  <2>1. /\ worker[w].at = "cancel"
        /\ \/ worker'[w] = Idle
           \/ /\ worker'[w].on = worker[w].on /\ worker'[w].todo = worker[w].todo
              /\ worker'[w].at = "cancelling"
        /\ worker' = [worker EXCEPT ![w] = worker'[w]]
    BY <1>1, <1>6 DEF CancelRead, WorkerRow
  <2>2. RowOrdered(w, worker'[w], run)
    <3>1. CASE worker'[w] = Idle
      BY <3>1, IdleOrdered
    <3>2. CASE worker'[w] # Idle
      BY <1>2, <2>1, <3>2 DEF RowOrdered, Driven
    <3> QED
      BY <3>1, <3>2
  <2>3. PICK j : j = worker'[w]
    OBVIOUS
  <2> QED
    BY <1>3, <2>1, <2>2, <2>3, OrderedQuiet
<1> QED
  BY <1>4, <1>5, <1>6

\* A record that is appended while lines are whole changes one row, for everybody.
LEMMA RowWritten ==
    ASSUME Inv, Committed, NEW r \in DOMAIN run, NEW row \in RunRow, AppendTo(r, row),
           row.key = run[r].key, row.known = run[r].known
    PROVE  /\ RowsKept /\ DOMAIN run' = DOMAIN run
           /\ \A q \in DOMAIN run : run'[q] = IF q = r THEN row ELSE run[q]
           /\ Book' = [Book EXCEPT ![r] = Entry(row)]
<1>1. /\ DOMAIN run' = DOMAIN run
      /\ \A q \in DOMAIN run : run'[q] = IF q = r THEN row ELSE run[q]
  <2>1. TypeOK /\ ~torn
    BY DEF Inv, Committed
  <2> QED
    BY <2>1, Appended
<1>2. Book' = [Book EXCEPT ![r] = Entry(row)]
  BY <1>1, BookIs
<1> QED
  BY <1>1, <1>2, AppendedKeeps DEF Inv

\* A verdict is one row's status.
LEMMA VerdictWritten ==
    ASSUME Inv, Committed, NEW r \in DOMAIN run, NEW status \in Terminal, Finish(r, status),
           UNCHANGED fired
    PROVE  /\ RowsKept /\ DOMAIN run' = DOMAIN run
           /\ \A q \in DOMAIN run : /\ run'[q].done = run[q].done
                                    /\ run'[q].cancelled = run[q].cancelled
                                    /\ q # r => run'[q].status = run[q].status
           /\ run'[r].status = status
           /\ Durable!Judge(r, status)
<1> DEFINE row == [run[r] EXCEPT !.status = status]
<1>1. run[r] \in RunRow
  BY RunsNumbered DEF Inv
<1>2. /\ row \in RunRow /\ row.key = run[r].key /\ row.known = run[r].known
      /\ row.done = run[r].done /\ row.cancelled = run[r].cancelled /\ row.status = status
  BY <1>1 DEF RunRow
<1>3. AppendTo(r, row)
  BY DEF Finish
<1>4. Entry(row) = [Book[r] EXCEPT !.status = status]
  BY <1>2, BookIs DEF Entry
<1> HIDE DEF row
<1>5. /\ RowsKept /\ DOMAIN run' = DOMAIN run
      /\ \A q \in DOMAIN run : run'[q] = IF q = r THEN row ELSE run[q]
      /\ Book' = [Book EXCEPT ![r] = Entry(row)]
  BY <1>2, <1>3, RowWritten
<1>6. Durable!Judge(r, status)
  BY <1>4, <1>5 DEF Durable!Judge
<1> QED
  BY <1>2, <1>5, <1>6

\* A driver writes its run's verdict and goes on with the next.
LEMMA VerdictOrdered ==
    ASSUME Inv, OneDriver, Committed, Ordered, NEW w \in Driver, worker[w].at \in Driven \ {"start"},
           NEW status \in Terminal, Finish(Current(w), status), Leave(w), UNCHANGED fired
    PROVE  Ordered' /\ Durable!Judge(Current(w), status)
<1>1. w \in Worker /\ Current(w) \in DOMAIN run /\ worker[w].todo \subseteq DOMAIN run
  BY DriverHere DEF Worker, Driven, Inv, RowOK
<1>2. /\ RowsKept /\ DOMAIN run' = DOMAIN run
      /\ \A q \in DOMAIN run : /\ run'[q].done = run[q].done
                               /\ run'[q].cancelled = run[q].cancelled
                               /\ q # Current(w) => run'[q].status = run[q].status
      /\ Durable!Judge(Current(w), status)
  BY <1>1, VerdictWritten
<1>3. RunsGoOn(w) /\ \A q \in DOMAIN run : InStepOrder(run'[q].done)
  BY <1>2 DEF RunsGoOn, Ordered
<1>4. \A r \in worker[w].todo : run'[r].status \in NoVerdict
  <2>1. RowOrdered(w, worker[w], run)
    BY <1>1 DEF Ordered
  <2> QED
    BY <1>1, <1>2, <2>1 DEF RowOrdered, Current
<1>5. worker[w].todo \subseteq Nat
  BY <1>1, RunsNumbered DEF Inv, Run
<1>6. RowOrdered(w, Driving(worker[w].todo), run')
  BY <1>4, <1>5, DrivingOrdered
<1>7. worker' = [worker EXCEPT ![w] = Driving(worker[w].todo)]
  BY DEF Leave
<1>8. Ordered'
  <2>1. PICK j : j = Driving(worker[w].todo)
    OBVIOUS
  <2> QED
    BY <1>1, <1>2, <1>3, <1>6, <1>7, <2>1, OrderedMoves
<1> QED
  BY <1>2, <1>8

\* The steps of DurableRuns, each allowed.
DurableStep == Durable!DurableNext \/ UNCHANGED <<Book, fired>>

LEMMA BookRows ==
    /\ DOMAIN Book = DOMAIN run
    /\ \A r \in DOMAIN run : Book[r] = Entry(run[r])
BY BookIs

LEMMA JudgedDurably ==
    ASSUME NEW r \in DOMAIN run,
           Durable!Complete(r) \/ Durable!Fail(r) \/ Durable!Ask(r) \/ Durable!Cancel(r)
    PROVE  DurableStep
BY BookRows DEF DurableStep, Durable!DurableNext

LEMMA BodyOrdered ==
    ASSUME Inv, OneDriver, Committed, Ordered, NEW w \in Worker,
           BodyReturns(w) \/ BodyCancelled(w)
    PROVE  Ordered' /\ DurableStep
<1> DEFINE r == Current(w)
<1>1. /\ worker[w] \in WorkerRow /\ worker[w].at = "body" /\ w \in Driver /\ r \in DOMAIN run
      /\ run[r].status \in NoVerdict
  <2>1. worker[w].at = "body"
    BY DEF BodyReturns, BodyCancelled, InBody
  <2>2. w \in Driver /\ r \in DOMAIN run /\ worker[w] \in WorkerRow
    BY <2>1, DriverHere DEF Driven
  <2> QED
    BY <2>1, <2>2 DEF Ordered, RowOrdered, Driven, Current
<1>2. Book[r] = Entry(run[r])
  BY <1>1, BookRows
<1>3. CASE BodyReturns(w)
  <2>1. Ordered' /\ Durable!Judge(r, "completed")
    BY <1>1, <1>3, VerdictOrdered DEF BodyReturns, Terminal, Driven
  <2>2. run[r].done = Steps
    <3>1. worker[w].step > NSteps /\ worker[w].step \in 0 .. NSteps + 1 /\ NSteps \in Nat
      BY <1>1, <1>3, WorkflowAssumption DEF BodyReturns, WorkerRow
    <3>2. \A k \in Steps : k < worker[w].step
      BY <3>1 DEF Steps
    <3>3. Steps \subseteq run[r].done
      BY <1>1, <3>2 DEF Committed
    <3> QED
      BY <1>1, <3>3, RunsNumbered DEF Inv, RunRow
  <2>3. Durable!Complete(r)
    BY <1>1, <1>2, <2>1, <2>2
       DEF Durable!Complete, Durable!Unjudged, Durable!Step, Steps, NoVerdict, Entry
  <2> QED
    BY <1>1, <2>1, <2>3, JudgedDurably
<1>4. CASE BodyCancelled(w)
  <2>1. Ordered' /\ Durable!Judge(r, "cancelled")
    BY <1>1, <1>4, VerdictOrdered DEF BodyCancelled, Terminal, Driven
  <2>2. Durable!Cancel(r)
    BY <1>2, <1>4, <2>1 DEF BodyCancelled, Durable!Cancel, Entry
  <2> QED
    BY <1>1, <2>1, <2>2, JudgedDurably
<1> QED
  BY <1>3, <1>4

LEMMA StepRaisesOrdered ==
    ASSUME Inv, OneDriver, Committed, Ordered, NEW w \in Worker, StepRaises(w)
    PROVE  Ordered' /\ DurableStep
<1> DEFINE r == Current(w)
           k == worker[w].step
<1>1. worker[w].at \in {"step", "record"} /\ worker[w] \in WorkerRow /\ fired' = fired
  BY DriverHere DEF StepRaises
<1>2. /\ k \in Steps /\ r \in DOMAIN run /\ w \in Driver
      /\ Durable!AtStep(r, k)
  BY <1>1, AtItsStep DEF InStep
<1>3. CASE AttemptsLeft(w)
  <2>0. /\ worker' = [worker EXCEPT ![w].at = "attempt", ![w].attempt = @ + 1]
        /\ run' = run /\ worker \in [Worker -> WorkerRow]
    BY <1>3 DEF StepRaises, Inv, TypeOK
  <2>1. /\ worker'[w].on = worker[w].on /\ worker'[w].todo = worker[w].todo
        /\ worker'[w].at = "attempt" /\ worker' = [worker EXCEPT ![w] = worker'[w]]
        /\ run' = run
    BY <1>1, <2>0 DEF WorkerRow
  <2>2. RowOrdered(w, worker[w], run)
    BY DEF Ordered
  <2>3. RowOrdered(w, worker'[w], run)
    BY <1>1, <2>1, <2>2 DEF RowOrdered, Driven
  <2>4. PICK j : j = worker'[w]
    OBVIOUS
  <2> QED
    BY <1>1, <2>1, <2>3, <2>4, OrderedQuiet DEF DurableStep
<1>4. CASE ~AttemptsLeft(w)
  <2>1. Finish(r, "failed") /\ Leave(w)
    BY <1>4 DEF StepRaises
  <2>2. Ordered' /\ Durable!Judge(r, "failed")
    BY <1>1, <1>2, <2>1, VerdictOrdered DEF Terminal, Driven
  <2>3. Durable!Fail(r)
    BY <1>2, <2>2 DEF Durable!Fail, Durable!Step, Steps
  <2> QED
    BY <1>2, <2>2, <2>3, JudgedDurably
<1> QED
  BY <1>3, <1>4

\* A canceller writes its verdict over whatever the run has.
LEMMA CancelFinishOrdered ==
    ASSUME Inv, OneDriver, Committed, Ordered, NEW w \in Worker, CancelFinish(w)
    PROVE  Ordered' /\ DurableStep
<1> DEFINE r == Current(w)
<1>1. /\ worker[w].at = "cancelling" /\ Finish(r, "cancelled") /\ fired' = fired
      /\ worker' = [worker EXCEPT ![w] = Idle] /\ r \in DOMAIN run /\ run[r].cancelled
  <2>1. worker[w].at = "cancelling"
    BY DEF CancelFinish
  <2>2. r \in DOMAIN run
    BY <2>1, DriverHere
  <2>3. run[r].cancelled
    BY <2>1 DEF Ordered, RowOrdered, Current
  <2> QED
    BY <2>1, <2>2, <2>3 DEF CancelFinish
<1>2. /\ RowsKept /\ DOMAIN run' = DOMAIN run
      /\ \A q \in DOMAIN run : /\ run'[q].done = run[q].done
                               /\ run'[q].cancelled = run[q].cancelled
                               /\ q # r => run'[q].status = run[q].status
      /\ run'[r].status = "cancelled"
      /\ Durable!Judge(r, "cancelled")
  BY <1>1, VerdictWritten DEF Terminal
<1>3. RunsGoOn(w) /\ \A q \in DOMAIN run : InStepOrder(run'[q].done)
  BY <1>2 DEF RunsGoOn, Ordered, NoVerdict
<1>4. Ordered'
  BY <1>1, <1>2, <1>3, IdleOrdered, OrderedMoves
<1>5. Durable!Cancel(r)
  BY <1>1, <1>2, BookRows DEF Durable!Cancel, Entry
<1> QED
  BY <1>1, <1>4, <1>5, JudgedDurably

LEMMA AskedEntry ==
    ASSUME NEW old, NEW new,
           new.key = old.key, new.done = old.done, new.status = old.status
    PROVE  Entry(new) = [Entry(old) EXCEPT !.asked = new.cancelled]
BY DEF Entry

LEMMA CancelRequestOrdered ==
    ASSUME Inv, OneDriver, Committed, Ordered, NEW w \in Canceller, NEW r \in DOMAIN run,
           CancelRequest(w, r)
    PROVE  Ordered' /\ DurableStep
<1> DEFINE row == [run[r] EXCEPT !.cancelled = TRUE]
           j == [Idle EXCEPT !.at = "cancel", !.on = r]
<1>1. run[r] \in RunRow
  BY RunsNumbered DEF Inv
<1>2. /\ row \in RunRow /\ row.key = run[r].key /\ row.known = run[r].known
      /\ row.done = run[r].done /\ row.cancelled /\ row.status = run[r].status
      /\ Entry(row) = [Book[r] EXCEPT !.asked = TRUE]
  <2>1. row \in RunRow
    BY <1>1 DEF RunRow
  <2>2. /\ row.key = run[r].key /\ row.known = run[r].known /\ row.done = run[r].done
        /\ row.status = run[r].status /\ row.cancelled = TRUE
    BY <1>1 DEF RunRow
  <2>3. Book[r] = Entry(run[r])
    BY BookRows
  <2> HIDE DEF row
  <2>4. Entry(row) = [Book[r] EXCEPT !.asked = TRUE]
    <3>1. Entry(row) = [Entry(run[r]) EXCEPT !.asked = row.cancelled]
      BY <2>2, AskedEntry
    <3> QED
      BY <2>2, <2>3, <3>1
  <2> QED
    BY <2>1, <2>2, <2>4
<1>3. AppendTo(r, row) /\ worker' = [worker EXCEPT ![w] = j] /\ fired' = fired
  BY DEF CancelRequest
<1> HIDE DEF row
<1>4. /\ RowsKept /\ DOMAIN run' = DOMAIN run
      /\ \A q \in DOMAIN run : run'[q] = IF q = r THEN row ELSE run[q]
      /\ Book' = [Book EXCEPT ![r] = Entry(row)]
  BY <1>2, <1>3, RowWritten
<1>5. RunsGoOn(w) /\ \A q \in DOMAIN run : InStepOrder(run'[q].done)
  BY <1>2, <1>4 DEF RunsGoOn, Ordered
<1>6. RowOrdered(w, j, run')
  BY <1>2, <1>4 DEF RowOrdered, Idle, Driven
<1>7. Ordered'
  <2>1. PICK x : x = j
    OBVIOUS
  <2> QED
    BY <1>3, <1>4, <1>5, <1>6, <2>1, OrderedMoves DEF Worker
<1>8. Durable!Ask(r)
  BY <1>2, <1>3, <1>4 DEF Durable!Ask
<1> QED
  BY <1>7, <1>8, JudgedDurably

LEMMA RecordArgsOrdered ==
    ASSUME Inv, OneDriver, Committed, Ordered, NEW w \in Worker, RecordArgs(w)
    PROVE  Ordered' /\ DurableStep
<1> DEFINE r == Current(w)
           args == IF worker[w].args = "none" THEN "empty" ELSE worker[w].args
           row == [run[r] EXCEPT !.args = args]
<1>1. /\ worker[w].at = "args" /\ worker[w] \in WorkerRow /\ r \in DOMAIN run /\ run[r] \in RunRow
      /\ fired' = fired
  BY DriverHere DEF RecordArgs
<1>2. /\ worker'[w].on = worker[w].on /\ worker'[w].todo = worker[w].todo
      /\ worker'[w].at = "body" /\ worker' = [worker EXCEPT ![w] = worker'[w]]
  BY <1>1 DEF RecordArgs, WorkerRow, Inv, TypeOK
<1>3. args \in {"none", "given", "empty"}
  BY <1>1 DEF WorkerRow
<1>4. /\ row \in RunRow /\ row.key = run[r].key /\ row.known = run[r].known
      /\ Entry(row) = Entry(run[r])
  BY <1>1, <1>3 DEF RunRow, Entry
<1>5. run' = run \/ AppendTo(r, row)
  BY DEF RecordArgs
<1> HIDE DEF row
<1>6. /\ RowsKept /\ DOMAIN run' = DOMAIN run
      /\ \A q \in DOMAIN run : Entry(run'[q]) = Entry(run[q])
  <2>1. CASE run' = run
    BY <2>1, SameRunsKeep DEF Inv
  <2>2. CASE AppendTo(r, row)
    BY <1>1, <1>4, <2>2, RowWritten
  <2> QED
    BY <1>5, <2>1, <2>2
<1>7. \A q \in DOMAIN run : /\ run'[q].status = run[q].status /\ run'[q].done = run[q].done
                            /\ run'[q].cancelled = run[q].cancelled
  BY <1>6 DEF Entry
<1>8. RunsGoOn(w) /\ \A q \in DOMAIN run : InStepOrder(run'[q].done)
  BY <1>7 DEF RunsGoOn, Ordered
<1>9. RowOrdered(w, worker'[w], run')
  <2>1. RowOrdered(w, worker[w], run)
    BY DEF Ordered
  <2>2. worker[w].on \in DOMAIN run /\ worker[w].todo \subseteq DOMAIN run
    BY <1>1 DEF Current, Inv, RowOK
  <2> QED
    BY <1>1, <1>2, <1>7, <2>1, <2>2 DEF RowOrdered, Driven
<1>10. Ordered'
  <2>1. PICK j : j = worker'[w]
    OBVIOUS
  <2> QED
    BY <1>2, <1>6, <1>8, <1>9, <2>1, OrderedMoves
<1> QED
  BY <1>1, <1>6, <1>10, BookSame DEF DurableStep

\* The record of a step, of the step the run is at and after its effect.
LEMMA StepReturnsOrdered ==
    ASSUME Inv, OneDriver, Committed, Ordered, NEW w \in Worker, StepReturns(w)
    PROVE  Ordered' /\ DurableStep
<1> DEFINE r == Current(w)
           k == worker[w].step
           row == [run[r] EXCEPT !.done = @ \cup {k}]
<1>1. /\ worker[w].at = "record" /\ worker[w] \in WorkerRow /\ AppendTo(r, row)
      /\ fired' = fired
  BY DriverHere DEF StepReturns
<1>2. /\ k \in Steps /\ r \in DOMAIN run /\ w \in Driver /\ run[r].done = 1 .. (k - 1)
      /\ run[r].status \in NoVerdict /\ Durable!AtStep(r, k)
  BY <1>1, AtItsStep DEF InStep
<1>3. run[r] \in RunRow
  BY <1>2, RunsNumbered DEF Inv
<1>4. /\ row \in RunRow /\ row.key = run[r].key /\ row.known = run[r].known
      /\ row.status = run[r].status /\ row.cancelled = run[r].cancelled
      /\ row.done = 1 .. k
  <2>1. k \in Nat /\ k >= 1
    BY <1>2, WorkflowAssumption DEF Steps
  <2>2. (1 .. (k - 1)) \cup {k} = 1 .. k
    BY <2>1
  <2>3. run[r].done \cup {k} \subseteq Steps
    BY <1>2, <1>3 DEF RunRow
  <2> QED
    BY <1>2, <1>3, <2>2, <2>3 DEF RunRow
<1> HIDE DEF row
<1>5. Entry(row) = [Book[r] EXCEPT !.done = 1 .. k]
  <2>1. Entry(row) = [key |-> run[r].key, done |-> 1 .. k, status |-> run[r].status,
                      asked |-> run[r].cancelled]
    BY <1>4 DEF Entry
  <2>2. Book[r] = Entry(run[r])
    BY <1>2, BookRows
  <2> QED
    BY <2>1, <2>2 DEF Entry
<1>6. /\ RowsKept /\ DOMAIN run' = DOMAIN run
      /\ \A q \in DOMAIN run : run'[q] = IF q = r THEN row ELSE run[q]
      /\ Book' = [Book EXCEPT ![r] = Entry(row)]
  BY <1>1, <1>2, <1>4, RowWritten
<1>7. /\ worker'[w].on = worker[w].on /\ worker'[w].todo = worker[w].todo
      /\ worker'[w].at = "body" /\ worker' = [worker EXCEPT ![w] = worker'[w]]
  <2>1. /\ worker \in [Worker -> WorkerRow]
        /\ worker' = [worker EXCEPT ![w].at = "body", ![w].step = @ + 1, ![w].attempt = 0]
    BY DEF StepReturns, Inv, TypeOK
  <2> QED
    BY <1>1, <2>1 DEF WorkerRow
<1>8. RunsGoOn(w) /\ \A q \in DOMAIN run : InStepOrder(run'[q].done)
  <2>1. k \in 0 .. NSteps
    BY <1>2, WorkflowAssumption DEF Steps
  <2> QED
    BY <1>4, <1>6, <2>1 DEF RunsGoOn, Ordered, InStepOrder
<1>9. RowOrdered(w, worker'[w], run')
  <2>1. RowOrdered(w, worker[w], run)
    BY DEF Ordered
  <2>2. \A q \in DOMAIN run : run'[q].status = run[q].status
    BY <1>4, <1>6
  <2>3. worker[w].on \in DOMAIN run /\ worker[w].todo \subseteq DOMAIN run
    BY <1>2 DEF Current, Inv, RowOK
  <2> QED
    BY <1>1, <1>7, <2>1, <2>2, <2>3 DEF RowOrdered, Driven
<1>10. Ordered'
  <2>1. PICK j : j = worker'[w]
    OBVIOUS
  <2> QED
    BY <1>6, <1>7, <1>8, <1>9, <2>1, OrderedMoves
<1>11. fired[<<Book[r].key, k>>] = 1
  <2>1. EffectOf(w) \in effects
    BY <1>1 DEF Committed
  <2>2. EffectOf(w) \in Effect
    BY <1>1, EffectThere DEF InStep
  <2>3. EffectOf(w) = <<Book[r].key, k>>
    BY <1>2, BookRows DEF EffectOf, Entry
  <2> QED
    BY <2>1, <2>2, <2>3 DEF Committed
<1>12. Durable!FinishStep(r, k)
  BY <1>1, <1>2, <1>5, <1>6, <1>11 DEF Durable!FinishStep
<1> QED
  BY <1>2, <1>10, <1>12, BookRows
     DEF DurableStep, Durable!DurableNext, Durable!Step, Steps

LEMMA DedupeCommitOrdered ==
    ASSUME Inv, OneDriver, Committed, Ordered, NEW w \in Worker, DedupeCommit(w)
    PROVE  Ordered' /\ DurableStep
<1> DEFINE r == Current(w)
           k == worker[w].step
<1>1. worker[w].at = "effect" /\ worker[w] \in WorkerRow /\ run' = run
  BY DriverHere DEF DedupeCommit
<1>2. /\ k \in Steps /\ r \in DOMAIN run /\ w \in Driver /\ Durable!AtStep(r, k)
  BY <1>1, AtItsStep DEF InStep
<1>3. EffectOf(w) = <<Book[r].key, k>> /\ EffectOf(w) \in Effect /\ EffectOf(w) \notin effects
  BY <1>1, <1>2, BookRows, EffectThere DEF EffectOf, Entry, InStep, Committed
<1>4. fired[EffectOf(w)] = 0 /\ fired' = [fired EXCEPT ![EffectOf(w)] = 1]
  <2>1. fired[EffectOf(w)] = 0
    BY <1>3 DEF Committed
  <2> QED
    BY <2>1 DEF DedupeCommit
<1>5. Book' = Book
  BY <1>1, BookSame
<1>6. Durable!Happen(r, k)
  BY <1>2, <1>3, <1>4, <1>5 DEF Durable!Happen
<1>7. /\ worker'[w].on = worker[w].on /\ worker'[w].todo = worker[w].todo
      /\ worker'[w].at = "record" /\ worker' = [worker EXCEPT ![w] = worker'[w]]
  <2>1. worker \in [Worker -> WorkerRow] /\ worker' = [worker EXCEPT ![w].at = "record"]
    BY DEF DedupeCommit, Inv, TypeOK
  <2> QED
    BY <1>1, <2>1 DEF WorkerRow
<1>8. RowOrdered(w, worker'[w], run)
  <2>1. RowOrdered(w, worker[w], run)
    BY DEF Ordered
  <2> QED
    BY <1>1, <1>7, <2>1 DEF RowOrdered, Driven
<1>9. Ordered'
  <2>1. PICK j : j = worker'[w]
    OBVIOUS
  <2> QED
    BY <1>1, <1>7, <1>8, <2>1, OrderedQuiet
<1> QED
  BY <1>2, <1>6, <1>9, BookRows
     DEF DurableStep, Durable!DurableNext, Durable!Step, Steps

\* While lines are whole, every run's start can be read.
AllKnown == \A q \in DOMAIN run : run[q].known

\* A run begins under a key no run has.
LEMMA StartAppendOrdered ==
    ASSUME Inv, OneDriver, Committed, Ordered, ~TornWrites, NEW w \in Worker, StartAppend(w),
           AllKnown
    PROVE  Ordered' /\ DurableStep
<1> DEFINE key == worker[w].key
           n == Len(run) + 1
           row == [key |-> key, known |-> TRUE, status |-> "running", args |-> "none",
                   done |-> {}, cancelled |-> FALSE]
<1>1. /\ worker[w] \in WorkerRow /\ worker[w].at = "start" /\ w \in Driver /\ key \in Key
      /\ StartedUnder(key) = {} /\ worker[w].todo \subseteq DOMAIN run
  BY DEF StartAppend, Inv, TypeOK, RowOK, Driven
<1>2. /\ run \in Seq(RunRow) /\ Len(run) \in Nat /\ DOMAIN run = 1 .. Len(run)
  BY RunsNumbered DEF Inv, TypeOK
<1>3. row \in RunRow
  BY <1>1 DEF RunRow
<1>4. run' = Append(run, row) /\ fired' = fired
  BY DEF StartAppend, Committed
<1> HIDE DEF row
<1>5. /\ Len(run') = n /\ DOMAIN run' = 1 .. n
      /\ \A q \in 1 .. Len(run) : run'[q] = run[q]
      /\ run'[n] = row
  BY <1>2, <1>3, <1>4, AppendProperties
<1>6. /\ worker'[w].on = n /\ worker'[w].todo = worker[w].todo
      /\ worker'[w].at = "args" /\ \A v \in Worker \ {w} : worker'[v] = worker[v]
  <2>1. /\ worker \in [Worker -> WorkerRow]
        /\ worker' = [worker EXCEPT ![w].at = "args", ![w].args = "given", ![w].on = n]
    BY DEF StartAppend, Inv, TypeOK
  <2> QED
    BY <1>1, <2>1 DEF WorkerRow
<1>7. \A q \in DOMAIN run' : InStepOrder(run'[q].done)
  <2>1. InStepOrder({})
    <3>1. 0 \in 0 .. NSteps /\ 1 .. 0 = {}
      BY WorkflowAssumption
    <3> QED
      BY <3>1 DEF InStepOrder
  <2>2. run'[n].done = {}
    BY <1>5 DEF row
  <2>3. \A q \in 1 .. Len(run) : InStepOrder(run'[q].done)
    BY <1>2, <1>5 DEF Ordered
  <2>4. \A q \in 1 .. n : q = n \/ q \in 1 .. Len(run)
    BY <1>2
  <2> QED
    BY <1>5, <2>1, <2>2, <2>3, <2>4
<1>8. ASSUME NEW v \in Worker PROVE RowOrdered(v, worker'[v], run')
  <2>1. RowOrdered(v, worker[v], run) /\ RowOK(v, worker[v])
    BY DEF Ordered, Inv
  <2>2. CASE v = w
    <3>1. run'[n].status = "running" /\ n \notin DOMAIN run
      BY <1>2, <1>5 DEF row
    <3>2. \A q \in worker[w].todo : q # n /\ run'[q].status \in NoVerdict
      BY <1>1, <1>2, <1>5, <2>1, <2>2, <3>1 DEF RowOrdered
    <3> QED
      BY <1>6, <2>2, <3>1, <3>2 DEF RowOrdered, NoVerdict
  <2>3. CASE v # w
    <3>1. worker'[v] = worker[v] /\ worker[v].todo \subseteq DOMAIN run
      BY <1>6, <2>1, <2>3 DEF RowOK
    <3>2. worker[v].at \in (Driven \ {"start"}) \cup {"cancel", "cancelling"} =>
            worker[v].on \in DOMAIN run
      BY <2>1 DEF RowOK, Driven
    <3> QED
      BY <1>2, <1>5, <2>1, <3>1, <3>2 DEF RowOrdered
  <2> QED
    BY <2>2, <2>3
<1>9. Ordered'
  <2>1. Ordered' <=> /\ \A r \in DOMAIN run' : InStepOrder(run'[r].done)
                     /\ \A v \in Worker : RowOrdered(v, worker'[v], run')
    BY DEF Ordered, InStepOrder, RowOrdered
  <2> QED
    BY <1>7, <1>8, <2>1
<1>10. \A q \in DOMAIN Book : Book[q].key # key
  BY <1>1, BookRows DEF StartedUnder, Known, Entry, AllKnown
<1>11. Book' = Append(Book, Durable!Begun(key))
  <2>1. Entry(row) = Durable!Begun(key)
    BY DEF row, Entry, Durable!Begun
  <2>2. DOMAIN Book = 1 .. Len(run) /\ Book = [q \in 1 .. Len(run) |-> Entry(run[q])]
    BY <1>2, BookIs
  <2> DEFINE entries == {Entry(row)} \cup {Entry(run[q]) : q \in 1 .. Len(run)}
             longer == Append(Book, Entry(row))
  <2>3. Book \in Seq(entries) /\ Len(Book) = Len(run)
    <3>1. Book \in [1 .. Len(run) -> entries]
      BY <2>2
    <3> QED
      BY <1>2, <3>1, SeqDef, LenProperties
  <2>4. /\ DOMAIN longer = 1 .. n /\ longer = [q \in 1 .. n |-> longer[q]]
        /\ \A q \in 1 .. n : longer[q] = IF q <= Len(Book) THEN Book[q] ELSE Entry(row)
    <3>1. Entry(row) \in entries
      OBVIOUS
    <3>2. /\ longer \in Seq(entries) /\ Len(longer) = n /\ longer[n] = Entry(row)
          /\ \A q \in 1 .. Len(run) : longer[q] = Book[q]
      BY <2>3, <3>1, AppendProperties
    <3>3. DOMAIN longer = 1 .. n /\ longer = [q \in 1 .. n |-> longer[q]]
      <4>1. longer \in [1 .. Len(longer) -> entries]
        BY <3>2, LenProperties
      <4> HIDE DEF longer, entries
      <4> QED
        BY <3>2, <4>1
    <3>4. \A q \in 1 .. n : IF q <= Len(run) THEN q \in 1 .. Len(run) ELSE q = n
      BY <1>2
    <3> QED
      BY <2>3, <3>2, <3>3, <3>4
  <2>5. Book' = [q \in 1 .. n |-> Entry(run'[q])]
    BY <1>5, BookIs
  <2>6. \A q \in 1 .. n : Entry(run'[q]) = IF q <= Len(Book) THEN Book[q] ELSE Entry(row)
    BY <1>2, <1>5, <2>2, <2>3
  <2> QED
    BY <2>1, <2>3, <2>4, <2>5, <2>6
<1> QED
  BY <1>1, <1>4, <1>9, <1>10, <1>11
     DEF DurableStep, Durable!DurableNext, Durable!Begin

LEMMA NextOrdered ==
    ASSUME OneDriver, ~TornWrites, Inv, Committed, Ordered, AllKnown, [Next]_vars
    PROVE  Ordered' /\ DurableStep
<1> DEFINE Right == Ordered' /\ DurableStep
<1>1. CASE UNCHANGED vars
  <2>1. Book' = Book /\ fired' = fired
    BY <1>1, BookSame DEF vars
  <2> QED
    BY <1>1, <2>1 DEF vars, Ordered, InStepOrder, RowOrdered, DurableStep
<1>2. ASSUME NEW w \in Driver, Recover(w) \/ \E key \in Key : StartCheck(w, key) PROVE Right
  BY <1>2, StartsQuiet DEF DurableStep
<1>3. ASSUME NEW w \in Canceller, NEW r \in DOMAIN run, CancelRequest(w, r) PROVE Right
  BY <1>3, CancelRequestOrdered
<1>4. ASSUME NEW w \in Worker, Drive(w) PROVE Right
  <2>1. CASE BodyRaises(w)
    BY <2>1, StopsQuiet DEF DurableStep
  <2>2. CASE EnterStep(w) \/ Attempt(w) \/ DedupeCheck(w) \/ CancelRead(w)
    BY <2>2, StaysQuiet DEF DurableStep
  <2>3. CASE StartAppend(w) \/ RecordArgs(w) \/ BodyReturns(w) \/ BodyCancelled(w)
    BY <2>3, StartAppendOrdered, RecordArgsOrdered, BodyOrdered
  <2>4. CASE DedupeCommit(w) \/ StepRaises(w) \/ StepReturns(w) \/ CancelFinish(w)
    BY <2>4, DedupeCommitOrdered, StepRaisesOrdered, StepReturnsOrdered, CancelFinishOrdered
  <2> QED
    BY <1>4, <2>1, <2>2, <2>3, <2>4 DEF Drive
<1>5. ASSUME NEW w \in Worker, Kill(w) PROVE Right
  BY <1>5, StopsQuiet DEF DurableStep
<1> QED
  BY <1>1, <1>2, <1>3, <1>4, <1>5 DEF Next

LEMMA NextKnown ==
    ASSUME Inv, Committed, AllKnown, [Next]_vars
    PROVE  AllKnown'
<1>1. CASE UNCHANGED run
  BY <1>1 DEF AllKnown
<1>2. ASSUME NEW r \in DOMAIN run, NEW row, AppendTo(r, row), row.known = run[r].known
      PROVE  AllKnown'
  BY <1>2 DEF AppendTo, Fold, Committed, AllKnown
<1>3. ASSUME NEW w \in Worker, StartAppend(w) PROVE AllKnown'
  <2> DEFINE row == [key |-> worker[w].key, known |-> ~torn, status |-> "running",
                     args |-> "none", done |-> {}, cancelled |-> FALSE]
  <2>1. worker[w].key \in Key
    BY <1>3 DEF StartAppend, Inv, RowOK
  <2>2. row \in RunRow /\ row.known = TRUE
    BY <2>1 DEF RunRow, Committed, Inv, TypeOK
  <2>3. run \in Seq(RunRow) /\ run' = Append(run, row)
    BY <1>3 DEF StartAppend, Inv, TypeOK
  <2> HIDE DEF row
  <2>4. \A q \in DOMAIN run' : run'[q] = row \/ (q \in DOMAIN run /\ run'[q] = run[q])
    BY <2>2, <2>3, AppendProperties
  <2> QED
    BY <2>2, <2>4 DEF AllKnown
<1>4. ASSUME NEW w \in Worker, RecordArgs(w) PROVE AllKnown'
  <2>1. Current(w) \in DOMAIN run /\ run[Current(w)] \in RunRow
    BY <1>4, DriverHere DEF RecordArgs
  <2> QED
    BY <1>1, <1>2, <1>4, <2>1 DEF RecordArgs, RunRow
<1>5. ASSUME NEW r \in DOMAIN run, NEW status, Finish(r, status) PROVE AllKnown'
  <2>1. run[r] \in RunRow
    BY RunsNumbered DEF Inv
  <2> QED
    BY <1>2, <1>5, <2>1 DEF Finish, RunRow
<1>6. ASSUME NEW w \in Worker,
             BodyReturns(w) \/ BodyCancelled(w) \/ StepRaises(w) \/ CancelFinish(w)
      PROVE  AllKnown'
  <2>1. Current(w) \in DOMAIN run
    BY <1>6, DriverHere DEF BodyReturns, BodyCancelled, StepRaises, CancelFinish, InBody
  <2> QED
    BY <1>1, <1>5, <1>6, <2>1 DEF BodyReturns, BodyCancelled, StepRaises, CancelFinish
<1>7. ASSUME NEW w \in Worker, StepReturns(w) PROVE AllKnown'
  <2>1. Current(w) \in DOMAIN run /\ run[Current(w)] \in RunRow
    BY <1>7, DriverHere DEF StepReturns
  <2> QED
    BY <1>2, <1>7, <2>1 DEF StepReturns, RunRow
<1>8. ASSUME NEW w \in Canceller, NEW r \in DOMAIN run, CancelRequest(w, r) PROVE AllKnown'
  <2>1. run[r] \in RunRow
    BY RunsNumbered DEF Inv
  <2> QED
    BY <1>2, <1>8, <2>1 DEF CancelRequest, RunRow
<1> QED
  BY <1>1, <1>3, <1>4, <1>6, <1>7, <1>8
     DEF Next, Drive, vars, StartCheck, Recover, Kill, BodyRaises, EnterStep, Attempt,
         DedupeCheck, DedupeCommit, CancelRead

LEMMA InitDurable ==
    ASSUME Init
    PROVE  Ordered /\ AllKnown /\ Durable!DurableInit
<1>1. run = <<>> /\ DOMAIN run = {}
  BY DEF Init
<1>2. \A w \in Worker : RowOrdered(w, worker[w], run)
  BY IdleOrdered DEF Init
<1>3. Book = <<>>
  BY <1>1, BookIs
<1>4. fired = [e \in Key \X Durable!Step |-> 0]
  BY DEF Init, Effect, Steps, Durable!Step
<1> QED
  BY <1>1, <1>2, <1>3, <1>4 DEF Ordered, AllKnown, Durable!DurableInit

\* The journal implements DurableRuns, for any keys, steps, attempts, cancellers and
\* kills, when one process drives at a time and no kill leaves half a line behind.
THEOREM JournalIsDurable ==
    ASSUME OneDriver, ~TornWrites
    PROVE  Spec => RunsAreDurable
<1>1. Init => Ordered /\ AllKnown /\ Durable!DurableInit
  BY InitDurable
<1>2. Inv /\ Committed /\ Ordered /\ AllKnown /\ [Next]_vars => (Ordered /\ AllKnown)'
  BY NextOrdered, NextKnown
<1>3. Inv /\ Committed /\ Ordered /\ AllKnown /\ [Next]_vars =>
        [Durable!DurableNext]_(Durable!durableVars)
  BY NextOrdered DEF DurableStep, Durable!durableVars
<1>4. Spec => []Inv /\ []Committed
  BY AlwaysInv, AlwaysCommitted
<1> QED
  BY <1>1, <1>2, <1>3, <1>4, PTL DEF Spec, RunsAreDurable, Durable!DurableSpec

-----------------------------------------------------------------------------
(* Drafting: the least of a set of naturals.                                *)

\* A set of naturals that has a member has a least one.
LEMMA Least ==
    ASSUME NEW S, S # {}, S \subseteq Nat
    PROVE  \E n \in S : \A m \in S : n <= m
<1> DEFINE R == OpToRel(<, Nat)
<1>1. IsWellFoundedOn(R, Nat)
  BY NatLessThanWellFounded
<1> HIDE DEF R
<1>2. PICK n \in S : \A m \in S : <<m, n>> \notin R
  BY <1>1, WFMin
<1>3. \A m \in S : ~(m < n)
  BY <1>2 DEF R, OpToRel
<1> QED
  BY <1>3

-----------------------------------------------------------------------------
(* Drafting: what a drafter carries between its steps.                      *)

ItemRow == [identity : Identity, verification : {"verified", "unverified"}, revision : Nat]

\* One answer over the cap: no run costs as much.
Ceiling == MaxUsd + Max({Price(a) : a \in Answers})

DrafterFields == {"at", "targets", "facts", "landed", "spent", "tools", "retries", "attempt",
                  "adjusted", "status", "text"}

Asking == {"post", "record", "write"}

\* What it has still to ask about are referents, and what it has spent on the
\* question in hand is below the cap until the answer that crosses it.
CommandFits(c) ==
    /\ DrafterFields \subseteq DOMAIN c
    /\ c.targets \subseteq Identity
    /\ c.at \in Asking => c.targets # {}
    /\ c.spent \in Nat
    /\ c.at \in {"facts", "ask"} => c.spent = 0
    /\ c.at = "post" => c.spent < MaxUsd
    /\ c.at = "record" => c.spent < Ceiling

Commands == DOMAIN cmd = Drafter /\ \A p \in Drafter : CommandFits(cmd[p])

RunsBelowCeiling == \A r \in annex : r.usd < Ceiling

LEMMA RestingFits == CommandFits(Resting)
BY DEF CommandFits, DrafterFields, Resting, Asking

LEMMA PricesAreNat == \A a \in Answers : Price(a) \in Nat
BY DraftingAssumption DEF Price

\* The longest answer is the dearest.
LEMMA DearestAnswer ==
    /\ Max({Price(a) : a \in Answers}) \in Nat
    /\ \A a \in Answers : Price(a) <= Max({Price(b) : b \in Answers})
<1> DEFINE prices == {Price(a) : a \in Answers}
<1>1. PICK longest \in Answers : \A a \in Answers : a.tokens <= longest.tokens
  BY DraftingAssumption
<1>2. ASSUME NEW a \in Answers
      PROVE  Price(a) <= Price(longest)
  <2>1. /\ a.tokens \in Nat /\ longest.tokens \in Nat /\ UsdPerToken \in Nat
        /\ a.tokens <= longest.tokens
    BY <1>1, DraftingAssumption
  <2>2. a.tokens * UsdPerToken <= longest.tokens * UsdPerToken
    BY <2>1
  <2> QED
    BY <2>2 DEF Price
<1>3. Price(longest) \in prices /\ \A x \in prices : Price(longest) >= x
  BY <1>2, PricesAreNat
<1>4. Max(prices) \in prices /\ \A x \in prices : Max(prices) >= x
  BY <1>3 DEF Max
<1> QED
  BY <1>4, PricesAreNat

LEMMA CeilingIsNat == Ceiling \in Nat
BY DearestAnswer, DraftingAssumption DEF Ceiling

\* The target a run is about is one of those left.
LEMMA ForemostIsATarget ==
    ASSUME NEW targets, targets \subseteq Identity, targets # {}
    PROVE  Foremost(targets) \in targets
<1>1. targets \subseteq Nat
  BY DraftingAssumption DEF Identity
<1>2. \E i \in targets : \A j \in targets : i <= j
  BY <1>1, Least
<1> QED
  BY <1>2 DEF Foremost

LEMMA DiscardedFits ==
    ASSUME Commands, NEW p \in Drafter, At(p, "ask") \/ At(p, "record") \/ At(p, "write")
    PROVE  /\ CommandFits(Discarded(p))
           /\ Discarded(p).at = "ask"
           /\ Discarded(p).targets = cmd[p].targets \ {Foremost(cmd[p].targets)}
BY DEF Commands, CommandFits, Discarded, DrafterFields, Resting, Asking

\* A step of one drafter.
LEMMA DrafterMoves ==
    ASSUME Commands, NEW p \in Drafter, NEW next, CommandFits(next), Goes(p, next)
    PROVE  /\ Commands'
           /\ cmd'[p] = next
           /\ \A q \in Drafter \ {p} : cmd'[q] = cmd[q]
BY DEF Commands, Goes

LEMMA EndedFits ==
    ASSUME Commands, NEW p \in Drafter, At(p, "post"),
           NEW status, NEW text, NEW usd \in Nat, usd < Ceiling
    PROVE  /\ CommandFits(Ended(p, status, text, usd))
           /\ Ended(p, status, text, usd).targets = cmd[p].targets
           /\ Ended(p, status, text, usd).at = "record"
BY DEF Commands, CommandFits, At, Ended, DrafterFields, Asking

LEMMA NextTurnFits ==
    ASSUME Commands, NEW p \in Drafter, At(p, "post"), NEW usd \in Nat, usd < MaxUsd
    PROVE  /\ CommandFits(NextTurn(p, usd))
           /\ NextTurn(p, usd).targets = cmd[p].targets
           /\ NextTurn(p, usd).facts = cmd[p].facts
           /\ NextTurn(p, usd).at = "post"
BY DEF Commands, CommandFits, At, NextTurn, DrafterFields, Asking

\* Where an answer leaves a run: with the same targets and facts, and asking
\* again or with something to record.
Continues(p, next) ==
    /\ CommandFits(next)
    /\ next.targets = cmd[p].targets /\ next.facts = cmd[p].facts
    /\ next.at \in {"post", "record"}

LEMMA AnsweredContinues ==
    ASSUME Commands, NEW p \in Drafter, Answered(p)
    PROVE  \E next : Continues(p, next) /\ Goes(p, next)
<1>1. PICK a \in Answers, late \in BOOLEAN :
        Goes(p, IF Exhausted(cmd[p].spent + Price(a), late)
                THEN Ended(p, "budget_exhausted", "none", cmd[p].spent + Price(a))
                ELSE IF a.calls > 0 THEN RunTools(p, a, cmd[p].spent + Price(a))
                ELSE IF ~Malformed(a) THEN Ended(p, "ok", a.text, cmd[p].spent + Price(a))
                ELSE IF cmd[p].retries >= SchemaRetries
                THEN Ended(p, "error", "none", cmd[p].spent + Price(a))
                ELSE [NextTurn(p, cmd[p].spent + Price(a)) EXCEPT !.retries = @ + 1])
  BY DEF Answered
<1> DEFINE usd == cmd[p].spent + Price(a)
<1>2. At(p, "post") /\ CommandFits(cmd[p])
  BY DEF Answered, Commands
<1>3. usd \in Nat /\ usd < Ceiling
  <2>1. /\ cmd[p].spent \in Nat /\ cmd[p].spent < MaxUsd /\ MaxUsd \in Nat
        /\ Price(a) \in Nat /\ Price(a) <= Max({Price(b) : b \in Answers})
        /\ Max({Price(b) : b \in Answers}) \in Nat
    BY <1>2, DraftingAssumption, PricesAreNat, DearestAnswer DEF CommandFits, At
  <2> HIDE DEF usd
  <2>2. usd = cmd[p].spent + Price(a)
    BY DEF usd
  <2> QED
    BY <2>1, <2>2 DEF Ceiling
<1> HIDE DEF usd
<1>4. \A status, text : Continues(p, Ended(p, status, text, usd))
  <2> SUFFICES ASSUME NEW status, NEW text
               PROVE  Continues(p, Ended(p, status, text, usd))
    OBVIOUS
  <2>1. Ended(p, status, text, usd).facts = cmd[p].facts
    BY <1>2 DEF CommandFits, DrafterFields, Ended
  <2> QED
    BY <1>2, <1>3, <2>1, EndedFits DEF Continues
<1>5. CASE Exhausted(usd, late)
  BY <1>1, <1>4, <1>5 DEF usd
<1>6. CASE ~Exhausted(usd, late)
  <2>1. usd < MaxUsd
    BY <1>3, <1>6, DraftingAssumption DEF Exhausted
  <2> DEFINE turn == NextTurn(p, usd)
  <2>2. /\ CommandFits(turn) /\ turn.targets = cmd[p].targets /\ turn.facts = cmd[p].facts
        /\ turn.at = "post"
    BY <1>2, <1>3, <2>1, NextTurnFits
  <2> HIDE DEF turn
  <2>3. /\ Continues(p, [turn EXCEPT !.tools = @ + a.calls])
        /\ Continues(p, [turn EXCEPT !.retries = @ + 1])
    BY <2>2 DEF Continues, CommandFits, DrafterFields
  <2>4. CASE a.calls > 0
    <3>1. Goes(p, RunTools(p, a, usd))
      BY <1>1, <1>6, <2>4 DEF usd
    <3>2. Continues(p, RunTools(p, a, usd))
      BY <1>4, <2>3 DEF RunTools, turn
    <3> QED
      BY <3>1, <3>2
  <2>5. CASE ~(a.calls > 0)
    <3>1. Goes(p, IF ~Malformed(a) THEN Ended(p, "ok", a.text, usd)
                  ELSE IF cmd[p].retries >= SchemaRetries THEN Ended(p, "error", "none", usd)
                  ELSE [turn EXCEPT !.retries = @ + 1])
      BY <1>1, <1>6, <2>5 DEF usd, turn
    <3> QED
      BY <1>4, <2>3, <3>1
  <2> QED
    BY <2>4, <2>5
<1> QED
  BY <1>5, <1>6

LEMMA LostContinues ==
    ASSUME Commands, NEW p \in Drafter, Lost(p) \/ Negotiate(p) \/ ProviderError(p)
    PROVE  \E next : Continues(p, next) /\ Goes(p, next)
<1>1. At(p, "post") /\ CommandFits(cmd[p])
  BY DEF Commands, Lost, Negotiate, ProviderError
<1>2. Continues(p, Ended(p, "error", "none", cmd[p].spent))
  <2>1. cmd[p].spent \in Nat /\ cmd[p].spent < Ceiling
    <3>1. cmd[p].spent \in Nat /\ cmd[p].spent < MaxUsd /\ MaxUsd \in Nat
      BY <1>1, DraftingAssumption DEF CommandFits, At
    <3> QED
      BY <3>1, DearestAnswer DEF Ceiling
  <2>2. Ended(p, "error", "none", cmd[p].spent).facts = cmd[p].facts
    BY <1>1 DEF CommandFits, DrafterFields, Ended
  <2> QED
    BY <1>1, <2>1, <2>2, EndedFits DEF Continues
<1>3. /\ Continues(p, [cmd[p] EXCEPT !.attempt = @ + 1])
      /\ Continues(p, [cmd[p] EXCEPT !.adjusted = @ + 1])
  BY <1>1 DEF Continues, CommandFits, DrafterFields, At
<1>4. CASE Lost(p)
  BY <1>2, <1>3, <1>4 DEF Lost
<1>5. CASE Negotiate(p)
  BY <1>3, <1>5 DEF Negotiate
<1>6. CASE ProviderError(p)
  BY <1>2, <1>6 DEF ProviderError
<1> QED
  BY <1>4, <1>5, <1>6

-----------------------------------------------------------------------------
(* Drafting: the items, the pack and the annex.                             *)

\* A pack that has not read its drafts has none, and what it read as confirmed
\* stays so: nothing takes a confirmation back.
PackFits ==
    /\ {"read", "canon", "drafts"} \subseteq DOMAIN pack
    /\ pack.read \in 0..2
    /\ pack.canon \subseteq Confirmed
    /\ pack.read < 2 => pack.drafts = {}
    /\ pack.canon \cap pack.drafts = {}

DraftingInv == items \in Seq(ItemRow) /\ Commands /\ RunsBelowCeiling /\ PackFits

\* What every step but Write does to the items: no draft appears.
NoNewDraft ==
    /\ items' \in Seq(ItemRow)
    /\ Confirmed \subseteq Confirmed'
    /\ Drafts' \subseteq Drafts
    /\ \A n \in Drafts' : items'[n].identity = items[n].identity

LEMMA SameItems ==
    ASSUME items \in Seq(ItemRow), items' = items
    PROVE  NoNewDraft
BY DEF NoNewDraft, Drafts, Confirmed

LEMMA ItemAppended ==
    ASSUME items \in Seq(ItemRow), NEW i \in Identity,
           NEW verification \in {"verified", "unverified"},
           items' = Append(items, Item(i, verification))
    PROVE  /\ items' \in Seq(ItemRow)
           /\ Confirmed \subseteq Confirmed'
           /\ verification = "verified" => NoNewDraft
           /\ Drafts' \subseteq Drafts \cup {Len(items) + 1}
           /\ \A n \in Drafts : items'[n].identity = items[n].identity
           /\ items'[Len(items) + 1].identity = i
           /\ Len(items) + 1 \notin Drafts
<1> DEFINE row == Item(i, verification)
<1>1. row \in ItemRow /\ row.identity = i /\ row.verification = verification
  BY DEF Item, ItemRow
<1> HIDE DEF row
<1>2. /\ Len(items) \in Nat /\ DOMAIN items = 1..Len(items)
      /\ items' \in Seq(ItemRow) /\ Len(items') = Len(items) + 1
      /\ DOMAIN items' = 1..(Len(items) + 1)
      /\ \A n \in 1..Len(items) : items'[n] = items[n]
      /\ items'[Len(items) + 1] = row
  <2>1. items' = Append(items, row)
    BY DEF row
  <2> QED
    BY <1>1, <2>1, AppendProperties, LenProperties
<1>3. \A n \in DOMAIN items' : n \in DOMAIN items \/ n = Len(items) + 1
  BY <1>2
<1>4. Len(items) + 1 \notin DOMAIN items
  BY <1>2
<1>5. Confirmed \subseteq Confirmed'
  BY <1>2 DEF Confirmed
<1>6. Drafts' \subseteq Drafts \cup {Len(items) + 1}
  BY <1>2, <1>3 DEF Drafts, Confirmed
<1>7. \A n \in Drafts : items'[n].identity = items[n].identity
  BY <1>2 DEF Drafts
<1>8. verification = "verified" => Len(items) + 1 \notin Drafts'
  BY <1>1, <1>2 DEF Drafts, Confirmed
<1>9. Len(items) + 1 \notin Drafts
  BY <1>4 DEF Drafts
<1> QED
  BY <1>1, <1>2, <1>5, <1>6, <1>7, <1>8, <1>9 DEF NoNewDraft

LEMMA ConfirmedItem ==
    ASSUME items \in Seq(ItemRow), NEW n,
           items' = [items EXCEPT ![n].verification = "verified", ![n].revision = @ + 1]
    PROVE  NoNewDraft
<1>1. Len(items) \in Nat /\ DOMAIN items = 1..Len(items) /\ items \in [1..Len(items) -> ItemRow]
  BY LenProperties
<1>2. DOMAIN items' = DOMAIN items
  OBVIOUS
<1>3. ASSUME NEW m \in DOMAIN items
      PROVE  /\ items'[m] \in ItemRow
             /\ items'[m].identity = items[m].identity
             /\ items'[m].verification = "verified" \/ items'[m] = items[m]
             /\ items[m].verification = "verified" => items'[m].verification = "verified"
  <2>1. items[m] \in ItemRow
    BY <1>1
  <2>2. CASE m = n
    <3>1. items'[m] = [items[m] EXCEPT !.verification = "verified", !.revision = @ + 1]
      BY <2>2
    <3>2. PICK k \in Nat : k = items[m].revision + 1
      BY <2>1 DEF ItemRow
    <3>3. items'[m] = [identity |-> items[m].identity, verification |-> "verified",
                       revision |-> k]
      BY <2>1, <3>1, <3>2 DEF ItemRow
    <3>4. items[m].identity \in Identity
      BY <2>1 DEF ItemRow
    <3> QED
      BY <3>2, <3>3, <3>4 DEF ItemRow
  <2>3. CASE m # n
    <3>1. items'[m] = items[m]
      BY <2>3
    <3> QED
      BY <2>1, <3>1
  <2> QED
    BY <2>2, <2>3
<1>4. items' \in Seq(ItemRow)
  <2>1. items' = [m \in 1..Len(items) |-> items'[m]]
    BY <1>1
  <2>2. items' \in [1..Len(items) -> ItemRow]
    BY <1>1, <1>2, <1>3, <2>1
  <2> QED
    BY <1>1, <2>2, SeqDef
<1>5. Confirmed \subseteq Confirmed'
  BY <1>2, <1>3 DEF Confirmed
<1>6. Drafts' \subseteq Drafts
  BY <1>2, <1>5 DEF Drafts
<1>7. \A m \in Drafts' : items'[m].identity = items[m].identity
  BY <1>2, <1>3 DEF Drafts
<1> QED
  BY <1>4, <1>5, <1>6, <1>7 DEF NoNewDraft

LEMMA PackStays ==
    ASSUME PackFits, pack' = pack, Confirmed \subseteq Confirmed'
    PROVE  PackFits'
BY DEF PackFits

\* The canon is read before the drafts, and a confirmed draft is no draft.
LEMMA PackIsRead ==
    ASSUME PackFits, AssemblePack
    PROVE  PackFits'
<1> DEFINE start == IF pack.read = 2 THEN [read |-> 0, canon |-> {}, drafts |-> {}] ELSE pack
           step == PackOrder[start.read + 1]
           chosen == IF step = "canon" THEN Confirmed ELSE Drafts
<1>1. /\ pack' = [start EXCEPT !.read = @ + 1, ![step] = chosen]
      /\ items' = items
  BY DEF AssemblePack
<1>2. Confirmed' = Confirmed
  BY <1>1 DEF Confirmed
<1>3. /\ {"read", "canon", "drafts"} \subseteq DOMAIN start
      /\ start.read \in {0, 1} /\ start.drafts = {} /\ start.canon \subseteq Confirmed
  BY DEF PackFits
<1>4. Confirmed \cap Drafts = {}
  BY DEF Drafts
<1> HIDE DEF start
<1>5. CASE start.read = 0
  <2>1. step = "canon" /\ chosen = Confirmed
    BY <1>5 DEF PackOrder
  <2>2. pack' = [start EXCEPT !.read = @ + 1, !["canon"] = Confirmed]
    BY <1>1, <2>1
  <2> QED
    BY <1>2, <1>3, <1>5, <2>2 DEF PackFits
<1>6. CASE start.read = 1
  <2>1. step = "drafts" /\ chosen = Drafts
    BY <1>6 DEF PackOrder
  <2>2. pack' = [start EXCEPT !.read = @ + 1, !["drafts"] = Drafts]
    BY <1>1, <2>1
  <2> QED
    BY <1>2, <1>3, <1>4, <1>6, <2>2 DEF PackFits
<1> QED
  BY <1>3, <1>5, <1>6

-----------------------------------------------------------------------------
(* Drafting: the steps of a drafter.                                        *)

Chosen == {"ask"} \cup Asking

\* What a step of a drafter makes of its targets and its question: targets are
\* chosen among the undrafted once and only leave after, and a question is put
\* when the annex holds no run of it.
Carries(p, next) ==
    /\ CommandFits(next) /\ Goes(p, next)
    /\ next.at \in Chosen =>
          \/ next.targets \cap AlreadyDrafted = {}
          \/ cmd[p].at \in Chosen /\ next.targets \subseteq cmd[p].targets
    /\ next.at = "post" =>
          /\ next.targets = cmd[p].targets /\ next.facts = cmd[p].facts
          /\ cmd[p].at = "post" \/ FindRun(IdempotencyKey(p)) = {}

LEMMA ContinuingCarries ==
    ASSUME NEW p, At(p, "post"), NEW next, Continues(p, next), Goes(p, next)
    PROVE  Carries(p, next)
BY DEF Continues, Carries, At, Chosen, Asking

LEMMA DiscardingCarries ==
    ASSUME Commands, NEW p \in Drafter, At(p, "ask") \/ At(p, "record"),
           Goes(p, Discarded(p))
    PROVE  Carries(p, Discarded(p))
BY DiscardedFits DEF Carries, Chosen, Asking, At

LEMMA RestingCarries ==
    ASSUME NEW p, Goes(p, Resting)
    PROVE  Carries(p, Resting)
BY RestingFits DEF Carries, Resting, Chosen, Asking

\* A drafter that starts over, or has not yet read what is drafted.
LEMMA StartingCarries ==
    ASSUME NEW p, NEW targets, targets \subseteq Identity,
           Goes(p, [Resting EXCEPT !.at = "facts", !.targets = targets])
    PROVE  Carries(p, [Resting EXCEPT !.at = "facts", !.targets = targets])
BY RestingFits DEF Carries, CommandFits, DrafterFields, Resting, Chosen, Asking

LEMMA GatheringCarries ==
    ASSUME Commands, NEW p \in Drafter, Gather(p)
    PROVE  \E next : Carries(p, next)
<1> DEFINE targets == Worth(cmd[p].targets, AlreadyDrafted)
           next == [cmd[p] EXCEPT !.at = "ask", !.targets = targets,
                                  !.facts = [i \in targets |-> Facts(i)]]
<1>1. Goes(p, next) /\ At(p, "facts") /\ CommandFits(cmd[p])
  BY DEF Gather, Commands
<1>2. targets \subseteq cmd[p].targets /\ targets \cap AlreadyDrafted = {}
  BY DEF Worth
<1> HIDE DEF targets
<1>3. CommandFits(next) /\ next.targets = targets /\ next.at = "ask"
  BY <1>1, <1>2 DEF CommandFits, DrafterFields, At, Asking
<1>4. Carries(p, next)
  BY <1>1, <1>2, <1>3 DEF Carries
<1> QED
  BY <1>4

LEMMA OpeningCarries ==
    ASSUME Commands, NEW p \in Drafter, Open(p)
    PROVE  \E next : Carries(p, next)
<1> DEFINE next == [cmd[p] EXCEPT !.at = "post"]
<1>1. /\ Goes(p, next) /\ At(p, "ask") /\ CommandFits(cmd[p]) /\ cmd[p].targets # {}
      /\ FindRun(IdempotencyKey(p)) = {}
  BY DEF Open, Asks, Commands
<1>2. /\ CommandFits(next) /\ next.targets = cmd[p].targets /\ next.facts = cmd[p].facts
      /\ next.at = "post"
  BY <1>1, DraftingAssumption DEF CommandFits, DrafterFields, At, Asking
<1>3. Carries(p, next)
  BY <1>1, <1>2 DEF Carries, At, Chosen
<1> QED
  BY <1>3

\* Every step of a drafter but the two that write.
Reads(p) ==
    \/ DraftMissing(p) \/ Gather(p) \/ Replay(p) \/ RefuseSkill(p) \/ RefuseAdapter(p)
    \/ Open(p) \/ Answered(p) \/ Lost(p) \/ Negotiate(p) \/ ProviderError(p)
    \/ OpenBatch(p) \/ KillDrafter(p)
    \/ \E i \in Identity : DraftIdentity(p, i)

LEMMA ReadingCarries ==
    ASSUME Commands, NEW p \in Drafter, Reads(p)
    PROVE  (\E next : Carries(p, next)) /\ UNCHANGED <<items, annex, pack>>
<1>1. CASE DraftMissing(p)
  <2> DEFINE targets == {i \in Identity \ waived : Uncovered(i)}
  <2>1. targets \subseteq Identity
    OBVIOUS
  <2> HIDE DEF targets
  <2>2. Goes(p, [Resting EXCEPT !.at = "facts", !.targets = targets])
    BY <1>1 DEF DraftMissing, targets
  <2>3. UNCHANGED <<items, annex, pack>>
    BY <1>1 DEF DraftMissing, StoreUnchanged
  <2> QED
    BY <2>1, <2>2, <2>3, StartingCarries
<1>2. CASE \E i \in Identity : DraftIdentity(p, i)
  <2>1. PICK i \in Identity : DraftIdentity(p, i)
    BY <1>2
  <2>2. {i} \subseteq Identity
    BY <2>1
  <2>3. Goes(p, [Resting EXCEPT !.at = "facts", !.targets = {i}])
    BY <2>1 DEF DraftIdentity
  <2>4. UNCHANGED <<items, annex, pack>>
    BY <2>1 DEF DraftIdentity, StoreUnchanged
  <2> QED
    BY <2>2, <2>3, <2>4, StartingCarries
<1>3. CASE Gather(p)
  BY <1>3, GatheringCarries DEF Gather, StoreUnchanged
<1>4. CASE Replay(p) \/ RefuseSkill(p) \/ RefuseAdapter(p)
  BY <1>4, DiscardingCarries DEF Replay, RefuseSkill, RefuseAdapter, Asks, StoreUnchanged
<1>5. CASE Open(p)
  BY <1>5, OpeningCarries DEF Open, StoreUnchanged
<1>6. CASE Answered(p)
  <2>1. At(p, "post") /\ UNCHANGED <<items, annex, pack>>
    BY <1>6 DEF Answered, StoreUnchanged
  <2> QED
    BY <1>6, <2>1, AnsweredContinues, ContinuingCarries
<1>7. CASE Lost(p) \/ Negotiate(p) \/ ProviderError(p)
  <2>1. At(p, "post") /\ UNCHANGED <<items, annex, pack>>
    BY <1>7 DEF Lost, Negotiate, ProviderError, StoreUnchanged
  <2> QED
    BY <1>7, <2>1, LostContinues, ContinuingCarries
<1>8. CASE OpenBatch(p) \/ KillDrafter(p)
  BY <1>8, RestingCarries DEF OpenBatch, KillDrafter
<1> QED
  BY <1>1, <1>2, <1>3, <1>4, <1>5, <1>6, <1>7, <1>8 DEF Reads

LEMMA RecordingCarries ==
    ASSUME Commands, NEW p \in Drafter, Record(p)
    PROVE  \E next : Carries(p, next) /\ next.at \in {"write", "ask"}
<1>1. At(p, "record") /\ CommandFits(cmd[p])
  BY DEF Record, Commands
<1>2. CASE Goes(p, [cmd[p] EXCEPT !.at = "write"])
  <2> DEFINE next == [cmd[p] EXCEPT !.at = "write"]
  <2>1. CommandFits(next) /\ next.targets = cmd[p].targets /\ next.at = "write"
    BY <1>1 DEF CommandFits, DrafterFields, At, Asking
  <2>2. Carries(p, next)
    BY <1>1, <1>2, <2>1 DEF Carries, At, Chosen, Asking
  <2> QED
    BY <2>1, <2>2
<1>3. CASE Goes(p, Discarded(p))
  BY <1>1, <1>3, DiscardingCarries, DiscardedFits
<1> QED
  BY <1>2, <1>3 DEF Record

LEMMA WritingCarries ==
    ASSUME Commands, NEW p \in Drafter, Write(p)
    PROVE  \E next : /\ Carries(p, next) /\ next.at = "ask"
                     /\ next.targets = cmd[p].targets \ {Foremost(cmd[p].targets)}
<1> DEFINE next == [Discarded(p) EXCEPT !.landed = @ \cup {Len(items) + 1}]
<1>1. At(p, "write") /\ Goes(p, next)
  BY DEF Write
<1>2. /\ CommandFits(Discarded(p)) /\ Discarded(p).at = "ask"
      /\ Discarded(p).targets = cmd[p].targets \ {Foremost(cmd[p].targets)}
  BY <1>1, DiscardedFits
<1>3. /\ CommandFits(next) /\ next.at = "ask"
      /\ next.targets = cmd[p].targets \ {Foremost(cmd[p].targets)}
  BY <1>2 DEF CommandFits, DrafterFields
<1>4. Carries(p, next)
  BY <1>1, <1>3 DEF Carries, At, Chosen, Asking
<1> QED
  BY <1>3, <1>4

\* What the rest of the system does: drafters and runs are left alone, and no
\* draft appears.
Meanwhile == NoNewDraft /\ PackFits' /\ UNCHANGED <<cmd, annex>>

LEMMA OthersMeanwhile ==
    ASSUME DraftingInv,
           \/ \E k \in DOMAIN reviews : Confirm(k) \/ Reject(k)
           \/ \E i \in Identity : Observe(i) \/ Author(i) \/ Waive(i)
           \/ AssemblePack
           \/ UNCHANGED draftingVars
    PROVE  Meanwhile
<1>1. /\ items \in Seq(ItemRow) /\ PackFits
      /\ items' = items => NoNewDraft
      /\ pack' = pack /\ NoNewDraft => PackFits'
  BY SameItems, PackStays DEF DraftingInv, NoNewDraft
<1>2. ASSUME NEW k \in DOMAIN reviews, Confirm(k)
      PROVE  Meanwhile
  <2>1. NoNewDraft
    BY <1>1, <1>2, ConfirmedItem DEF Confirm
  <2> QED
    BY <1>1, <1>2, <2>1 DEF Confirm, Resolve, Meanwhile
<1>3. ASSUME NEW k \in DOMAIN reviews, Reject(k)
      PROVE  Meanwhile
  BY <1>1, <1>3 DEF Reject, Resolve, Meanwhile
<1>4. ASSUME NEW i \in Identity, Author(i)
      PROVE  Meanwhile
  <2>1. NoNewDraft
    BY <1>1, <1>4, ItemAppended DEF Author
  <2> QED
    BY <1>1, <1>4, <2>1 DEF Author, Meanwhile
<1>5. ASSUME NEW i \in Identity, Observe(i) \/ Waive(i)
      PROVE  Meanwhile
  BY <1>1, <1>5 DEF Observe, Waive, Meanwhile
<1>6. CASE AssemblePack
  BY <1>1, <1>6, PackIsRead DEF AssemblePack, Meanwhile
<1>7. CASE UNCHANGED draftingVars
  BY <1>1, <1>7 DEF draftingVars, Meanwhile
<1> QED
  BY <1>2, <1>3, <1>4, <1>5, <1>6, <1>7

LEMMA DrafterOrOthers ==
    ASSUME [DraftingNext]_draftingVars
    PROVE  \/ \E p \in Drafter : Reads(p) \/ Record(p) \/ Write(p)
           \/ \E k \in DOMAIN reviews : Confirm(k) \/ Reject(k)
           \/ \E i \in Identity : Observe(i) \/ Author(i) \/ Waive(i)
           \/ AssemblePack
           \/ UNCHANGED draftingVars
BY DEF DraftingNext, Reads

LEMMA CarryingMoves ==
    ASSUME Commands, NEW p \in Drafter, NEW next, Carries(p, next)
    PROVE  /\ Commands'
           /\ cmd'[p] = next
           /\ \A q \in Drafter \ {p} : cmd'[q] = cmd[q]
BY DrafterMoves DEF Carries

LEMMA InitDrafting == DraftingInit => DraftingInv
<1> SUFFICES ASSUME DraftingInit
             PROVE  DraftingInv
  OBVIOUS
<1>1. items \in Seq(ItemRow)
  BY DEF DraftingInit
<1>2. Commands
  BY RestingFits DEF DraftingInit, Commands
<1>3. RunsBelowCeiling /\ PackFits
  BY DEF DraftingInit, RunsBelowCeiling, PackFits
<1> QED
  BY <1>1, <1>2, <1>3 DEF DraftingInv

LEMMA NextDrafting == DraftingInv /\ [DraftingNext]_draftingVars => DraftingInv'
<1> SUFFICES ASSUME DraftingInv, [DraftingNext]_draftingVars
             PROVE  DraftingInv'
  OBVIOUS
<1>1. Commands /\ items \in Seq(ItemRow) /\ RunsBelowCeiling /\ PackFits
  BY DEF DraftingInv
<1>2. ASSUME items' = items, pack' = pack
      PROVE  items' \in Seq(ItemRow) /\ PackFits'
  BY <1>1, <1>2, SameItems, PackStays DEF NoNewDraft
<1>3. ASSUME NEW p \in Drafter, Reads(p)
      PROVE  DraftingInv'
  <2>1. Commands' /\ UNCHANGED <<items, annex, pack>>
    BY <1>1, <1>3, ReadingCarries, CarryingMoves
  <2> QED
    BY <1>1, <1>2, <2>1 DEF DraftingInv, RunsBelowCeiling
<1>4. ASSUME NEW p \in Drafter, Record(p)
      PROVE  DraftingInv'
  <2>1. /\ Commands' /\ UNCHANGED <<items, pack>>
        /\ annex' = RecordRun(AgentRun(p)) /\ At(p, "record")
    BY <1>1, <1>4, RecordingCarries, CarryingMoves DEF Record, StoreUnchanged
  <2>2. AgentRun(p).usd < Ceiling
    BY <1>1, <2>1 DEF AgentRun, Commands, CommandFits, At
  <2>3. RunsBelowCeiling'
    BY <1>1, <2>1, <2>2 DEF RecordRun, RunsBelowCeiling
  <2> QED
    BY <1>2, <2>1, <2>3 DEF DraftingInv
<1>5. ASSUME NEW p \in Drafter, Write(p)
      PROVE  DraftingInv'
  <2>1. Commands' /\ UNCHANGED <<annex, pack>>
    BY <1>1, <1>5, WritingCarries, CarryingMoves DEF Write
  <2>2. Foremost(cmd[p].targets) \in Identity
    BY <1>1, <1>5, ForemostIsATarget DEF Write, At, Commands, CommandFits, Asking
  <2>3. items' \in Seq(ItemRow) /\ Confirmed \subseteq Confirmed'
    BY <1>1, <1>5, <2>2, ItemAppended DEF Write
  <2> QED
    BY <1>1, <2>1, <2>3, PackStays DEF DraftingInv, RunsBelowCeiling
<1>6. ASSUME Meanwhile
      PROVE  DraftingInv'
  BY <1>1, <1>6 DEF Meanwhile, NoNewDraft, DraftingInv, Commands, RunsBelowCeiling
<1> QED
  BY <1>3, <1>4, <1>5, <1>6, DrafterOrOthers, OthersMeanwhile

\* A run costs less than its cap and one answer more, for any caps, prices,
\* answers and drafters.
THEOREM RunsOverByLessThanOneAnswer == DraftingSpec => []OverByOneAnswer
<1>1. DraftingInv => OverByOneAnswer
  BY DEF DraftingInv, RunsBelowCeiling, OverByOneAnswer, Ceiling
<1> QED
  BY <1>1, InitDrafting, NextDrafting, PTL DEF DraftingSpec

\* No item is in both parts of a pack, for any drafters, reviewers and authors
\* between its reads.
THEOREM PacksHoldNoItemTwice == DraftingSpec => []NoItemTwice
<1>1. DraftingInv => NoItemTwice
  BY DEF DraftingInv, PackFits, NoItemTwice
<1> QED
  BY <1>1, InitDrafting, NextDrafting, PTL DEF DraftingSpec

-----------------------------------------------------------------------------
(* One drafter drafts a referent once, and pays once for a question.        *)

OneDrafter == \A p, q \in Drafter : p = q

\* Two drafts are of two referents, and none is of one still to be asked about.
DraftedOnce ==
    /\ \A m, n \in Drafts : items[m].identity = items[n].identity => m = n
    /\ \A p \in Drafter : cmd[p].at \in Chosen =>
          \A n \in Drafts : items[n].identity \notin cmd[p].targets
    /\ PaidForOnce

LEMMA InitDraftedOnce == DraftingInit => DraftedOnce
<1> SUFFICES ASSUME DraftingInit
             PROVE  DraftedOnce
  OBVIOUS
<1>1. Drafts = {} /\ annex = {}
  BY DEF DraftingInit, Drafts
<1> QED
  BY <1>1 DEF DraftedOnce, PaidForOnce

LEMMA MeanwhileDraftedOnce ==
    ASSUME DraftedOnce, Meanwhile
    PROVE  DraftedOnce'
<1>1. /\ cmd' = cmd /\ annex' = annex
      /\ Drafts' \subseteq Drafts
      /\ \A n \in Drafts' : items'[n].identity = items[n].identity
  BY DEF Meanwhile, NoNewDraft
<1>2. PaidForOnce'
  BY <1>1 DEF DraftedOnce, PaidForOnce, At, IdempotencyKey
<1> QED
  BY <1>1, <1>2 DEF DraftedOnce

\* What the drafter chose is still undrafted after its step.
LEMMA ChosenAreUndrafted ==
    ASSUME DraftedOnce, NEW p \in Drafter, NEW next, Carries(p, next), next.at \in Chosen,
           NEW n \in Drafts
    PROVE  items[n].identity \notin next.targets
BY DEF DraftedOnce, Carries, AlreadyDrafted

\* The question put is the one no run was recorded of.
LEMMA AskedIsUnpaid ==
    ASSUME OneDrafter, Commands, DraftedOnce, NEW p \in Drafter, NEW next, Carries(p, next),
           annex' = annex \/ next.at # "post"
    PROVE  PaidForOnce'
<1>1. \A q \in Drafter : q = p
  BY DEF OneDrafter
<1>2. cmd'[p] = next
  BY CarryingMoves
<1> SUFFICES ASSUME next.at = "post", NEW r \in annex'
             PROVE  r.key # IdempotencyKey(p)'
  BY <1>1, <1>2 DEF PaidForOnce, At
<1>3. /\ annex' = annex
      /\ next.targets = cmd[p].targets /\ next.facts = cmd[p].facts
      /\ cmd[p].at = "post" \/ FindRun(IdempotencyKey(p)) = {}
  BY DEF Carries
<1>4. IdempotencyKey(p)' = IdempotencyKey(p)
  BY <1>2, <1>3 DEF IdempotencyKey
<1>5. CASE cmd[p].at = "post"
  BY <1>3, <1>4, <1>5 DEF DraftedOnce, PaidForOnce, At
<1>6. CASE FindRun(IdempotencyKey(p)) = {}
  BY <1>3, <1>4, <1>6 DEF FindRun
<1> QED
  BY <1>3, <1>5, <1>6

LEMMA NextDraftedOnce ==
    OneDrafter /\ DraftingInv /\ DraftedOnce /\ [DraftingNext]_draftingVars => DraftedOnce'
<1> SUFFICES ASSUME OneDrafter, DraftingInv, DraftedOnce, [DraftingNext]_draftingVars
             PROVE  DraftedOnce'
  OBVIOUS
<1>1. Commands /\ items \in Seq(ItemRow)
  BY DEF DraftingInv
<1>2. ASSUME NEW p \in Drafter, NEW next, Carries(p, next), items' = items,
             annex' = annex \/ next.at # "post"
      PROVE  DraftedOnce'
  <2>1. Drafts' = Drafts /\ cmd'[p] = next /\ \A q \in Drafter : q = p
    BY <1>1, <1>2, CarryingMoves DEF Drafts, Confirmed, OneDrafter
  <2>2. PaidForOnce'
    BY <1>1, <1>2, AskedIsUnpaid
  <2>3. cmd'[p].at \in Chosen => \A n \in Drafts' : items'[n].identity \notin cmd'[p].targets
    BY <1>2, <2>1, ChosenAreUndrafted
  <2> QED
    BY <1>2, <2>1, <2>2, <2>3 DEF DraftedOnce
<1>3. ASSUME NEW p \in Drafter, Reads(p)
      PROVE  DraftedOnce'
  BY <1>1, <1>2, <1>3, ReadingCarries
<1>4. ASSUME NEW p \in Drafter, Record(p)
      PROVE  DraftedOnce'
  BY <1>1, <1>2, <1>4, RecordingCarries DEF Record, StoreUnchanged
<1>5. ASSUME NEW p \in Drafter, Write(p)
      PROVE  DraftedOnce'
  <2> DEFINE i == Foremost(cmd[p].targets)
  <2>1. PICK next : /\ Carries(p, next) /\ next.at = "ask"
                    /\ next.targets = cmd[p].targets \ {i}
    BY <1>1, <1>5, WritingCarries
  <2>2. cmd[p].at = "write" /\ i \in cmd[p].targets /\ i \in Identity
    BY <1>1, <1>5, ForemostIsATarget DEF Write, At, Commands, CommandFits, Asking
  <2> HIDE DEF i
  <2>3. /\ Drafts' \subseteq Drafts \cup {Len(items) + 1}
        /\ \A n \in Drafts : items'[n].identity = items[n].identity
        /\ items'[Len(items) + 1].identity = i
    <3>1. items' = Append(items, Item(i, "unverified"))
      BY <1>5 DEF Write, i
    <3> QED
      BY <1>1, <2>2, <3>1, ItemAppended
  <2>4. cmd'[p] = next /\ \A q \in Drafter : q = p
    BY <1>1, <2>1, CarryingMoves DEF OneDrafter
  <2>5. \A n \in Drafts : items[n].identity \notin cmd[p].targets
    BY <2>2 DEF DraftedOnce, Chosen, Asking
  <2>6. \A m, n \in Drafts' : items'[m].identity = items'[n].identity => m = n
    BY <2>2, <2>3, <2>5 DEF DraftedOnce
  <2>7. \A n \in Drafts' : items'[n].identity \notin cmd'[p].targets
    BY <2>1, <2>3, <2>4, <2>5
  <2>8. PaidForOnce'
    BY <1>1, <2>1, AskedIsUnpaid
  <2> QED
    BY <2>4, <2>6, <2>7, <2>8 DEF DraftedOnce
<1> QED
  BY <1>3, <1>4, <1>5, DrafterOrOthers, OthersMeanwhile, MeanwhileDraftedOnce

\* No question whose run is recorded is put to a provider again, for any gaps,
\* answers, reviewers and kills, when one process drafts at a time.
THEOREM QuestionsPaidForOnce == OneDrafter => (DraftingSpec => []PaidForOnce)
<1> SUFFICES ASSUME OneDrafter
             PROVE  DraftingSpec => []PaidForOnce
  OBVIOUS
<1>1. DraftedOnce => PaidForOnce
  BY DEF DraftedOnce
<1>2. DraftingInv /\ DraftedOnce /\ [DraftingNext]_draftingVars => (DraftingInv /\ DraftedOnce)'
  BY NextDrafting, NextDraftedOnce
<1> QED
  BY <1>1, <1>2, InitDrafting, InitDraftedOnce, PTL DEF DraftingSpec

\* A referent has at most one draft nobody confirmed, for any gaps, answers,
\* reviewers, authors and kills, when one process drafts at a time.
THEOREM ReferentsDraftedOnce == OneDrafter => (DraftingSpec => []OneDraftPerReferent)
<1> SUFFICES ASSUME OneDrafter
             PROVE  DraftingSpec => []OneDraftPerReferent
  OBVIOUS
<1>1. DraftedOnce => OneDraftPerReferent
  <2> SUFFICES ASSUME DraftedOnce, NEW i \in Identity
               PROVE  Cardinality(ItemsOf(i) \cap Drafts) <= 1
    BY DEF OneDraftPerReferent
  <2> DEFINE drafts == ItemsOf(i) \cap Drafts
  <2>1. \A m, n \in drafts : m = n
    BY DEF DraftedOnce, ItemsOf
  <2>2. CASE drafts = {}
    BY <2>2, FS_EmptySet
  <2>3. CASE drafts # {}
    <3>1. PICK n : n \in drafts
      BY <2>3
    <3>2. drafts = {n}
      BY <2>1, <3>1
    <3>3. Cardinality({n}) = 1
      BY FS_Singleton
    <3> QED
      BY <3>2, <3>3
  <2> QED
    BY <2>2, <2>3
<1>2. DraftingInv /\ DraftedOnce /\ [DraftingNext]_draftingVars => (DraftingInv /\ DraftedOnce)'
  BY NextDrafting, NextDraftedOnce
<1> QED
  BY <1>1, <1>2, InitDrafting, InitDraftedOnce, PTL DEF DraftingSpec
=============================================================================
