---------------------------- MODULE Probes_proofs ----------------------------
(***************************************************************************)
(* Proofs about Probes, for any number of runners, editors, probe files,    *)
(* items, runs, edits and kills: a baseline is the whole output of a run    *)
(* that answered, an edit is never reported as drift, and, with one runner, *)
(* a drift is filed once.                                                   *)
(*                                                                         *)
(* The tables only grow, but for a run that has begun and is recorded later *)
(* (Later).  What a command has read is about rows that stay (Knows).       *)
(***************************************************************************)
EXTENDS Probes, SequenceTheorems, WellFoundedInduction, TLAPS

-----------------------------------------------------------------------------
(* The invariant.                                                           *)

Outcomes == {"running", "success", "diff", "failure", "blocked_by_manifest"}
Answered == {"success", "diff"}
Stages   == {"idle", "adding", "register", "probe", "running", "beat", "file", "delta",
             "charge", "done", "sense", "baseline"}

SpecRow     == [spec : ProbeFiles, status : {"active", "retired"}]
ProbeRow    == [name : {file.name : file \in ProbeFiles}, revs : Seq(SpecRow)]
AllOutputs  == {Output(step, w) : step \in UNION {Range(file.steps) : file \in ProbeFiles},
                                  w \in World}
RunRow      == [probe : Nat, rev : Nat, outcome : Outcomes, outputs : Seq(AllOutputs), base : Nat]
BaselineRow == [probe : Nat, rev : Nat, run : Nat, outputs : Seq(AllOutputs)]
Intent      == [identity : Range(On), item : Item, head : Nat]
SensorRow   == [health : {"UNVERIFIED", "HEALTHY", "FAILED", "DEGRADED"}, beats : Nat]
ItemRow     == [bound : {"active", "moved", "retired"}, head : Nat, verified : BOOLEAN,
                retired : BOOLEAN]
Pair        == [probe : Nat, rev : Nat]
Charged     == [identity : Identity, run : Nat, base : Nat]
Sensed      == [probe : Nat, rev : Nat, outcome : Outcomes, outputs : Seq(AllOutputs),
                health : {"HEALTHY", "FAILED", "DEGRADED"}]
Command     == [at : Stages, verb : {"", "add", "run", "refresh", "sense", "baseline"},
                spec : ProbeFiles \cup {NoSpec}, probe : Nat, head : Nat, pairs : SUBSET Pair,
                sensor : Nat, run : Nat, base : Nat, reports : SUBSET Nat,
                judged : SUBSET Intent, todo : SUBSET Intent, absent : SUBSET Intent,
                carried : SUBSET (Charged \cup Sensed)]

TypeOK ==
    /\ probes \in Seq(ProbeRow)
    /\ \A p \in DOMAIN probes : probes[p].revs # <<>>
    /\ runs \in Seq(RunRow)
    /\ baselines \in Seq(BaselineRow)
    /\ conflicts \in Seq(Intent)
    /\ sensors \in Seq(SensorRow)
    /\ items \in [Item -> ItemRow]
    /\ world \in World
    /\ cmd \in [Worker -> Command]
    /\ charged \subseteq Charged
    /\ turns \in Nat /\ kills \in Nat

\* The revision a run, a baseline or a pair names.
Written(row) == row.probe \in DOMAIN probes /\ row.rev \in DOMAIN probes[row.probe].revs
StepsOf(row) == probes[row.probe].revs[row.rev].spec.steps

\* The whole output of that revision.
Whole(row) == Len(row.outputs) = Len(StepsOf(row))

RunsOK ==
    \A r \in DOMAIN runs : Written(runs[r]) /\ (runs[r].outcome \in Answered => Whole(runs[r]))

FromRun(row) ==
    /\ row.run \in DOMAIN runs /\ runs[row.run].outcome \in Answered
    /\ row.probe = runs[row.run].probe /\ row.rev = runs[row.run].rev
    /\ row.outputs = runs[row.run].outputs

\* A charge compares a recorded run with a baseline of its probe and revision.
Compares(c) ==
    /\ c.run \in DOMAIN runs /\ runs[c.run].outcome # "running"
    /\ c.base \in DOMAIN baselines
    /\ runs[c.run].probe = baselines[c.base].probe
    /\ runs[c.run].rev = baselines[c.base].rev

\* What a command has read and done, in rows that stay.
Knows(c) ==
    /\ c.at = "adding" => c.spec \in ProbeFiles /\ c.probe \in DOMAIN probes \cup {0}
    /\ \A pair \in c.pairs : Written(pair)
    /\ c.at \in {"running", "beat"} => c.pairs # {}
    /\ c.at \in {"probe", "running", "beat"} => c.sensor \in DOMAIN sensors
    /\ \A r \in c.reports : r \in DOMAIN runs /\ runs[r].outcome # "running"
    /\ c.at = "beat" => c.run \in c.reports
    /\ c.at = "file" => c.judged \subseteq Range(conflicts) \cup c.todo
    /\ c.at \in {"delta", "charge", "done"} => c.judged \subseteq Range(conflicts)
    /\ c.at = "sense" <=> c.verb = "sense"
    /\ c.at = "sense" => \A r \in c.carried : r.outcome = "success" => Written(r) /\ Whole(r)
    /\ c.at = "charge" => \A r \in c.carried : r \in Charged /\ Compares(r)

\* The run a command is in the middle of is its own, and of the pair at hand.
Runs(c) ==
    c.at = "running" =>
        /\ c.run \in DOMAIN runs /\ runs[c.run].outcome = "running"
        /\ runs[c.run].probe = First(c.pairs).probe /\ runs[c.run].rev = First(c.pairs).rev

Apart ==
    \A v, w \in Worker :
        cmd[v].at = "running" /\ cmd[w].at = "running" /\ cmd[v].run = cmd[w].run => v = w

Inv ==
    /\ TypeOK
    /\ RunsOK
    /\ \A b \in DOMAIN baselines : FromRun(baselines[b])
    /\ \A c \in charged : Compares(c)
    /\ \A w \in Worker : Knows(cmd[w]) /\ Runs(cmd[w])
    /\ Apart

\* adopt probe run and adopt refresh are run by one process at a time.
OneRunner == \A v, w \in Runner : v = w

\* What the runner found no conflict about has none until it files one.
OnceInv ==
    /\ IsInjective(conflicts)
    /\ \A w \in Runner : cmd[w].absent \cap Range(conflicts) = {}
    /\ \A w \in Worker \ Runner : cmd[w].absent = {}
-----------------------------------------------------------------------------
(* Lists, and the least and the greatest of a set.                          *)

LEMMA SeqFacts ==
    ASSUME NEW S, NEW s \in Seq(S)
    PROVE  /\ Len(s) \in Nat /\ DOMAIN s = 1..Len(s)
           /\ \A n \in DOMAIN s : s[n] \in S
OBVIOUS

LEMMA AppendFacts ==
    ASSUME NEW S, NEW s \in Seq(S), NEW x \in S
    PROVE  /\ Append(s, x) \in Seq(S)
           /\ DOMAIN Append(s, x) = DOMAIN s \cup {Len(s) + 1}
           /\ Len(s) + 1 \notin DOMAIN s
           /\ \A n \in DOMAIN s : Append(s, x)[n] = s[n]
           /\ Append(s, x)[Len(s) + 1] = x
           /\ Range(Append(s, x)) = Range(s) \cup {x}
<1>1. /\ Append(s, x) \in Seq(S)
      /\ Len(Append(s, x)) = Len(s) + 1
      /\ Len(s) \in Nat
  OBVIOUS
<1>2. DOMAIN s = 1..Len(s) /\ DOMAIN Append(s, x) = 1..(Len(s) + 1)
  BY <1>1
<1>3. \A n \in 1..Len(s) : Append(s, x)[n] = s[n]
  OBVIOUS
<1>4. Append(s, x)[Len(s) + 1] = x
  OBVIOUS
<1>5. DOMAIN Append(s, x) = DOMAIN s \cup {Len(s) + 1} /\ Len(s) + 1 \notin DOMAIN s
  BY <1>1, <1>2
<1>6. Range(Append(s, x)) = Range(s) \cup {x}
  BY <1>2, <1>3, <1>4, <1>5 DEF Range
<1> QED
  BY <1>1, <1>2, <1>3, <1>4, <1>5, <1>6

LEMMA ExceptFacts ==
    ASSUME NEW S, NEW s \in Seq(S), NEW n \in DOMAIN s, NEW x \in S
    PROVE  /\ [s EXCEPT ![n] = x] \in Seq(S)
           /\ DOMAIN [s EXCEPT ![n] = x] = DOMAIN s
<1>1. Len(s) \in Nat /\ DOMAIN s = 1..Len(s) /\ s \in [1..Len(s) -> S]
  OBVIOUS
<1>2. [s EXCEPT ![n] = x] \in [1..Len(s) -> S]
  BY <1>1
<1> QED
  BY <1>1, <1>2, SeqDef

\* A set of naturals that has a member has a least one.
LEMMA Least ==
    ASSUME NEW S, S # {}, S \subseteq Nat
    PROVE  \E n \in S : \A m \in S : n <= m
<1> DEFINE R == OpToRel(<, Nat)
<1>1. IsWellFoundedOn(R, Nat)
  BY NatLessThanWellFounded
<1> HIDE DEF R
<1>2. PICK n \in S : \A m \in S : <<m, n>> \notin R
  BY <1>1, WFMin
<1>3. \A m \in S : ~(m < n)
  BY <1>2 DEF R, OpToRel
<1> QED
  BY <1>3

\* A bounded set of naturals that has a member has a greatest one.
LEMMA Greatest ==
    ASSUME NEW S, S # {}, S \subseteq Nat, NEW bound \in Nat, \A n \in S : n <= bound
    PROVE  \E n \in S : \A m \in S : n >= m
<1> DEFINE T == {bound - n : n \in S}
<1>1. T \subseteq Nat /\ T # {}
  <2>1. \A n \in S : n \in Nat /\ bound - n \in Nat
    OBVIOUS
  <2>2. T \subseteq Nat
    BY <2>1
  <2>3. PICK n : n \in S
    OBVIOUS
  <2>4. bound - n \in T
    BY <2>3
  <2> QED
    BY <2>2, <2>4
<1>2. PICK least \in T : \A other \in T : least <= other
  BY <1>1, Least
<1>3. PICK n \in S : least = bound - n
  BY <1>2
<1>4. ASSUME NEW m \in S
      PROVE  n >= m
  <2>1. bound - m \in T /\ bound - m \in Nat /\ least \in Nat
    BY <1>1, <1>2
  <2> QED
    BY <1>2, <1>3, <2>1
<1> QED
  BY <1>4

\* The first pair is one of them.
LEMMA FirstIsOne ==
    ASSUME NEW pairs, pairs \subseteq Pair, pairs # {}
    PROVE  First(pairs) \in pairs
<1> DEFINE S == {pair.probe : pair \in pairs}
<1>1. S \subseteq Nat /\ S # {}
  BY DEF Pair
<1> HIDE DEF S
<1>2. PICK n \in S : \A m \in S : n <= m
  BY <1>1, Least
<1>3. PICK pair \in pairs : n = pair.probe
  BY <1>2 DEF S
<1>4. \A other \in pairs : pair.probe <= other.probe
  BY <1>2, <1>3 DEF S
<1> QED
  BY <1>3, <1>4 DEF First

\* The newest row of a table with some property has it.
LEMMA NewestIsOne ==
    ASSUME NEW n \in Nat, NEW S, S \subseteq 1..n
    PROVE  /\ S # {} => Newest(S) \in S
           /\ S = {} => Newest(S) = 0
           /\ Newest(S) \in Nat
<1>1. CASE S = {}
  BY <1>1 DEF Newest
<1>2. CASE S # {}
  <2>1. S \subseteq Nat /\ \A m \in S : m <= n
    OBVIOUS
  <2>2. \E m \in S : \A k \in S : m >= k
    BY <1>2, <2>1, Greatest
  <2>3. Max(S) \in S
    BY <2>2 DEF Max
  <2> QED
    BY <1>2, <2>1, <2>3 DEF Newest
<1> QED
  BY <1>1, <1>2

-----------------------------------------------------------------------------
(* How a run ends.                                                          *)

\* A run observes a prefix of the steps, and all of them only when it is done.
LEMMA EndingFacts ==
    ASSUME NEW spec \in ProbeFiles, NEW w \in World, NEW end \in Endings(spec, w)
    PROVE  /\ end.seen \in Nat /\ end.seen <= Len(spec.steps)
           /\ end.why = "done" => end.seen = Len(spec.steps)
           /\ end.why \in {"done", "budget", "undeclared", "unanswered"}
<1>1. spec.steps \in Seq(Range(spec.steps))
  BY ProbeFilesAssumption
<1>2. Len(spec.steps) \in Nat /\ DOMAIN spec.steps = 1..Len(spec.steps)
  BY <1>1
<1>3. CASE MissingSecrets(spec, w) # {}
  BY <1>2, <1>3 DEF Endings
<1>4. CASE MissingSecrets(spec, w) = {}
  <2> DEFINE stop == IF Stops(spec, w) = {} THEN Len(spec.steps) + 1 ELSE Min(Stops(spec, w))
  <2>1. stop \in 1..(Len(spec.steps) + 1)
    <3>1. CASE Stops(spec, w) = {}
      BY <1>2, <3>1
    <3>2. CASE Stops(spec, w) # {}
      <4>1. Stops(spec, w) \subseteq 1..Len(spec.steps)
        BY <1>2 DEF Stops
      <4>2. Stops(spec, w) \subseteq Nat
        BY <4>1
      <4>3. \E n \in Stops(spec, w) : \A m \in Stops(spec, w) : n <= m
        BY <3>2, <4>2, Least
      <4>4. Min(Stops(spec, w)) \in Stops(spec, w)
        BY <4>3 DEF Min
      <4> QED
        BY <1>2, <3>2, <4>1, <4>4
    <3> QED
      BY <3>1, <3>2
  <2>2. \/ end = [seen |-> stop - 1,
                  why  |-> CASE stop > Len(spec.steps)  -> "done"
                             [] OverBudget(spec, stop)  -> "budget"
                             [] Undeclared(spec, stop)  -> "undeclared"
                             [] OTHER                   -> "unanswered"]
        \/ end \in {[seen |-> k, why |-> "budget"] : k \in IF w.slow THEN 0 .. stop - 2 ELSE {}}
    BY <1>4 DEF Endings
  <2> HIDE DEF stop
  <2>3. CASE end.seen = stop - 1 /\ end.why = "done" /\ stop > Len(spec.steps)
    BY <1>2, <2>1, <2>3
  <2>4. CASE end.seen = stop - 1 /\ end.why \in {"budget", "undeclared", "unanswered"}
    BY <1>2, <2>1, <2>4
  <2>5. CASE \E k \in 0 .. stop - 2 : end = [seen |-> k, why |-> "budget"]
    BY <1>2, <2>1, <2>5
  <2> QED
    BY <2>2, <2>3, <2>4, <2>5
<1> QED
  BY <1>3, <1>4

\* Only a run that is done has answered.
LEMMA OutcomeFacts ==
    ASSUME NEW spec, NEW w, NEW end, NEW b, NEW probe, NEW rev,
           end.why \in {"done", "budget", "undeclared", "unanswered"}
    PROVE  /\ Outcome(spec, w, end, b, probe, rev) \in Outcomes \ {"running"}
           /\ Outcome(spec, w, end, b, probe, rev) \in Answered => end.why = "done"
BY DEF Outcome, Outcomes, Answered

Observed(spec, w, end) == [i \in 1 .. end.seen |-> Output(spec.steps[i], w)]

LEMMA ObservedFacts ==
    ASSUME NEW spec \in ProbeFiles, NEW w \in World, NEW end \in Endings(spec, w)
    PROVE  /\ Observed(spec, w, end) \in Seq(AllOutputs)
           /\ Len(Observed(spec, w, end)) = end.seen
<1>1. end.seen \in Nat /\ end.seen <= Len(spec.steps)
  BY EndingFacts
<1>2. spec.steps \in Seq(Range(spec.steps))
  BY ProbeFilesAssumption
<1>3. Len(spec.steps) \in Nat
  BY <1>2
<1>4. \A i \in 1..end.seen : spec.steps[i] \in Range(spec.steps)
  BY <1>1, <1>2, <1>3
<1>5. \A i \in 1..end.seen : Output(spec.steps[i], w) \in AllOutputs
  BY <1>4 DEF AllOutputs
<1> QED
  BY <1>1, <1>5 DEF Observed
-----------------------------------------------------------------------------
(* What steps keep.                                                         *)

\* The tables only grow: a revision's file stays, a run keeps its probe and its
\* revision, and all of it once it is recorded.
Later ==
    /\ \A p \in DOMAIN probes :
          /\ p \in DOMAIN probes'
          /\ \A i \in DOMAIN probes[p].revs :
                i \in DOMAIN probes'[p].revs /\ probes'[p].revs[i].spec = probes[p].revs[i].spec
    /\ \A r \in DOMAIN runs :
          /\ r \in DOMAIN runs'
          /\ runs'[r].probe = runs[r].probe /\ runs'[r].rev = runs[r].rev
          /\ runs[r].outcome # "running" => runs'[r] = runs[r]
    /\ \A b \in DOMAIN baselines : b \in DOMAIN baselines' /\ baselines'[b] = baselines[b]
    /\ Range(conflicts) \subseteq Range(conflicts')
    /\ DOMAIN sensors \subseteq DOMAIN sensors'

\* Everything the invariant says of the tables.
Tables ==
    /\ probes \in Seq(ProbeRow)
    /\ \A p \in DOMAIN probes : probes[p].revs # <<>>
    /\ runs \in Seq(RunRow)
    /\ baselines \in Seq(BaselineRow)
    /\ conflicts \in Seq(Intent)
    /\ sensors \in Seq(SensorRow)
    /\ items \in [Item -> ItemRow]
    /\ world \in World
    /\ charged \subseteq Charged
    /\ turns \in Nat /\ kills \in Nat
    /\ RunsOK
    /\ \A b \in DOMAIN baselines : FromRun(baselines[b])
    /\ \A c \in charged : Compares(c)

Commands ==
    /\ cmd \in [Worker -> Command]
    /\ \A w \in Worker : Knows(cmd[w]) /\ Runs(cmd[w])
    /\ Apart

LEMMA InvParts == Inv <=> Tables /\ Commands
BY DEF Inv, TypeOK, Tables, Commands

LEMMA KnowsStays ==
    ASSUME Later, NEW c, Knows(c)
    PROVE  Knows(c)'
<1>1. c.at = "adding" => c.spec \in ProbeFiles /\ (c.probe \in DOMAIN probes \cup {0})'
  BY DEF Later, Knows
<1>2. \A pair \in c.pairs : Written(pair)'
  BY DEF Later, Knows, Written
<1>3. /\ c.at \in {"running", "beat"} => c.pairs # {}
      /\ c.at \in {"probe", "running", "beat"} => (c.sensor \in DOMAIN sensors)'
      /\ c.at = "beat" => c.run \in c.reports
      /\ c.at = "sense" <=> c.verb = "sense"
  BY DEF Later, Knows
<1>4. \A r \in c.reports : (r \in DOMAIN runs /\ runs[r].outcome # "running")'
  BY DEF Later, Knows
<1>5. /\ c.at = "file" => (c.judged \subseteq Range(conflicts) \cup c.todo)'
      /\ c.at \in {"delta", "charge", "done"} => (c.judged \subseteq Range(conflicts))'
  BY DEF Later, Knows
<1>6. c.at = "sense" => \A r \in c.carried : r.outcome = "success" => (Written(r) /\ Whole(r))'
  BY DEF Later, Knows, Written, Whole, StepsOf
<1>7. c.at = "charge" => \A r \in c.carried : r \in Charged /\ Compares(r)'
  BY DEF Later, Knows, Compares
<1> QED
  BY <1>1, <1>2, <1>3, <1>4, <1>5, <1>6, <1>7 DEF Knows

\* A step of w: its own command is shown to know what it says, and it records no
\* run but its own.
LEMMA StepKeeps ==
    ASSUME Inv, Later, Tables',
           NEW w \in Worker, NEW j \in Command, cmd' = [cmd EXCEPT ![w] = j],
           Knows(j)', Runs(j)',
           \A v \in Worker \ {w} : cmd[v].at = "running" =>
              /\ runs'[cmd[v].run] = runs[cmd[v].run]
              /\ j.at = "running" => j.run # cmd[v].run
    PROVE  Inv'
<1>0. cmd \in [Worker -> Command] /\ Tables /\ Commands
  BY InvParts DEF Commands
<1>1. cmd' \in [Worker -> Command]
  BY <1>0
<1>2. ASSUME NEW v \in Worker
      PROVE  (Knows(cmd[v]) /\ Runs(cmd[v]))'
  <2>1. CASE v = w
    BY <1>0, <2>1
  <2>2. CASE v # w
    <3>1. PICK c : c = cmd[v]
      OBVIOUS
    <3>2. cmd'[v] = c
      BY <1>0, <2>2, <3>1
    <3>3. Knows(c) /\ Runs(c)
      BY <1>0, <3>1 DEF Commands
    <3>4. Knows(c)'
      BY <3>3, KnowsStays
    <3>5. Runs(c)'
      BY <2>2, <3>1, <3>3 DEF Runs, Later
    <3> QED
      BY <3>2, <3>4, <3>5
  <2> QED
    BY <2>1, <2>2
<1>3. Apart'
  BY <1>0 DEF Apart, Commands
<1> QED
  BY <1>1, <1>2, <1>3, InvParts DEF Commands, Inv, TypeOK, Tables, RunsOK

LEMMA StoreStays ==
    ASSUME Inv, UNCHANGED <<store, charged>>, items' \in [Item -> ItemRow], world' \in World,
           turns' \in Nat, kills' \in Nat
    PROVE  Later /\ Tables'
<1>1. Tables
  BY InvParts
<1>2. Later
  BY DEF store, Later
<1>3. Tables'
  BY <1>1 DEF store, Tables, RunsOK, FromRun, Compares, Written, Whole, StepsOf
<1> QED
  BY <1>2, <1>3

\* A step of a command that reads and changes no table.
LEMMA QuietStep ==
    ASSUME Inv, UNCHANGED <<store, items, world, charged, turns>>, kills' \in Nat,
           NEW w \in Worker, NEW j \in Command, cmd' = [cmd EXCEPT ![w] = j],
           Knows(j), j.at # "running"
    PROVE  Inv'
<1>1. Later /\ Tables'
  BY StoreStays DEF Inv, TypeOK
<1>2. Knows(j)'
  BY <1>1, KnowsStays
<1>3. Runs(j)'
  BY DEF Runs
<1>4. \A v \in Worker \ {w} : cmd[v].at = "running" =>
         /\ runs'[cmd[v].run] = runs[cmd[v].run]
         /\ j.at = "running" => j.run # cmd[v].run
  BY DEF store
<1> QED
  BY <1>1, <1>2, <1>3, <1>4, StepKeeps
-----------------------------------------------------------------------------
(* adopt probe add and retire.                                              *)

\* The head of a probe is one of its revisions.
LEMMA HeadIsWritten ==
    ASSUME Tables, NEW p \in DOMAIN probes
    PROVE  /\ HeadRev(p) \in DOMAIN probes[p].revs /\ HeadRev(p) \in Nat /\ p \in Nat
           /\ probes[p] \in ProbeRow /\ probes[p].revs \in Seq(SpecRow)
           /\ HeadSpec(p) = probes[p].revs[HeadRev(p)].spec
           /\ HeadSpec(p) \in ProbeFiles
<1>1. probes[p] \in ProbeRow /\ p \in Nat /\ probes[p].revs # <<>>
  BY DEF Tables
<1>2. probes[p].revs \in Seq(SpecRow)
  BY <1>1 DEF ProbeRow
<1>3. Len(probes[p].revs) \in Nat \ {0} /\ Len(probes[p].revs) \in DOMAIN probes[p].revs
  BY <1>1, <1>2
<1>4. probes[p].revs[Len(probes[p].revs)] \in SpecRow
  BY <1>2, <1>3
<1> QED
  BY <1>1, <1>2, <1>3, <1>4 DEF HeadRev, HeadSpec, Last, SpecRow

\* A new probe, or a revision that follows the others, leaves what is written.
LEMMA ProbesGrow ==
    ASSUME Tables, UNCHANGED <<runs, baselines, conflicts, sensors, items, world, charged,
                               turns, kills>>,
           probes' \in Seq(ProbeRow), \A p \in DOMAIN probes' : probes'[p].revs # <<>>,
           \A p \in DOMAIN probes :
              /\ p \in DOMAIN probes'
              /\ \A i \in DOMAIN probes[p].revs :
                    i \in DOMAIN probes'[p].revs /\ probes'[p].revs[i].spec = probes[p].revs[i].spec
    PROVE  Later /\ Tables'
<1>1. Later
  BY DEF Later
<1>2. RunsOK'
  BY DEF Tables, RunsOK, Written, Whole, StepsOf
<1>3. Tables'
  BY <1>2 DEF Tables, FromRun, Compares
<1> QED
  BY <1>1, <1>3

\* A revision after the others.
LEMMA Appended ==
    ASSUME Tables, NEW p \in DOMAIN probes, NEW row \in SpecRow,
           probes' = [probes EXCEPT ![p].revs = Append(@, row)],
           UNCHANGED <<runs, baselines, conflicts, sensors, items, world, charged, turns, kills>>
    PROVE  Later /\ Tables'
<1>1. probes[p] \in ProbeRow /\ probes[p].revs \in Seq(SpecRow)
  BY HeadIsWritten
<1> DEFINE revs == Append(probes[p].revs, row)
           new  == [probes[p] EXCEPT !.revs = revs]
<1>2. /\ revs \in Seq(SpecRow)
      /\ \A i \in DOMAIN probes[p].revs : i \in DOMAIN revs /\ revs[i] = probes[p].revs[i]
      /\ revs # <<>>
  BY <1>1, AppendFacts
<1> HIDE DEF revs
<1>3. new \in ProbeRow /\ new.revs = revs
  BY <1>1, <1>2 DEF ProbeRow
<1>4. probes' = [probes EXCEPT ![p] = new]
  BY DEF revs
<1> HIDE DEF new
<1>5. probes \in Seq(ProbeRow)
  BY DEF Tables
<1>6. probes' \in Seq(ProbeRow) /\ DOMAIN probes' = DOMAIN probes
  <2>1. new \in ProbeRow
    BY <1>3
  <2>2. /\ [probes EXCEPT ![p] = new] \in Seq(ProbeRow)
        /\ DOMAIN [probes EXCEPT ![p] = new] = DOMAIN probes
    BY <1>5, <2>1, ExceptFacts
  <2> QED
    BY <1>4, <2>2
<1>7. \A q \in DOMAIN probes : probes'[q] = IF q = p THEN new ELSE probes[q]
  BY <1>4, <1>5
<1>8. \A q \in DOMAIN probes' : probes'[q].revs # <<>>
  BY <1>2, <1>3, <1>6, <1>7 DEF Tables
<1>9. \A q \in DOMAIN probes :
         /\ q \in DOMAIN probes'
         /\ \A i \in DOMAIN probes[q].revs :
               i \in DOMAIN probes'[q].revs /\ probes'[q].revs[i].spec = probes[q].revs[i].spec
  BY <1>2, <1>3, <1>6, <1>7
<1> QED
  BY <1>6, <1>8, <1>9, ProbesGrow

LEMMA IdleFacts == Idle \in Command /\ Idle.at = "idle" /\ Knows(Idle)
<1>1. Idle \in Command
  BY DEF Idle, Command, Stages
<1>2. Knows(Idle)
  BY DEF Idle, Knows
<1> QED
  BY <1>1, <1>2 DEF Idle

\* A step of a command that ends it, the tables having grown.
LEMMA EndsStep ==
    ASSUME Inv, Later, Tables', NEW w \in Worker, cmd' = [cmd EXCEPT ![w] = Idle],
           \A v \in Worker \ {w} : cmd[v].at = "running" => runs'[cmd[v].run] = runs[cmd[v].run]
    PROVE  Inv'
<1>1. Knows(Idle)'
  BY IdleFacts, KnowsStays
<1>2. Runs(Idle)'
  BY IdleFacts DEF Runs
<1> QED
  BY <1>1, <1>2, IdleFacts, StepKeeps

LEMMA AddReadKeeps ==
    ASSUME Inv, NEW w \in Editor, AddRead(w)
    PROVE  Inv'
<1>1. PICK spec, p, head :
         /\ spec \in ProbeFiles /\ p \in DOMAIN probes \cup {0} /\ head \in Nat
         /\ cmd' = [cmd EXCEPT ![w] = [Idle EXCEPT !.at = "adding", !.verb = "add",
                                          !.spec = spec, !.probe = p, !.head = head]]
  <2>1. PICK spec \in ProbeFiles :
           LET found == Named(spec.name)
               p     == IF found = {} THEN 0 ELSE Min(found)
           IN  cmd' = [cmd EXCEPT ![w] = [Idle EXCEPT
                         !.at = "adding", !.verb = "add", !.spec = spec, !.probe = p,
                         !.head = IF p = 0 THEN 0 ELSE HeadRev(p)]]
    BY DEF AddRead
  <2> DEFINE found == Named(spec.name)
  <2>2. probes \in Seq(ProbeRow)
    BY DEF Inv, TypeOK
  <2>3. found \subseteq DOMAIN probes /\ found \subseteq Nat
    BY <2>2 DEF Named
  <2>4. found # {} => Min(found) \in found
    <3>1. found # {} => \E n \in found : \A m \in found : n <= m
      BY <2>3, Least
    <3> QED
      BY <3>1 DEF Min
  <2> HIDE DEF found
  <2>5. PICK p : p = IF found = {} THEN 0 ELSE Min(found)
    OBVIOUS
  <2>6. p \in DOMAIN probes \cup {0}
    BY <2>3, <2>4, <2>5
  <2>7. PICK head : head = IF p = 0 THEN 0 ELSE HeadRev(p)
    OBVIOUS
  <2>8. head \in Nat
    BY <2>6, <2>7, HeadIsWritten, InvParts
  <2>9. cmd' = [cmd EXCEPT ![w] = [Idle EXCEPT !.at = "adding", !.verb = "add",
                                      !.spec = spec, !.probe = p, !.head = head]]
    BY <2>1, <2>5, <2>7 DEF found
  <2> QED
    BY <2>6, <2>8, <2>9
<1>2. PICK j : j = [Idle EXCEPT !.at = "adding", !.verb = "add",
                               !.spec = spec, !.probe = p, !.head = head]
  OBVIOUS
<1>3. probes \in Seq(ProbeRow) /\ kills \in Nat
  BY DEF Inv, TypeOK
<1>4. p \in Nat
  BY <1>1, <1>3
<1>5. j \in Command /\ j.at = "adding"
  BY <1>1, <1>2, <1>4 DEF Idle, Command, Stages
<1>6. Knows(j)
  BY <1>1, <1>2 DEF Idle, Knows
<1> QED
  BY <1>1, <1>2, <1>3, <1>5, <1>6, QuietStep DEF AddRead, Worker

LEMMA CreateKeeps ==
    ASSUME Inv, NEW w \in Editor, Create(w)
    PROVE  Inv'
<1>1. Tables /\ w \in Worker /\ cmd[w].spec \in ProbeFiles
  BY InvParts DEF Create, Inv, Knows, Worker
<1> DEFINE new == [name |-> cmd[w].spec.name, revs |-> <<Revision(cmd[w].spec)>>]
<1>2. new \in ProbeRow /\ new.revs # <<>>
  BY <1>1 DEF ProbeRow, SpecRow, Revision
<1>3. probes' = Append(probes, new)
  BY DEF Create
<1> HIDE DEF new
<1>4. probes \in Seq(ProbeRow)
  BY <1>1 DEF Tables
<1>5. /\ probes' \in Seq(ProbeRow)
      /\ \A q \in DOMAIN probes : q \in DOMAIN probes' /\ probes'[q] = probes[q]
      /\ \A q \in DOMAIN probes' : q \notin DOMAIN probes => probes'[q] = new
  BY <1>2, <1>3, <1>4, AppendFacts
<1>6. \A q \in DOMAIN probes' : probes'[q].revs # <<>>
  BY <1>1, <1>2, <1>5 DEF Tables
<1>7. UNCHANGED <<runs, baselines, conflicts, sensors, items, world, charged, turns, kills>>
  BY DEF Create
<1>8. Later /\ Tables'
  BY <1>1, <1>5, <1>6, <1>7, ProbesGrow
<1> QED
  BY <1>1, <1>7, <1>8, EndsStep DEF Create

LEMMA ReviseKeeps ==
    ASSUME Inv, NEW w \in Editor, Revise(w)
    PROVE  Inv'
<1>1. Tables /\ w \in Worker /\ cmd[w].spec \in ProbeFiles /\ cmd[w].probe \in DOMAIN probes
  BY InvParts DEF Revise, Inv, Knows, Worker
<1>2. UNCHANGED <<runs, baselines, conflicts, sensors, items, world, charged, turns, kills>>
  BY DEF Revise
<1>3. Revision(cmd[w].spec) \in SpecRow
  BY <1>1 DEF Revision, SpecRow
<1>4. Later /\ Tables'
  <2>1. CASE probes' = probes
    BY <1>2, <2>1, StoreStays DEF store, Inv, TypeOK
  <2>2. CASE probes' = [probes EXCEPT ![cmd[w].probe].revs = Append(@, Revision(cmd[w].spec))]
    BY <1>1, <1>2, <1>3, <2>2, Appended
  <2> QED
    BY <2>1, <2>2 DEF Revise
<1> QED
  BY <1>1, <1>2, <1>4, EndsStep DEF Revise

\* A step that leaves every command where it is.
LEMMA NobodyMoves ==
    ASSUME Inv, Later, Tables', UNCHANGED <<cmd, runs>>
    PROVE  Inv'
<1>1. ASSUME NEW v \in Worker
      PROVE  (Knows(cmd[v]) /\ Runs(cmd[v]))'
  <2>1. PICK c : c = cmd[v]
    OBVIOUS
  <2>2. cmd'[v] = c /\ Knows(c) /\ Runs(c)
    BY <2>1 DEF Inv
  <2>3. Knows(c)'
    BY <2>2, KnowsStays
  <2>4. Runs(c)'
    BY <2>2 DEF Runs
  <2> QED
    BY <2>2, <2>3, <2>4
<1>2. cmd' \in [Worker -> Command] /\ Apart'
  BY DEF Inv, TypeOK, Apart
<1> QED
  BY <1>1, <1>2 DEF Inv, TypeOK, Tables, RunsOK

LEMMA RetireProbeKeeps ==
    ASSUME Inv, NEW w \in Editor, RetireProbe(w)
    PROVE  Inv'
<1>1. Tables
  BY InvParts
<1>2. PICK p \in DOMAIN probes :
         probes' = [probes EXCEPT ![p].revs = Append(@, [Last(@) EXCEPT !.status = "retired"])]
  BY DEF RetireProbe
<1>3. UNCHANGED <<runs, baselines, conflicts, sensors, items, world, cmd, charged, turns, kills>>
  BY DEF RetireProbe
<1>4. PICK row : row = [Last(probes[p].revs) EXCEPT !.status = "retired"]
  OBVIOUS
<1>5. row \in SpecRow
  <2>1. probes[p].revs \in Seq(SpecRow) /\ Len(probes[p].revs) \in DOMAIN probes[p].revs
    BY <1>1, HeadIsWritten DEF HeadRev
  <2>2. Last(probes[p].revs) \in SpecRow
    BY <2>1 DEF Last
  <2> QED
    BY <1>4, <2>2 DEF SpecRow
<1>6. probes' = [probes EXCEPT ![p].revs = Append(@, row)]
  BY <1>2, <1>4
<1>7. Later /\ Tables'
  BY <1>1, <1>3, <1>5, <1>6, Appended
<1> QED
  BY <1>3, <1>7, NobodyMoves
-----------------------------------------------------------------------------
(* The outer world and a kill.                                              *)

LEMMA KillKeeps ==
    ASSUME Inv, NEW w \in Worker, Kill(w)
    PROVE  Inv'
<1>1. Later /\ Tables'
  BY StoreStays DEF Kill, Inv, TypeOK
<1> QED
  BY <1>1, EndsStep DEF Kill, store

LEMMA TurnKeeps ==
    ASSUME Inv, Turn
    PROVE  Inv'
<1>1. Later /\ Tables'
  BY StoreStays DEF Turn, Inv, TypeOK
<1> QED
  BY <1>1, NobodyMoves DEF Turn, store

\* What reviewers do to an item leaves it an item.
LEMMA ReviewKeeps ==
    ASSUME Inv, Rewrite \/ Withdraw \/ Unbind
    PROVE  Inv'
<1>1. UNCHANGED <<store, charged, world, cmd, kills>> /\ turns' = turns + 1
  BY DEF Rewrite, Withdraw, Unbind
<1>2. PICK k \in Item, verified \in BOOLEAN, status \in {"moved", "retired"} :
         \/ items' = [items EXCEPT ![k].head = @ + 1, ![k].verified = verified]
         \/ items' = [items EXCEPT ![k].retired = TRUE, ![k].head = @ + 1]
         \/ items' = [items EXCEPT ![k].bound = status]
  BY DEF Rewrite, Withdraw, Unbind
<1>3. items \in [Item -> ItemRow] /\ items[k] \in ItemRow
  BY DEF Inv, TypeOK
<1>4. /\ [items[k] EXCEPT !.head = @ + 1, !.verified = verified] \in ItemRow
      /\ [items[k] EXCEPT !.retired = TRUE, !.head = @ + 1] \in ItemRow
      /\ [items[k] EXCEPT !.bound = status] \in ItemRow
  <2>1. PICK row \in ItemRow : row = items[k]
    BY <1>3
  <2>2. row.head + 1 \in Nat
    BY DEF ItemRow
  <2>3. PICK head \in Nat : head = row.head + 1
    BY <2>2
  <2>4. [row EXCEPT !.head = head, !.verified = verified] \in ItemRow
    BY DEF ItemRow
  <2>5. [row EXCEPT !.retired = TRUE, !.head = head] \in ItemRow
    BY DEF ItemRow
  <2>6. [row EXCEPT !.bound = status] \in ItemRow
    BY DEF ItemRow
  <2> QED
    BY <2>1, <2>3, <2>4, <2>5, <2>6
<1>5. items' \in [Item -> ItemRow]
  BY <1>2, <1>3, <1>4
<1>6. Later /\ Tables'
  BY <1>1, <1>5, StoreStays DEF Inv, TypeOK
<1> QED
  BY <1>1, <1>6, NobodyMoves DEF store

-----------------------------------------------------------------------------
(* A run of the probes.                                                     *)

LEMMA PairsFacts ==
    ASSUME Tables, NEW targets, targets \subseteq DOMAIN probes
    PROVE  Pairs(targets) \subseteq Pair /\ \A pair \in Pairs(targets) : Written(pair)
BY HeadIsWritten DEF Pairs, Pair, Written

LEMMA StartKeeps ==
    ASSUME Inv, NEW w \in Runner, Start(w)
    PROVE  Inv'
<1>1. PICK verb \in {"run", "refresh"}, targets \in {DOMAIN probes} \cup {{p} : p \in DOMAIN probes} :
         /\ Pairs(targets) # {}
         /\ cmd' = [cmd EXCEPT ![w] = [Idle EXCEPT
                       !.at = IF sensors = <<>> THEN "register" ELSE "probe",
                       !.verb = verb, !.pairs = Pairs(targets),
                       !.sensor = IF sensors = <<>> THEN 0 ELSE 1]]
  BY DEF Start
<1>2. PICK pairs, at, sensor :
         /\ pairs = Pairs(targets)
         /\ at = (IF sensors = <<>> THEN "register" ELSE "probe")
         /\ sensor = (IF sensors = <<>> THEN 0 ELSE 1)
  OBVIOUS
<1>3. pairs \subseteq Pair /\ \A pair \in pairs : Written(pair)
  <2>1. targets \subseteq DOMAIN probes
    OBVIOUS
  <2> QED
    BY <1>2, <2>1, PairsFacts, InvParts
<1>4. at = "probe" => sensor \in DOMAIN sensors
  <2>1. sensors \in Seq(SensorRow)
    BY DEF Inv, TypeOK
  <2> QED
    BY <1>2, <2>1
<1>5. PICK j : j = [Idle EXCEPT !.at = at, !.verb = verb, !.pairs = pairs, !.sensor = sensor]
  OBVIOUS
<1>6. at \in {"register", "probe"} /\ sensor \in Nat
  BY <1>2
<1>7. j \in Command /\ j.at # "running"
  BY <1>3, <1>5, <1>6 DEF Idle, Command, Stages
<1>8. Knows(j)
  BY <1>3, <1>4, <1>5, <1>6 DEF Idle, Knows
<1>9. cmd' = [cmd EXCEPT ![w] = j] /\ w \in Worker
  BY <1>1, <1>2, <1>5 DEF Worker
<1> QED
  BY <1>7, <1>8, <1>9, QuietStep DEF Start, Stay, Inv, TypeOK

\* Rows of the other tables that have not changed are as they were.
LEMMA SensorsChange ==
    ASSUME Inv, UNCHANGED <<probes, runs, baselines, conflicts, charged, items, world, turns, kills>>,
           sensors' \in Seq(SensorRow), DOMAIN sensors \subseteq DOMAIN sensors'
    PROVE  Later /\ Tables'
<1>1. Later
  BY DEF Later
<1>2. Tables'
  BY InvParts DEF Tables, RunsOK, FromRun, Compares, Written, Whole, StepsOf
<1> QED
  BY <1>1, <1>2

LEMMA RegisterKeeps ==
    ASSUME Inv, NEW w \in Runner, Register(w)
    PROVE  Inv'
<1>1. /\ w \in Worker /\ cmd[w] \in Command /\ Knows(cmd[w]) /\ cmd[w].at = "register"
      /\ sensors \in Seq(SensorRow)
  BY DEF Register, At, Inv, TypeOK, Worker
<1> DEFINE new == [health |-> "UNVERIFIED", beats |-> 0]
<1>2. new \in SensorRow
  BY DEF SensorRow
<1>3. sensors' = Append(sensors, new)
  BY DEF Register
<1> HIDE DEF new
<1>4. /\ sensors' \in Seq(SensorRow) /\ DOMAIN sensors \subseteq DOMAIN sensors'
      /\ Len(sensors) + 1 \in DOMAIN sensors' /\ Len(sensors) + 1 \in Nat
  BY <1>1, <1>2, <1>3, AppendFacts
<1>5. Later /\ Tables'
  BY <1>4, SensorsChange DEF Register, Stay
<1>6. PICK c, n : c = cmd[w] /\ n = Len(sensors) + 1
  OBVIOUS
<1>7. PICK j : j = [c EXCEPT !.at = "probe", !.sensor = n]
  OBVIOUS
<1>8. c \in Command /\ Knows(c) /\ n \in Nat
  BY <1>1, <1>4, <1>6
<1>9. j \in Command /\ j.at = "probe"
  BY <1>7, <1>8 DEF Command, Stages
<1>10. cmd' = [cmd EXCEPT ![w] = j]
  BY <1>6, <1>7 DEF Register
<1>11. Knows(j)'
  <2>1. Knows(c)'
    BY <1>5, <1>8, KnowsStays
  <2>2. n \in DOMAIN sensors'
    BY <1>4, <1>6
  <2> QED
    BY <1>1, <1>6, <1>7, <1>8, <2>1, <2>2 DEF Knows, Command
<1>12. Runs(j)'
  BY <1>9 DEF Runs
<1>13. runs' = runs
  BY DEF Register
<1> QED
  BY <1>1, <1>5, <1>9, <1>10, <1>11, <1>12, <1>13, StepKeeps

LEMMA BeginKeeps ==
    ASSUME Inv, NEW w \in Runner, Begin(w)
    PROVE  Inv'
<1>1. /\ w \in Worker /\ cmd[w] \in Command /\ Knows(cmd[w]) /\ cmd[w].at = "probe"
      /\ cmd[w].pairs # {} /\ cmd[w].pairs \subseteq Pair /\ runs \in Seq(RunRow)
      /\ cmd \in [Worker -> Command]
  BY DEF Begin, At, Inv, TypeOK, Worker, Command
<1>2. PICK pair, base : pair = First(cmd[w].pairs) /\ base = BaselineFor(pair.probe, pair.rev)
  OBVIOUS
<1>3. pair \in cmd[w].pairs /\ pair \in Pair /\ Written(pair)
  BY <1>1, <1>2, FirstIsOne DEF Knows
<1>4. base \in Nat
  <2> DEFINE S == {b \in DOMAIN baselines : baselines[b].probe = pair.probe
                                            /\ baselines[b].rev = pair.rev}
  <2>1. Len(baselines) \in Nat /\ S \subseteq 1..Len(baselines)
    BY DEF Inv, TypeOK
  <2>2. base = Newest(S)
    BY <1>2 DEF BaselineFor
  <2> HIDE DEF S
  <2> QED
    BY <2>1, <2>2, NewestIsOne
<1>5. PICK row : row = [probe |-> pair.probe, rev |-> pair.rev, outcome |-> "running",
                        outputs |-> <<>>, base |-> base]
  OBVIOUS
<1>6. row \in RunRow
  BY <1>3, <1>4, <1>5 DEF RunRow, Pair, Outcomes
<1>7. runs' = Append(runs, row)
  BY <1>2, <1>5 DEF Begin
<1>8. PICK n : n = Len(runs) + 1
  OBVIOUS
<1>9. /\ runs' \in Seq(RunRow) /\ n \in Nat /\ n \notin DOMAIN runs
      /\ DOMAIN runs' = DOMAIN runs \cup {n} /\ runs'[n] = row
      /\ \A r \in DOMAIN runs : runs'[r] = runs[r]
  BY <1>1, <1>6, <1>7, <1>8, AppendFacts
<1>10. UNCHANGED <<probes, baselines, conflicts, sensors, charged, items, world, turns, kills>>
  BY DEF Begin, Stay
<1>11. Later
  BY <1>9, <1>10 DEF Later
<1>12. Tables'
  <2>1. Tables
    BY InvParts
  <2>2. RunsOK'
    <3>1. ASSUME NEW r \in DOMAIN runs'
          PROVE  (Written(runs[r]) /\ (runs[r].outcome \in Answered => Whole(runs[r])))'
      <4>1. CASE r = n
        BY <1>3, <1>5, <1>9, <1>10, <4>1 DEF Written, Answered
      <4>2. CASE r \in DOMAIN runs
        BY <1>9, <1>10, <2>1, <4>2 DEF Tables, RunsOK, Written, Whole, StepsOf
      <4> QED
        BY <1>9, <4>1, <4>2
    <3> QED
      BY <3>1 DEF RunsOK
  <2>3. (\A b \in DOMAIN baselines : FromRun(baselines[b]))'
    BY <1>9, <1>10, <2>1 DEF Tables, FromRun
  <2>4. (\A c \in charged : Compares(c))'
    BY <1>9, <1>10, <2>1 DEF Tables, Compares
  <2> QED
    BY <1>9, <1>10, <2>1, <2>2, <2>3, <2>4 DEF Tables
<1>13. PICK c, j : c = cmd[w] /\ j = [c EXCEPT !.at = "running", !.run = n, !.base = base]
  OBVIOUS
<1>14. j \in Command
  BY <1>1, <1>4, <1>9, <1>13 DEF Command, Stages
<1>15. cmd' = [cmd EXCEPT ![w] = j]
  BY <1>2, <1>8, <1>13 DEF Begin
<1>16. Knows(j)'
  <2>1. Knows(c)'
    BY <1>1, <1>11, <1>13, KnowsStays
  <2> QED
    BY <1>1, <1>13, <2>1 DEF Knows, Command
<1>17. j.run = n /\ j.pairs = c.pairs
  BY <1>1, <1>13 DEF Command
<1>18. Runs(j)'
  <2>1. n \in DOMAIN runs' /\ runs'[n] = row
    BY <1>9
  <2>2. row.outcome = "running" /\ row.probe = pair.probe /\ row.rev = pair.rev
    BY <1>5
  <2>3. pair = First(j.pairs)
    BY <1>2, <1>13, <1>17
  <2> QED
    BY <1>17, <2>1, <2>2, <2>3 DEF Runs
<1>19. \A v \in Worker \ {w} : cmd[v].at = "running" =>
          /\ runs'[cmd[v].run] = runs[cmd[v].run]
          /\ j.at = "running" => j.run # cmd[v].run
  <2>1. ASSUME NEW v \in Worker \ {w}, cmd[v].at = "running"
        PROVE  cmd[v].run \in DOMAIN runs
    BY <2>1 DEF Inv, Runs
  <2> QED
    BY <1>9, <1>17, <2>1
<1> QED
  BY <1>1, <1>11, <1>12, <1>14, <1>15, <1>16, <1>18, <1>19, StepKeeps

\* The file of a revision that is written is a file.
LEMMA WrittenSpec ==
    ASSUME Tables, NEW row, Written(row)
    PROVE  probes[row.probe].revs[row.rev].spec \in ProbeFiles
<1>1. row.probe \in DOMAIN probes /\ row.rev \in DOMAIN probes[row.probe].revs
  BY DEF Written
<1>2. probes[row.probe].revs \in Seq(SpecRow)
  BY <1>1, HeadIsWritten
<1>3. probes[row.probe].revs[row.rev] \in SpecRow
  BY <1>1, <1>2
<1> QED
  BY <1>3 DEF SpecRow

LEMMA RecordKeeps ==
    ASSUME Inv, NEW w \in Runner, Record(w)
    PROVE  Inv'
<1>1. /\ w \in Worker /\ cmd[w] \in Command /\ Knows(cmd[w]) /\ Runs(cmd[w])
      /\ cmd[w].at = "running" /\ Tables /\ Apart
  BY InvParts DEF Record, At, Inv, TypeOK, Worker
<1>2. PICK c, r : c = cmd[w] /\ r = c.run
  OBVIOUS
<1>3. PICK pair : pair = First(c.pairs)
  OBVIOUS
<1>4. PICK spec : spec = probes[pair.probe].revs[pair.rev].spec
  OBVIOUS
<1>5. /\ r \in DOMAIN runs /\ runs[r].outcome = "running" /\ runs[r] \in RunRow /\ r \in Nat
      /\ runs[r].probe = pair.probe /\ runs[r].rev = pair.rev /\ Written(runs[r])
      /\ runs \in Seq(RunRow)
  BY <1>1, <1>2, <1>3 DEF Tables, Runs, RunsOK
<1>6. spec \in ProbeFiles /\ world \in World
  <2>1. PICK row : row = runs[r]
    OBVIOUS
  <2> QED
    BY <1>1, <1>4, <1>5, <2>1, WrittenSpec DEF Tables
<1>7. PICK end \in Endings(spec, world) :
         runs' = [runs EXCEPT ![r] = [runs[r] EXCEPT
                    !.outcome = Outcome(spec, world, end, c.base, pair.probe, pair.rev),
                    !.outputs = Observed(spec, world, end)]]
  <2> DEFINE p == First(cmd[w].pairs)
             s == probes[p.probe].revs[p.rev].spec
  <2>1. \E end \in Endings(s, world) :
           runs' = [runs EXCEPT ![cmd[w].run] = [runs[cmd[w].run] EXCEPT
                      !.outcome = Outcome(s, world, end, cmd[w].base, p.probe, p.rev),
                      !.outputs = Observed(s, world, end)]]
    BY DEF Record, Observed
  <2>2. p = pair /\ s = spec /\ cmd[w].run = r /\ cmd[w].base = c.base
    BY <1>2, <1>3, <1>4
  <2> HIDE DEF p, s
  <2> QED
    BY <2>1, <2>2
<1>8. PICK outcome, outputs :
         /\ outcome = Outcome(spec, world, end, c.base, pair.probe, pair.rev)
         /\ outputs = Observed(spec, world, end)
  OBVIOUS
<1>9. /\ outcome \in Outcomes \ {"running"} /\ outputs \in Seq(AllOutputs)
      /\ outcome \in Answered => Len(outputs) = Len(spec.steps)
  <2>1. /\ end.why \in {"done", "budget", "undeclared", "unanswered"}
        /\ end.why = "done" => end.seen = Len(spec.steps)
    BY <1>6, EndingFacts
  <2>2. outputs \in Seq(AllOutputs) /\ Len(outputs) = end.seen
    BY <1>6, <1>8, ObservedFacts
  <2>3. outcome \in Outcomes \ {"running"} /\ (outcome \in Answered => end.why = "done")
    BY <1>8, <2>1, OutcomeFacts
  <2> QED
    BY <2>1, <2>2, <2>3
<1>10. PICK done : done = [runs[r] EXCEPT !.outcome = outcome, !.outputs = outputs]
  OBVIOUS
<1>11. /\ done \in RunRow /\ done.outcome = outcome /\ done.outputs = outputs
       /\ done.probe = pair.probe /\ done.rev = pair.rev
  BY <1>5, <1>9, <1>10 DEF RunRow
<1>12. /\ runs' \in Seq(RunRow) /\ DOMAIN runs' = DOMAIN runs /\ runs'[r] = done
       /\ \A n \in DOMAIN runs : n # r => runs'[n] = runs[n]
  <2>1. runs' = [runs EXCEPT ![r] = done]
    BY <1>7, <1>8, <1>10
  <2>2. /\ [runs EXCEPT ![r] = done] \in Seq(RunRow)
        /\ DOMAIN [runs EXCEPT ![r] = done] = DOMAIN runs
    BY <1>5, <1>11, ExceptFacts
  <2> QED
    BY <1>5, <2>1, <2>2
<1>13. UNCHANGED <<probes, baselines, conflicts, sensors, charged, items, world, turns, kills>>
  BY DEF Record, Stay
<1>14. Later
  BY <1>5, <1>11, <1>12, <1>13 DEF Later
<1>15. Tables'
  <2>1. RunsOK'
    <3>1. ASSUME NEW n \in DOMAIN runs'
          PROVE  (Written(runs[n]) /\ (runs[n].outcome \in Answered => Whole(runs[n])))'
      <4>1. CASE n = r
        BY <1>4, <1>5, <1>9, <1>11, <1>12, <1>13, <4>1 DEF Written, Whole, StepsOf
      <4>2. CASE n # r
        BY <1>1, <1>12, <1>13, <4>2 DEF Tables, RunsOK, Written, Whole, StepsOf
      <4> QED
        BY <4>1, <4>2
    <3> QED
      BY <3>1 DEF RunsOK
  <2>2. (\A b \in DOMAIN baselines : FromRun(baselines[b]))'
    <3>1. \A b \in DOMAIN baselines : baselines[b].run # r
      BY <1>1, <1>5 DEF Tables, FromRun, Answered
    <3> QED
      BY <1>1, <1>12, <1>13, <3>1 DEF Tables, FromRun
  <2>3. (\A b \in charged : Compares(b))'
    BY <1>1, <1>5, <1>12, <1>13 DEF Tables, Compares
  <2> QED
    BY <1>1, <1>12, <1>13, <2>1, <2>2, <2>3 DEF Tables
<1>16. PICK j : j = [c EXCEPT !.at = "beat", !.reports = @ \cup {r}]
  OBVIOUS
<1>17. c \in Command /\ Knows(c) /\ c.at = "running"
  BY <1>1, <1>2
<1>18. j \in Command /\ j.at = "beat"
  BY <1>5, <1>16, <1>17 DEF Command, Stages
<1>19. cmd' = [cmd EXCEPT ![w] = j]
  BY <1>2, <1>16 DEF Record
<1>20. Knows(j)'
  <2>1. Knows(c)'
    BY <1>14, <1>17, KnowsStays
  <2>2. r \in DOMAIN runs' /\ runs'[r].outcome # "running"
    BY <1>5, <1>9, <1>11, <1>12
  <2>3. /\ j.reports = c.reports \cup {r} /\ j.run = r /\ j.pairs = c.pairs /\ j.sensor = c.sensor
        /\ j.verb = c.verb
    BY <1>2, <1>16, <1>17 DEF Command
  <2> QED
    BY <1>17, <1>18, <2>1, <2>2, <2>3 DEF Knows
<1>21. Runs(j)'
  BY <1>18 DEF Runs
<1>22. \A v \in Worker \ {w} : cmd[v].at = "running" => runs'[cmd[v].run] = runs[cmd[v].run]
  <2>1. ASSUME NEW v \in Worker \ {w}, cmd[v].at = "running"
        PROVE  cmd[v].run \in DOMAIN runs /\ cmd[v].run # r
    BY <1>1, <1>2, <2>1 DEF Inv, Runs, Apart
  <2> QED
    BY <1>12, <2>1
<1> QED
  BY <1>1, <1>14, <1>15, <1>18, <1>19, <1>20, <1>21, <1>22, StepKeeps

LEMMA HeartbeatKeeps ==
    ASSUME Inv, NEW w \in Runner, Heartbeat(w)
    PROVE  Inv'
<1>1. /\ w \in Worker /\ cmd[w] \in Command /\ Knows(cmd[w]) /\ cmd[w].at = "beat"
      /\ sensors \in Seq(SensorRow) /\ runs \in Seq(RunRow)
  BY DEF Heartbeat, At, Inv, TypeOK, Worker
<1>2. PICK c, n : c = cmd[w] /\ n = c.sensor
  OBVIOUS
<1>3. PICK health : health = Health(runs[c.run].outcome)
  OBVIOUS
<1>4. health \in {"HEALTHY", "FAILED", "DEGRADED"}
  <2>1. c.run \in DOMAIN runs /\ runs[c.run].outcome # "running"
    BY <1>1, <1>2 DEF Knows
  <2>2. runs[c.run].outcome \in Outcomes
    <3>1. runs[c.run] \in RunRow
      BY <1>1, <2>1
    <3> QED
      BY <3>1 DEF RunRow
  <2>3. runs[c.run].outcome \in {"success", "diff", "failure", "blocked_by_manifest"}
    BY <2>1, <2>2 DEF Outcomes
  <2> QED
    BY <1>3, <2>3 DEF Health
<1>5. n \in DOMAIN sensors /\ sensors[n] \in SensorRow
  BY <1>1, <1>2 DEF Knows
<1>6. PICK row : row = [sensors[n] EXCEPT !.health = health, !.beats = @ + 1]
  OBVIOUS
<1>7. row \in SensorRow
  <2>1. PICK old \in SensorRow : old = sensors[n]
    BY <1>5
  <2>2. old.beats + 1 \in Nat
    BY DEF SensorRow
  <2>3. PICK beats \in Nat : beats = old.beats + 1
    BY <2>2
  <2>4. [old EXCEPT !.health = health, !.beats = beats] \in SensorRow
    BY <1>4 DEF SensorRow
  <2> QED
    BY <1>6, <2>1, <2>3, <2>4
<1>8. sensors' = [sensors EXCEPT ![n] = row]
  BY <1>1, <1>2, <1>3, <1>5, <1>6 DEF Heartbeat, SensorRow
<1>9. sensors' \in Seq(SensorRow) /\ DOMAIN sensors' = DOMAIN sensors
  <2>1. /\ [sensors EXCEPT ![n] = row] \in Seq(SensorRow)
        /\ DOMAIN [sensors EXCEPT ![n] = row] = DOMAIN sensors
    BY <1>1, <1>5, <1>7, ExceptFacts
  <2> QED
    BY <1>8, <2>1
<1>10. Later /\ Tables'
  BY <1>9, SensorsChange DEF Heartbeat, Stay
<1>11. PICK j : j = [c EXCEPT !.at = "probe", !.pairs = @ \ {First(@)}]
  OBVIOUS
<1>12. c \in Command /\ Knows(c) /\ c.at = "beat"
  BY <1>1, <1>2
<1>13. /\ j \in Command /\ j.at = "probe" /\ j.pairs \subseteq c.pairs /\ j.sensor = c.sensor
       /\ j.reports = c.reports /\ j.verb = c.verb
  BY <1>11, <1>12 DEF Command, Stages
<1>14. cmd' = [cmd EXCEPT ![w] = j]
  BY <1>2, <1>11 DEF Heartbeat
<1>15. Knows(j)'
  <2>1. Knows(c)'
    BY <1>10, <1>12, KnowsStays
  <2> QED
    BY <1>12, <1>13, <2>1 DEF Knows
<1>16. Runs(j)'
  BY <1>13 DEF Runs
<1>17. runs' = runs
  BY DEF Heartbeat
<1> QED
  BY <1>1, <1>10, <1>13, <1>14, <1>15, <1>16, <1>17, StepKeeps

-----------------------------------------------------------------------------
(* The conflicts a drift opens.                                             *)

\* What a step of the runner w begins with.
LEMMA AtStage ==
    ASSUME Inv, NEW w \in Runner, NEW stage, At(w, stage)
    PROVE  /\ w \in Worker /\ cmd[w] \in Command /\ Knows(cmd[w]) /\ Runs(cmd[w])
           /\ cmd[w].at = stage /\ kills \in Nat /\ Tables /\ cmd \in [Worker -> Command]
BY InvParts DEF At, Inv, TypeOK, Worker

LEMMA JudgeKeeps ==
    ASSUME Inv, NEW w \in Runner, Judge(w)
    PROVE  Inv'
<1>1. At(w, "probe")
  BY DEF Judge
<1>2. PICK c, found : c = cmd[w] /\ found = UNION {Intents(Exercised(r)) : r \in Drifted(w)}
  OBVIOUS
<1>3. found \subseteq Intent
  <2>1. ASSUME NEW exercises
        PROVE  Intents(exercises) \subseteq Intent
    <3>1. \A k \in Item : On[k] \in Range(On) /\ items[k].head \in Nat
      BY BoundAssumption DEF Inv, TypeOK, ItemRow, Range
    <3> QED
      BY <3>1 DEF Intents, Intent
  <2> QED
    BY <1>2, <2>1
<1>4. c \in Command /\ Knows(c) /\ c.at = "probe"
  BY <1>1, <1>2, AtStage
<1>5. PICK j : j = [c EXCEPT !.at = "file", !.judged = found, !.todo = found]
  OBVIOUS
<1>6. /\ j \in Command /\ j.at = "file" /\ j.judged = found /\ j.todo = found
      /\ j.pairs = c.pairs /\ j.reports = c.reports /\ j.verb = c.verb
  BY <1>3, <1>4, <1>5 DEF Command, Stages
<1>7. Knows(j)
  BY <1>4, <1>6 DEF Knows
<1>8. cmd' = [cmd EXCEPT ![w] = j]
  BY <1>2, <1>5 DEF Judge
<1> QED
  BY <1>1, <1>6, <1>7, <1>8, AtStage, QuietStep DEF Judge, Stay

LEMMA CheckKeeps ==
    ASSUME Inv, NEW w \in Runner, Check(w)
    PROVE  Inv'
<1>1. At(w, "file")
  BY DEF Check
<1>2. PICK intent \in cmd[w].todo :
         cmd' = IF Open(intent) THEN [cmd EXCEPT ![w].todo = @ \ {intent}]
                ELSE [cmd EXCEPT ![w].absent = {intent}]
  BY DEF Check
<1>3. PICK c : c = cmd[w]
  OBVIOUS
<1>4. c \in Command /\ Knows(c) /\ c.at = "file" /\ intent \in c.todo /\ intent \in Intent
  BY <1>1, <1>2, <1>3, AtStage DEF Command
<1>5. CASE Open(intent)
  <2>1. PICK j : j = [c EXCEPT !.todo = @ \ {intent}]
    OBVIOUS
  <2>2. /\ j \in Command /\ j.at = "file" /\ j.judged = c.judged /\ j.todo = c.todo \ {intent}
        /\ j.pairs = c.pairs /\ j.reports = c.reports /\ j.verb = c.verb
    BY <1>4, <2>1 DEF Command
  <2>3. intent \in Range(conflicts)
    BY <1>5 DEF Open, Range
  <2>4. Knows(j)
    BY <1>4, <2>2, <2>3 DEF Knows
  <2>5. cmd' = [cmd EXCEPT ![w] = j]
    BY <1>2, <1>3, <1>5, <2>1
  <2> QED
    BY <1>1, <2>2, <2>4, <2>5, AtStage, QuietStep DEF Check, Stay
<1>6. CASE ~Open(intent)
  <2>1. PICK j : j = [c EXCEPT !.absent = {intent}]
    OBVIOUS
  <2>2. /\ j \in Command /\ j.at = "file" /\ j.judged = c.judged /\ j.todo = c.todo
        /\ j.pairs = c.pairs /\ j.reports = c.reports /\ j.verb = c.verb
    BY <1>4, <2>1 DEF Command
  <2>3. Knows(j)
    BY <1>4, <2>2 DEF Knows
  <2>4. cmd' = [cmd EXCEPT ![w] = j]
    BY <1>2, <1>3, <1>6, <2>1
  <2> QED
    BY <1>1, <2>2, <2>3, <2>4, AtStage, QuietStep DEF Check, Stay
<1> QED
  BY <1>5, <1>6

LEMMA InsertKeeps ==
    ASSUME Inv, NEW w \in Runner, Insert(w)
    PROVE  Inv'
<1>1. At(w, "file")
  BY DEF Insert
<1>2. PICK intent \in cmd[w].absent :
         /\ conflicts' = Append(conflicts, intent)
         /\ cmd' = [cmd EXCEPT ![w].todo = @ \ {intent}, ![w].absent = {}]
  BY DEF Insert
<1>3. UNCHANGED <<probes, runs, baselines, sensors, charged, items, world, turns, kills>>
  BY DEF Insert, Stay
<1>4. PICK c : c = cmd[w]
  OBVIOUS
<1>5. c \in Command /\ Knows(c) /\ c.at = "file" /\ intent \in Intent /\ w \in Worker
  BY <1>1, <1>2, <1>4, AtStage DEF Command
<1>6. conflicts' \in Seq(Intent) /\ Range(conflicts') = Range(conflicts) \cup {intent}
  <2>1. conflicts \in Seq(Intent)
    BY DEF Inv, TypeOK
  <2> QED
    BY <1>2, <1>5, <2>1, AppendFacts
<1>7. Later
  BY <1>3, <1>6 DEF Later
<1>8. Tables'
  BY <1>3, <1>6, InvParts DEF Tables, RunsOK, FromRun, Compares, Written, Whole, StepsOf
<1>9. PICK j : j = [c EXCEPT !.todo = @ \ {intent}, !.absent = {}]
  OBVIOUS
<1>10. /\ j \in Command /\ j.at = "file" /\ j.judged = c.judged /\ j.todo = c.todo \ {intent}
       /\ j.pairs = c.pairs /\ j.reports = c.reports /\ j.verb = c.verb
  BY <1>5, <1>9 DEF Command
<1>11. cmd' = [cmd EXCEPT ![w] = j]
  BY <1>2, <1>4, <1>9
<1>12. Knows(j)'
  <2>1. Knows(c)'
    BY <1>5, <1>7, KnowsStays
  <2> QED
    BY <1>5, <1>6, <1>10, <2>1 DEF Knows
<1>13. Runs(j)'
  BY <1>10 DEF Runs
<1> QED
  BY <1>3, <1>5, <1>7, <1>8, <1>10, <1>11, <1>12, <1>13, StepKeeps

LEMMA FiledKeeps ==
    ASSUME Inv, NEW w \in Runner, Filed(w)
    PROVE  Inv'
<1>1. At(w, "file") /\ cmd[w].todo = {}
  BY DEF Filed
<1>2. PICK c, at : c = cmd[w] /\ at = IF cmd[w].verb = "refresh" THEN "delta" ELSE "done"
  OBVIOUS
<1>3. c \in Command /\ Knows(c) /\ c.at = "file" /\ c.todo = {} /\ at \in {"delta", "done"}
  BY <1>1, <1>2, AtStage
<1>4. PICK j : j = [c EXCEPT !.at = at]
  OBVIOUS
<1>5. /\ j \in Command /\ j.at = at /\ j.judged = c.judged
      /\ j.pairs = c.pairs /\ j.reports = c.reports /\ j.verb = c.verb
  BY <1>3, <1>4 DEF Command, Stages
<1>6. Knows(j)
  BY <1>3, <1>5 DEF Knows
<1>7. cmd' = [cmd EXCEPT ![w] = j]
  BY <1>2, <1>4 DEF Filed
<1> QED
  BY <1>1, <1>3, <1>5, <1>6, <1>7, AtStage, QuietStep DEF Filed, Stay

\* A step of the runner w that ends its command and changes no table.
LEMMA QuietEnd ==
    ASSUME Inv, NEW w \in Runner, cmd' = [cmd EXCEPT ![w] = Idle], UNCHANGED <<store, charged>>, Stay
    PROVE  Inv'
<1>1. w \in Worker /\ kills' \in Nat /\ Idle.at # "running"
  BY IdleFacts DEF Worker, Stay, Inv, TypeOK
<1> QED
  BY <1>1, IdleFacts, QuietStep DEF Stay

-----------------------------------------------------------------------------
(* What a refresh reports, and what CI observes.                            *)

\* What is compared as drift is a recorded run with a baseline of its revision.
LEMMA DriftCompares ==
    ASSUME Tables, NEW p, Compared(p) = "drift"
    PROVE  /\ LatestRun(p) \in DOMAIN runs /\ runs[LatestRun(p)].outcome # "running"
           /\ ProbeBaseline(p) \in DOMAIN baselines
           /\ runs[LatestRun(p)].probe = p /\ baselines[ProbeBaseline(p)].probe = p
           /\ runs[LatestRun(p)].rev = baselines[ProbeBaseline(p)].rev
<1> DEFINE R == {r \in DOMAIN runs : runs[r].probe = p /\ runs[r].outcome # "running"}
           B == {b \in DOMAIN baselines : baselines[b].probe = p}
<1>1. /\ Len(runs) \in Nat /\ R \subseteq 1..Len(runs)
      /\ Len(baselines) \in Nat /\ B \subseteq 1..Len(baselines)
  BY DEF Tables
<1>2. PICK run, base : run = LatestRun(p) /\ base = ProbeBaseline(p)
  OBVIOUS
<1>3. run = Newest(R) /\ base = Newest(B)
  BY <1>2 DEF LatestRun, ProbeBaseline
<1>4. run # 0
  BY <1>2 DEF Compared
<1>5. Verdict(base, p, runs[run].rev, runs[run].outputs, HeadSpec(p).steps) = "drift"
  BY <1>2, <1>4 DEF Compared
<1>6. base # 0 /\ baselines[base].probe = p /\ baselines[base].rev = runs[run].rev
  BY <1>5 DEF Verdict
<1> HIDE DEF R, B
<1>7. run \in R /\ base \in B
  BY <1>1, <1>3, <1>4, <1>6, NewestIsOne
<1> QED
  BY <1>2, <1>6, <1>7 DEF R, B

LEMMA DeltaKeeps ==
    ASSUME Inv, NEW w \in Runner, Delta(w)
    PROVE  Inv'
<1>1. At(w, "delta")
  BY DEF Delta
<1> DEFINE Rows(p) == {[identity |-> i, run |-> LatestRun(p), base |-> ProbeBaseline(p)] :
                          i \in Identity \cap
                                UNION {Exercised(r) : r \in {r \in cmd[w].reports : runs[r].probe = p}}}
           drifted == {p \in Executed(w) : Compared(p) = "drift"}
<1>2. PICK carried : carried = UNION {Rows(p) : p \in drifted}
  OBVIOUS
<1>3. ASSUME NEW row \in carried
      PROVE  row \in Charged /\ Compares(row)
  <2>1. PICK p \in drifted : row \in Rows(p)
    BY <1>2
  <2>2. /\ LatestRun(p) \in DOMAIN runs /\ runs[LatestRun(p)].outcome # "running"
        /\ ProbeBaseline(p) \in DOMAIN baselines
        /\ runs[LatestRun(p)].probe = p /\ baselines[ProbeBaseline(p)].probe = p
        /\ runs[LatestRun(p)].rev = baselines[ProbeBaseline(p)].rev
    BY <1>1, <2>1, AtStage, DriftCompares
  <2>3. PICK i \in Identity :
           row = [identity |-> i, run |-> LatestRun(p), base |-> ProbeBaseline(p)]
    BY <2>1
  <2>4. LatestRun(p) \in Nat /\ ProbeBaseline(p) \in Nat
    BY <2>2 DEF Inv, TypeOK
  <2> QED
    BY <2>2, <2>3, <2>4 DEF Charged, Compares
<1>4. PICK c, j : c = cmd[w] /\ j = [c EXCEPT !.at = "charge", !.carried = carried]
  OBVIOUS
<1>5. cmd' = [cmd EXCEPT ![w] = j]
  BY <1>2, <1>4 DEF Delta
<1> HIDE DEF Rows, drifted
<1>6. c \in Command /\ Knows(c) /\ c.at = "delta"
  BY <1>1, <1>4, AtStage
<1>7. /\ j \in Command /\ j.at = "charge" /\ j.judged = c.judged /\ j.carried = carried
      /\ j.pairs = c.pairs /\ j.reports = c.reports /\ j.verb = c.verb
  <2>1. carried \subseteq Charged \cup Sensed
    BY <1>3
  <2> QED
    BY <1>4, <1>6, <2>1 DEF Command, Stages
<1>8. Knows(j)
  BY <1>3, <1>6, <1>7 DEF Knows
<1> QED
  BY <1>1, <1>5, <1>7, <1>8, AtStage, QuietStep DEF Delta, Stay

LEMMA ChargeKeeps ==
    ASSUME Inv, NEW w \in Runner, Charge(w)
    PROVE  Inv'
<1>1. At(w, "charge")
  BY DEF Charge
<1>2. PICK c : c = cmd[w]
  OBVIOUS
<1>3. c \in Command /\ Knows(c) /\ c.at = "charge" /\ w \in Worker
  BY <1>1, <1>2, AtStage
<1>4. charged' = charged \cup c.carried /\ UNCHANGED <<store, items, world, turns, kills>>
  BY <1>2 DEF Charge, Stay
<1>5. Later
  BY <1>4 DEF Later, store
<1>6. Tables'
  <2>1. \A r \in c.carried : r \in Charged /\ Compares(r)
    BY <1>3 DEF Knows
  <2> QED
    BY <1>4, <2>1, InvParts DEF store, Tables, RunsOK, FromRun, Compares, Written, Whole, StepsOf
<1>7. PICK j : j = [c EXCEPT !.at = "done"]
  OBVIOUS
<1>8. /\ j \in Command /\ j.at = "done" /\ j.judged = c.judged
      /\ j.pairs = c.pairs /\ j.reports = c.reports /\ j.verb = c.verb
  BY <1>3, <1>7 DEF Command, Stages
<1>9. cmd' = [cmd EXCEPT ![w] = j]
  BY <1>2, <1>7 DEF Charge
<1>10. Knows(j)'
  <2>1. Knows(c)'
    BY <1>3, <1>5, KnowsStays
  <2> QED
    BY <1>3, <1>8, <2>1 DEF Knows
<1>11. Runs(j)'
  BY <1>8 DEF Runs
<1> QED
  BY <1>3, <1>4, <1>5, <1>6, <1>8, <1>9, <1>10, <1>11, StepKeeps DEF store

LEMMA SenseStartKeeps ==
    ASSUME Inv, NEW w \in Runner, SenseStart(w)
    PROVE  Inv'
<1>1. At(w, "idle")
  BY DEF SenseStart
<1>2. PICK pairs : pairs = Pairs(DOMAIN probes)
  OBVIOUS
<1>3. pairs \subseteq Pair /\ \A pair \in pairs : Written(pair)
  BY <1>2, PairsFacts, InvParts
<1>4. PICK j : j = [Idle EXCEPT !.at = "sense", !.verb = "sense", !.pairs = pairs]
  OBVIOUS
<1>5. j \in Command /\ j.at = "sense"
  BY <1>3, <1>4 DEF Idle, Command, Stages
<1>6. Knows(j)
  BY <1>3, <1>4 DEF Idle, Knows
<1>7. cmd' = [cmd EXCEPT ![w] = j]
  BY <1>2, <1>4 DEF SenseStart
<1> QED
  BY <1>1, <1>5, <1>6, <1>7, AtStage, QuietStep DEF SenseStart, Stay

LEMMA ObserveKeeps ==
    ASSUME Inv, NEW w \in Runner, Observe(w)
    PROVE  Inv'
<1>1. At(w, "sense") /\ cmd[w].pairs # {}
  BY DEF Observe
<1>2. PICK c, pair : c = cmd[w] /\ pair = First(c.pairs)
  OBVIOUS
<1>3. c \in Command /\ Knows(c) /\ c.at = "sense" /\ c.pairs # {}
  BY <1>1, <1>2, AtStage
<1>4. pair \in c.pairs /\ pair \in Pair /\ Written(pair)
  BY <1>2, <1>3, FirstIsOne DEF Command, Knows
<1>5. PICK spec : spec = probes[pair.probe].revs[pair.rev].spec
  OBVIOUS
<1>6. spec \in ProbeFiles /\ world \in World
  BY <1>4, <1>5, WrittenSpec, InvParts DEF Inv, TypeOK
<1>7. PICK end, outcome, outputs :
         /\ end \in Endings(spec, world)
         /\ outcome = Outcome(spec, world, end, 0, pair.probe, pair.rev)
         /\ outputs = Observed(spec, world, end)
         /\ cmd' = [cmd EXCEPT ![w].pairs = @ \ {pair},
                               ![w].carried = @ \cup {Result(pair, outcome, outputs)}]
  <2> DEFINE p == First(cmd[w].pairs)
             s == probes[p.probe].revs[p.rev].spec
  <2>1. \E end \in Endings(s, world) :
           cmd' = [cmd EXCEPT ![w].pairs = @ \ {p},
                     ![w].carried = @ \cup
                        {Result(p, Outcome(s, world, end, 0, p.probe, p.rev),
                                Observed(s, world, end))}]
    BY DEF Observe, Observed
  <2>2. p = pair /\ s = spec
    BY <1>2, <1>5
  <2> HIDE DEF p, s
  <2>3. PICK end \in Endings(spec, world) :
           cmd' = [cmd EXCEPT ![w].pairs = @ \ {pair},
                     ![w].carried = @ \cup
                        {Result(pair, Outcome(spec, world, end, 0, pair.probe, pair.rev),
                                Observed(spec, world, end))}]
    BY <2>1, <2>2
  <2>4. PICK outcome, outputs :
           /\ outcome = Outcome(spec, world, end, 0, pair.probe, pair.rev)
           /\ outputs = Observed(spec, world, end)
    OBVIOUS
  <2> QED
    BY <2>3, <2>4
<1>8. /\ outcome \in Outcomes \ {"running"} /\ outputs \in Seq(AllOutputs)
      /\ outcome = "success" => Len(outputs) = Len(spec.steps)
  <2>1. /\ end.why \in {"done", "budget", "undeclared", "unanswered"}
        /\ end.why = "done" => end.seen = Len(spec.steps)
    BY <1>6, <1>7, EndingFacts
  <2>2. outputs \in Seq(AllOutputs) /\ Len(outputs) = end.seen
    BY <1>6, <1>7, ObservedFacts
  <2>3. outcome \in Outcomes \ {"running"} /\ (outcome \in Answered => end.why = "done")
    BY <1>7, <2>1, OutcomeFacts
  <2> QED
    BY <2>1, <2>2, <2>3 DEF Answered
<1>9. PICK result : result = Result(pair, outcome, outputs)
  OBVIOUS
<1>10. /\ result \in Sensed
       /\ result.outcome = "success" => Written(result) /\ Whole(result)
  <2>1. Health(outcome) \in {"HEALTHY", "FAILED", "DEGRADED"}
    BY <1>8 DEF Health, Outcomes
  <2>2. /\ result.probe = pair.probe /\ result.rev = pair.rev /\ result.outcome = outcome
        /\ result.outputs = outputs
    BY <1>9 DEF Result
  <2>3. result \in Sensed
    BY <1>4, <1>8, <1>9, <2>1 DEF Result, Sensed, Pair
  <2>4. result.outcome = "success" => Written(result) /\ Whole(result)
    BY <1>4, <1>5, <1>8, <2>2 DEF Written, Whole, StepsOf
  <2> QED
    BY <2>3, <2>4
<1>11. PICK j : j = [c EXCEPT !.pairs = @ \ {pair}, !.carried = @ \cup {result}]
  OBVIOUS
<1>12. /\ j \in Command /\ j.at = "sense" /\ j.pairs \subseteq c.pairs
       /\ j.reports = c.reports /\ j.verb = c.verb /\ j.carried = c.carried \cup {result}
  BY <1>3, <1>10, <1>11 DEF Command
<1>13. Knows(j)
  BY <1>3, <1>10, <1>12 DEF Knows
<1>14. cmd' = [cmd EXCEPT ![w] = j]
  BY <1>2, <1>7, <1>9, <1>11
<1> QED
  BY <1>1, <1>12, <1>13, <1>14, AtStage, QuietStep DEF Observe, Stay

-----------------------------------------------------------------------------
(* Baselines.                                                               *)

LEMMA StartBaselinesKeeps ==
    ASSUME Inv, NEW w \in Runner, StartBaselines(w)
    PROVE  Inv'
<1>1. At(w, "idle")
  BY DEF StartBaselines
<1>2. PICK j : j = [Idle EXCEPT !.at = "baseline", !.verb = "baseline", !.probe = 1]
  OBVIOUS
<1>3. j \in Command /\ j.at = "baseline" /\ Knows(j)
  BY <1>2 DEF Idle, Command, Stages, Knows
<1>4. cmd' = [cmd EXCEPT ![w] = j]
  BY <1>2 DEF StartBaselines
<1> QED
  BY <1>1, <1>3, <1>4, AtStage, QuietStep DEF StartBaselines, Stay

LEMMA SetBaselineKeeps ==
    ASSUME Inv, NEW w \in Runner, SetBaseline(w)
    PROVE  Inv'
<1>1. At(w, "baseline")
  BY DEF SetBaseline
<1>2. PICK c, p, run : c = cmd[w] /\ p = c.probe /\ run = Newest(Eligible(p))
  OBVIOUS
<1>3. c \in Command /\ Knows(c) /\ c.at = "baseline" /\ Tables /\ w \in Worker
  BY <1>1, <1>2, AtStage
<1>4. UNCHANGED <<probes, runs, conflicts, sensors, charged, items, world, turns, kills>>
  BY DEF SetBaseline, Stay
<1>5. baselines' = IF run = 0 THEN baselines ELSE Append(baselines, BaselineOf(run))
  BY <1>2 DEF SetBaseline
<1>6. baselines \in Seq(BaselineRow) /\ runs \in Seq(RunRow)
  BY <1>3 DEF Tables
<1>7. run # 0 => BaselineOf(run) \in BaselineRow /\ FromRun(BaselineOf(run))
  <2>1. SUFFICES ASSUME run # 0
                 PROVE  BaselineOf(run) \in BaselineRow /\ FromRun(BaselineOf(run))
    OBVIOUS
  <2>2. run \in Eligible(p)
    <3>1. Len(runs) \in Nat /\ Eligible(p) \subseteq 1..Len(runs)
      BY <1>6 DEF Eligible
    <3> QED
      BY <1>2, <2>1, <3>1, NewestIsOne
  <2>3. run \in DOMAIN runs /\ runs[run].outcome \in Answered
    BY <2>2 DEF Eligible, Answered
  <2>4. runs[run] \in RunRow /\ run \in Nat
    BY <1>6, <2>3
  <2> QED
    BY <2>3, <2>4 DEF BaselineOf, BaselineRow, RunRow, FromRun
<1>8. /\ baselines' \in Seq(BaselineRow)
      /\ \A b \in DOMAIN baselines : b \in DOMAIN baselines' /\ baselines'[b] = baselines[b]
      /\ \A b \in DOMAIN baselines' :
            b \notin DOMAIN baselines => run # 0 /\ baselines'[b] = BaselineOf(run)
  <2>1. CASE run = 0
    BY <1>5, <1>6, <2>1
  <2>2. CASE run # 0
    BY <1>5, <1>6, <1>7, <2>2, AppendFacts
  <2> QED
    BY <2>1, <2>2
<1>9. Later
  BY <1>4, <1>8 DEF Later
<1>10. Tables'
  <2>1. ASSUME NEW b \in DOMAIN baselines'
        PROVE  FromRun(baselines[b])'
    <3>1. PICK row : row = baselines'[b]
      OBVIOUS
    <3>2. FromRun(row)
      BY <1>3, <1>7, <1>8, <3>1 DEF Tables
    <3> QED
      BY <1>4, <3>1, <3>2 DEF FromRun
  <2>2. (\A r \in charged : Compares(r))'
    BY <1>3, <1>4, <1>8 DEF Tables, Compares
  <2> QED
    BY <1>3, <1>4, <1>8, <2>1, <2>2 DEF Tables, RunsOK, Written, Whole, StepsOf
<1>11. PICK next : next = p + 1
  OBVIOUS
<1>12. p \in Nat /\ next \in Nat
  <2>1. p \in Nat
    BY <1>2, <1>3 DEF Command
  <2> QED
    BY <1>11, <2>1
<1>13. PICK j : j = IF p = Len(probes) THEN Idle ELSE [c EXCEPT !.probe = next]
  OBVIOUS
<1>14. cmd' = [cmd EXCEPT ![w] = j]
  BY <1>2, <1>11, <1>13 DEF SetBaseline
<1>15. j \in Command /\ j.at # "running" /\ Knows(j)
  <2>1. CASE p = Len(probes)
    BY <1>13, <2>1, IdleFacts
  <2>2. CASE p # Len(probes)
    <3>1. j = [c EXCEPT !.probe = next]
      BY <1>13, <2>2
    <3>2. /\ j \in Command /\ j.at = "baseline"
          /\ j.pairs = c.pairs /\ j.reports = c.reports /\ j.verb = c.verb
      BY <1>3, <1>12, <3>1 DEF Command
    <3> QED
      BY <1>3, <3>2 DEF Knows
  <2> QED
    BY <2>1, <2>2
<1>16. Knows(j)'
  BY <1>9, <1>15, KnowsStays
<1>17. Runs(j)'
  BY <1>15 DEF Runs
<1> QED
  BY <1>3, <1>4, <1>9, <1>10, <1>14, <1>15, <1>16, <1>17, StepKeeps

-----------------------------------------------------------------------------
(* The invariant holds, and what follows from it.                           *)

LEMMA InitInv ==
    ASSUME Init
    PROVE  Inv
<1>1. /\ probes = <<>> /\ runs = <<>> /\ baselines = <<>> /\ conflicts = <<>> /\ sensors = <<>>
      /\ charged = {} /\ turns = 0 /\ kills = 0 /\ world \in World
      /\ cmd = [w \in Worker |-> Idle]
  BY BoundAssumption DEF Init
<1>2. items \in [Item -> ItemRow]
  BY DEF Init, ItemRow
<1>3. \A s \in {probes, runs, baselines, conflicts, sensors} : DOMAIN s = {}
  BY <1>1
<1>4. Tables
  BY <1>1, <1>2, <1>3 DEF Tables, RunsOK
<1>5. cmd \in [Worker -> Command] /\ \A w \in Worker : cmd[w] = Idle
  BY <1>1, IdleFacts
<1>6. Runs(Idle)
  BY IdleFacts DEF Runs
<1>7. Commands
  BY <1>5, <1>6, IdleFacts DEF Commands, Apart
<1> QED
  BY <1>4, <1>7, InvParts

LEMMA NextKeeps ==
    ASSUME Inv, Next
    PROVE  Inv'
<1>1. CASE \E w \in Editor : AddRead(w) \/ Create(w) \/ Revise(w) \/ RetireProbe(w)
  BY <1>1, AddReadKeeps, CreateKeeps, ReviseKeeps, RetireProbeKeeps
<1>2. CASE \E w \in Runner : Start(w) \/ Register(w) \/ Begin(w) \/ Record(w) \/ Heartbeat(w)
  BY <1>2, StartKeeps, RegisterKeeps, BeginKeeps, RecordKeeps, HeartbeatKeeps
<1>3. CASE \E w \in Runner :
              Judge(w) \/ Check(w) \/ Insert(w) \/ Filed(w) \/ Delta(w) \/ Charge(w)
  BY <1>3, JudgeKeeps, CheckKeeps, InsertKeeps, FiledKeeps, DeltaKeeps, ChargeKeeps
<1>4. CASE \E w \in Runner : Finish(w) \/ Post(w)
  BY <1>4, QuietEnd DEF Finish, Post
<1>5. CASE \E w \in Runner :
              SenseStart(w) \/ Observe(w) \/ StartBaselines(w) \/ SetBaseline(w)
  BY <1>5, SenseStartKeeps, ObserveKeeps, StartBaselinesKeeps, SetBaselineKeeps
<1>6. CASE (\E w \in Worker : Kill(w)) \/ Turn \/ Rewrite \/ Withdraw \/ Unbind
  BY <1>6, KillKeeps, TurnKeeps, ReviewKeeps
<1> QED
  BY <1>1, <1>2, <1>3, <1>4, <1>5, <1>6 DEF Next

LEMMA StutterKeeps ==
    ASSUME Inv, UNCHANGED vars
    PROVE  Inv'
<1>1. Later /\ Tables'
  BY StoreStays DEF vars, store, Inv, TypeOK
<1> QED
  BY <1>1, NobodyMoves DEF vars, store

\* In every reachable state the tables and what the commands know of them agree.
THEOREM Invariant == Spec => []Inv
<1>1. Init => Inv
  BY InitInv
<1>2. Inv /\ [Next]_vars => Inv'
  BY NextKeeps, StutterKeeps
<1> QED
  BY <1>1, <1>2, PTL DEF Spec

\* The tables, the items and the commands have the types the code gives them,
\* through every interleaving, edit and kill.
THEOREM TypeCorrect == Spec => []TypeOK
<1>1. Inv => TypeOK
  BY DEF Inv
<1> QED
  BY <1>1, Invariant, PTL

\* A baseline is the whole output of a run that answered, and so is what CI
\* posts as a success: set_baselines takes BASELINE_ELIGIBLE_OUTCOMES only, and
\* a run ends with one of these only when every step was observed, on the
\* revision it names, though the probe be edited meanwhile.
THEOREM BaselinesWhole == Spec => []BaselinesAreWhole
<1>1. Inv => BaselinesAreWhole
  <2>1. SUFFICES ASSUME Inv
                 PROVE  BaselinesAreWhole
    OBVIOUS
  <2>2. ASSUME NEW w \in Runner, NEW r \in cmd[w].carried, cmd[w].verb = "sense",
               r.outcome = "success"
        PROVE  Len(r.outputs) = Len(probes[r.probe].revs[r.rev].spec.steps)
    <3>1. Knows(cmd[w])
      BY <2>1 DEF Inv, Worker
    <3> QED
      BY <2>2, <3>1 DEF Knows, Whole, StepsOf
  <2>3. ASSUME NEW b \in DOMAIN baselines
        PROVE  /\ Len(baselines[b].outputs) =
                     Len(probes[baselines[b].probe].revs[baselines[b].rev].spec.steps)
               /\ runs[baselines[b].run].rev = baselines[b].rev
               /\ runs[baselines[b].run].outputs = baselines[b].outputs
    BY <2>1 DEF Inv, RunsOK, FromRun, Whole, StepsOf
  <2> QED
    BY <2>2, <2>3 DEF BaselinesAreWhole
<1> QED
  BY <1>1, Invariant, PTL

\* What a refresh reports as a change compares two outputs of one revision, so
\* an edit of the probe is never reported as a change of the client's system:
\* compare_run answers probe_changed before it compares (probe_delta).
THEOREM EditsAreNeverDrift == Spec => []EditsAreNotDrift
<1>1. Inv => EditsAreNotDrift
  BY DEF Inv, Compares, EditsAreNotDrift
<1> QED
  BY <1>1, Invariant, PTL

-----------------------------------------------------------------------------
(* A drift is filed once.                                                   *)

\* Steps that open no conflict and ask about none.
Asked ==
    /\ conflicts' = conflicts
    /\ \A v \in Worker : cmd'[v].absent \subseteq cmd[v].absent

LEMMA MovedOnly ==
    ASSUME Inv, NEW w \in Worker, NEW j, cmd' = [cmd EXCEPT ![w] = j], conflicts' = conflicts,
           j.absent \subseteq cmd[w].absent
    PROVE  Asked
<1>1. cmd \in [Worker -> Command]
  BY DEF Inv, TypeOK
<1> QED
  BY <1>1 DEF Asked

LEMMA EditorsAskNothing ==
    ASSUME Inv, NEW w \in Editor, AddRead(w) \/ Create(w) \/ Revise(w) \/ RetireProbe(w)
    PROVE  Asked
<1>1. w \in Worker /\ Idle.absent = {}
  BY DEF Worker, Idle
<1>2. CASE AddRead(w)
  <2>1. PICK spec, p, head :
           cmd' = [cmd EXCEPT ![w] = [Idle EXCEPT !.at = "adding", !.verb = "add",
                                            !.spec = spec, !.probe = p, !.head = head]]
    BY <1>2 DEF AddRead
  <2>2. [Idle EXCEPT !.at = "adding", !.verb = "add",
                     !.spec = spec, !.probe = p, !.head = head].absent = {}
    BY DEF Idle
  <2>3. conflicts' = conflicts
    BY <1>2 DEF AddRead, store
  <2> QED
    BY <1>1, <2>1, <2>2, <2>3, MovedOnly
<1>3. CASE Create(w) \/ Revise(w)
  <2>1. cmd' = [cmd EXCEPT ![w] = Idle] /\ conflicts' = conflicts
    BY <1>3 DEF Create, Revise
  <2> QED
    BY <1>1, <2>1, MovedOnly
<1>4. CASE RetireProbe(w)
  BY <1>4 DEF RetireProbe, Asked
<1> QED
  BY <1>2, <1>3, <1>4

LEMMA RunnersAskNothing ==
    ASSUME Inv, NEW w \in Runner,
           \/ Start(w) \/ Register(w) \/ Begin(w) \/ Record(w) \/ Heartbeat(w)
           \/ Judge(w) \/ Filed(w) \/ Delta(w) \/ Charge(w) \/ Finish(w)
           \/ SenseStart(w) \/ Observe(w) \/ Post(w)
           \/ StartBaselines(w) \/ SetBaseline(w)
    PROVE  Asked
<1>1. w \in Worker /\ Idle.absent = {} /\ cmd[w] \in Command
  BY DEF Worker, Idle, Inv, TypeOK
<1>2. CASE Start(w)
  <2>1. PICK at, verb, pairs, sensor :
           cmd' = [cmd EXCEPT ![w] = [Idle EXCEPT !.at = at, !.verb = verb, !.pairs = pairs,
                                                  !.sensor = sensor]]
    BY <1>2 DEF Start
  <2>2. [Idle EXCEPT !.at = at, !.verb = verb, !.pairs = pairs, !.sensor = sensor].absent = {}
    BY DEF Idle
  <2>3. conflicts' = conflicts
    BY <1>2 DEF Start, store
  <2> QED
    BY <1>1, <2>1, <2>2, <2>3, MovedOnly
<1>3. CASE SenseStart(w) \/ StartBaselines(w)
  <2>1. conflicts' = conflicts
    BY <1>3 DEF SenseStart, StartBaselines, store
  <2>2. CASE SenseStart(w)
    <3>1. PICK pairs :
             cmd' = [cmd EXCEPT ![w] = [Idle EXCEPT !.at = "sense", !.verb = "sense",
                                                    !.pairs = pairs]]
      BY <2>2 DEF SenseStart
    <3>2. [Idle EXCEPT !.at = "sense", !.verb = "sense", !.pairs = pairs].absent = {}
      BY DEF Idle
    <3> QED
      BY <1>1, <2>1, <3>1, <3>2, MovedOnly
  <2>3. CASE StartBaselines(w)
    <3>1. [Idle EXCEPT !.at = "baseline", !.verb = "baseline", !.probe = 1].absent = {}
      BY DEF Idle
    <3> QED
      BY <1>1, <2>1, <2>3, <3>1, MovedOnly DEF StartBaselines
  <2> QED
    BY <1>3, <2>2, <2>3
<1>4. CASE Finish(w) \/ Post(w)
  <2>1. cmd' = [cmd EXCEPT ![w] = Idle] /\ conflicts' = conflicts
    BY <1>4 DEF Finish, Post, store
  <2> QED
    BY <1>1, <2>1, MovedOnly
<1>5. CASE SetBaseline(w)
  <2>1. PICK j : j = IF cmd[w].probe = Len(probes) THEN Idle
                     ELSE [cmd[w] EXCEPT !.probe = cmd[w].probe + 1]
    OBVIOUS
  <2>2. cmd' = [cmd EXCEPT ![w] = j] /\ conflicts' = conflicts
    BY <1>5, <2>1 DEF SetBaseline
  <2>3. j.absent \subseteq cmd[w].absent
    BY <1>1, <2>1 DEF Command
  <2> QED
    BY <1>1, <2>2, <2>3, MovedOnly
<1>6. CASE \/ Register(w) \/ Begin(w) \/ Record(w) \/ Heartbeat(w)
           \/ Judge(w) \/ Filed(w) \/ Delta(w) \/ Charge(w) \/ Observe(w)
  <2>1. conflicts' = conflicts
    BY <1>6 DEF Register, Begin, Record, Heartbeat, Judge, Filed, Delta, Charge, Observe, store
  <2>2. CASE Register(w)
    <3>1. PICK at, sensor : cmd' = [cmd EXCEPT ![w].at = at, ![w].sensor = sensor]
      BY <2>2 DEF Register
    <3>2. PICK j : j = [cmd[w] EXCEPT !.at = at, !.sensor = sensor]
      OBVIOUS
    <3>3. cmd' = [cmd EXCEPT ![w] = j] /\ j.absent = cmd[w].absent
      BY <1>1, <3>1, <3>2 DEF Command
    <3> QED
      BY <1>1, <2>1, <3>3, MovedOnly
  <2>3. CASE Begin(w)
    <3>1. PICK at, run, base : cmd' = [cmd EXCEPT ![w].at = at, ![w].run = run, ![w].base = base]
      BY <2>3 DEF Begin
    <3>2. PICK j : j = [cmd[w] EXCEPT !.at = at, !.run = run, !.base = base]
      OBVIOUS
    <3>3. cmd' = [cmd EXCEPT ![w] = j] /\ j.absent = cmd[w].absent
      BY <1>1, <3>1, <3>2 DEF Command
    <3> QED
      BY <1>1, <2>1, <3>3, MovedOnly
  <2>4. CASE Record(w)
    <3>1. PICK at, reports : cmd' = [cmd EXCEPT ![w].at = at, ![w].reports = reports]
      BY <2>4 DEF Record
    <3>2. PICK j : j = [cmd[w] EXCEPT !.at = at, !.reports = reports]
      OBVIOUS
    <3>3. cmd' = [cmd EXCEPT ![w] = j] /\ j.absent = cmd[w].absent
      BY <1>1, <3>1, <3>2 DEF Command
    <3> QED
      BY <1>1, <2>1, <3>3, MovedOnly
  <2>5. CASE Heartbeat(w)
    <3>1. PICK at, pairs : cmd' = [cmd EXCEPT ![w].at = at, ![w].pairs = pairs]
      BY <2>5 DEF Heartbeat
    <3>2. PICK j : j = [cmd[w] EXCEPT !.at = at, !.pairs = pairs]
      OBVIOUS
    <3>3. cmd' = [cmd EXCEPT ![w] = j] /\ j.absent = cmd[w].absent
      BY <1>1, <3>1, <3>2 DEF Command
    <3> QED
      BY <1>1, <2>1, <3>3, MovedOnly
  <2>6. CASE Judge(w)
    <3>1. PICK at, judged, todo : cmd' = [cmd EXCEPT ![w].at = at, ![w].judged = judged, ![w].todo = todo]
      BY <2>6 DEF Judge
    <3>2. PICK j : j = [cmd[w] EXCEPT !.at = at, !.judged = judged, !.todo = todo]
      OBVIOUS
    <3>3. cmd' = [cmd EXCEPT ![w] = j] /\ j.absent = cmd[w].absent
      BY <1>1, <3>1, <3>2 DEF Command
    <3> QED
      BY <1>1, <2>1, <3>3, MovedOnly
  <2>7. CASE Filed(w) \/ Charge(w)
    <3>1. PICK at : cmd' = [cmd EXCEPT ![w].at = at]
      BY <2>7 DEF Filed, Charge
    <3>2. PICK j : j = [cmd[w] EXCEPT !.at = at]
      OBVIOUS
    <3>3. cmd' = [cmd EXCEPT ![w] = j] /\ j.absent = cmd[w].absent
      BY <1>1, <3>1, <3>2 DEF Command
    <3> QED
      BY <1>1, <2>1, <3>3, MovedOnly
  <2>8. CASE Delta(w)
    <3>1. PICK at, carried : cmd' = [cmd EXCEPT ![w].at = at, ![w].carried = carried]
      BY <2>8 DEF Delta
    <3>2. PICK j : j = [cmd[w] EXCEPT !.at = at, !.carried = carried]
      OBVIOUS
    <3>3. cmd' = [cmd EXCEPT ![w] = j] /\ j.absent = cmd[w].absent
      BY <1>1, <3>1, <3>2 DEF Command
    <3> QED
      BY <1>1, <2>1, <3>3, MovedOnly
  <2>9. CASE Observe(w)
    <3>1. PICK pairs, carried : cmd' = [cmd EXCEPT ![w].pairs = pairs, ![w].carried = carried]
      BY <2>9 DEF Observe
    <3>2. PICK j : j = [cmd[w] EXCEPT !.pairs = pairs, !.carried = carried]
      OBVIOUS
    <3>3. cmd' = [cmd EXCEPT ![w] = j] /\ j.absent = cmd[w].absent
      BY <1>1, <3>1, <3>2 DEF Command
    <3> QED
      BY <1>1, <2>1, <3>3, MovedOnly
  <2> QED
    BY <1>6, <2>2, <2>3, <2>4, <2>5, <2>6, <2>7, <2>8, <2>9
<1> QED
  BY <1>2, <1>3, <1>4, <1>5, <1>6

LEMMA OnceStep ==
    ASSUME OneRunner, Inv, OnceInv, Next
    PROVE  OnceInv'
<1>1. cmd \in [Worker -> Command] /\ conflicts \in Seq(Intent)
  BY DEF Inv, TypeOK
<1>2. ASSUME Asked
      PROVE  OnceInv'
  BY <1>2 DEF Asked, OnceInv, Worker, IsInjective
<1>3. ASSUME NEW w \in Runner, Check(w)
      PROVE  OnceInv'
  <2>1. w \in Worker /\ conflicts' = conflicts
    BY <1>3 DEF Worker, Check, store
  <2>2. PICK intent \in cmd[w].todo :
           cmd' = IF Open(intent) THEN [cmd EXCEPT ![w].todo = @ \ {intent}]
                  ELSE [cmd EXCEPT ![w].absent = {intent}]
    BY <1>3 DEF Check
  <2>3. CASE Open(intent)
    <3>1. PICK j : j = [cmd[w] EXCEPT !.todo = @ \ {intent}]
      OBVIOUS
    <3>2. cmd' = [cmd EXCEPT ![w] = j] /\ j.absent = cmd[w].absent
      BY <1>1, <2>1, <2>2, <2>3, <3>1 DEF Command
    <3>3. Asked
      BY <2>1, <3>2, MovedOnly
    <3> QED
      BY <1>2, <3>3
  <2>4. CASE ~Open(intent)
    <3>1. PICK j : j = [cmd[w] EXCEPT !.absent = {intent}]
      OBVIOUS
    <3>2. cmd' = [cmd EXCEPT ![w] = j] /\ j.absent = {intent}
      BY <1>1, <2>1, <2>2, <2>4, <3>1 DEF Command
    <3>3. intent \notin Range(conflicts)
      BY <2>4 DEF Open, Range
    <3>4. \A v \in Worker : cmd'[v] = IF v = w THEN j ELSE cmd[v]
      BY <1>1, <3>2
    <3> QED
      BY <2>1, <3>2, <3>3, <3>4 DEF OnceInv, Worker, IsInjective
  <2> QED
    BY <2>3, <2>4
<1>4. ASSUME NEW w \in Runner, Insert(w)
      PROVE  OnceInv'
  <2>1. w \in Worker /\ cmd[w] \in Command
    BY <1>1 DEF Worker
  <2>2. PICK intent \in cmd[w].absent :
           /\ conflicts' = Append(conflicts, intent)
           /\ cmd' = [cmd EXCEPT ![w].todo = @ \ {intent}, ![w].absent = {}]
    BY <1>4 DEF Insert
  <2>3. PICK j : j = [cmd[w] EXCEPT !.todo = @ \ {intent}, !.absent = {}]
    OBVIOUS
  <2>4. cmd' = [cmd EXCEPT ![w] = j] /\ j.absent = {}
    BY <2>1, <2>2, <2>3 DEF Command
  <2>5. \A v \in Worker : cmd'[v] = IF v = w THEN j ELSE cmd[v]
    BY <1>1, <2>4
  <2>6. intent \in Intent /\ intent \notin Range(conflicts)
    BY <2>1, <2>2 DEF OnceInv, Command
  <2>7. /\ DOMAIN conflicts' = DOMAIN conflicts \cup {Len(conflicts) + 1}
        /\ Len(conflicts) + 1 \notin DOMAIN conflicts
        /\ \A n \in DOMAIN conflicts : conflicts'[n] = conflicts[n]
        /\ conflicts'[Len(conflicts) + 1] = intent
    BY <1>1, <2>2, <2>6, AppendFacts
  <2>8. \A n \in DOMAIN conflicts : conflicts[n] # intent
    BY <2>6 DEF Range
  <2>9. IsInjective(conflicts)'
    BY <2>7, <2>8 DEF OnceInv, IsInjective
  <2>10. \A v \in Runner : cmd'[v].absent = {}
    BY <2>4, <2>5 DEF OneRunner, Worker
  <2>11. \A v \in Worker \ Runner : cmd'[v].absent = {}
    BY <2>5 DEF OnceInv
  <2> QED
    BY <2>9, <2>10, <2>11 DEF OnceInv
<1>5. CASE \E w \in Editor : AddRead(w) \/ Create(w) \/ Revise(w) \/ RetireProbe(w)
  BY <1>2, <1>5, EditorsAskNothing
<1>6. CASE \E w \in Runner :
              \/ Start(w) \/ Register(w) \/ Begin(w) \/ Record(w) \/ Heartbeat(w)
              \/ Judge(w) \/ Filed(w) \/ Delta(w) \/ Charge(w) \/ Finish(w)
              \/ SenseStart(w) \/ Observe(w) \/ Post(w)
              \/ StartBaselines(w) \/ SetBaseline(w)
  BY <1>2, <1>6, RunnersAskNothing
<1>7. CASE \E w \in Worker : Kill(w)
  <2>1. PICK w \in Worker : cmd' = [cmd EXCEPT ![w] = Idle] /\ conflicts' = conflicts
    BY <1>7 DEF Kill, store
  <2>2. Idle.absent = {}
    BY DEF Idle
  <2>3. Asked
    BY <2>1, <2>2, MovedOnly
  <2> QED
    BY <1>2, <2>3
<1>8. CASE Turn \/ Rewrite \/ Withdraw \/ Unbind
  <2>1. Asked
    BY <1>8 DEF Turn, Rewrite, Withdraw, Unbind, Asked, store
  <2> QED
    BY <1>2, <2>1
<1> QED
  BY <1>3, <1>4, <1>5, <1>6, <1>7, <1>8 DEF Next

\* However the runs are interleaved with edits, reviews and kills, a run that
\* ends has a conflict row for every confirmed claim its drifts contradicted.
THEOREM DriftIsFiled ==
    Spec => [](\A w \in Runner : cmd[w].at \in {"delta", "charge", "done"} =>
                   cmd[w].judged \subseteq Range(conflicts))
<1>1. Inv => \A w \in Runner : cmd[w].at \in {"delta", "charge", "done"} =>
                 cmd[w].judged \subseteq Range(conflicts)
  BY DEF Inv, Knows, Worker
<1> QED
  BY <1>1, Invariant, PTL

\* And while one process runs the probes at a time, it has only one: what
\* _record_conflicts found no open conflict about has none when it is inserted.
THEOREM DriftFiledOnce ==
    ASSUME OneRunner
    PROVE  Spec => []DriftIsFiledOnce
<1>1. Init => OnceInv
  <2>1. SUFFICES ASSUME Init
                 PROVE  OnceInv
    OBVIOUS
  <2>2. DOMAIN conflicts = {} /\ \A w \in Worker : cmd[w].absent = {}
    <3>1. conflicts = <<>> /\ cmd = [w \in Worker |-> Idle]
      BY <2>1 DEF Init
    <3>2. Idle.absent = {}
      BY DEF Idle
    <3>3. DOMAIN conflicts = {}
      BY <3>1
    <3> QED
      BY <3>1, <3>2, <3>3
  <2> QED
    BY <2>2 DEF OnceInv, IsInjective, Worker
<1>2. Inv /\ OnceInv /\ [Next]_vars => OnceInv'
  <2>1. ASSUME Inv, OnceInv, UNCHANGED vars
        PROVE  OnceInv'
    BY <2>1 DEF OnceInv, vars, store, IsInjective
  <2> QED
    BY <2>1, OnceStep
<1>3. Inv /\ OnceInv => DriftIsFiledOnce
  BY DEF Inv, Knows, Worker, OnceInv, DriftIsFiledOnce
<1> QED
  BY <1>1, <1>2, <1>3, Invariant, PTL DEF Spec
=============================================================================
