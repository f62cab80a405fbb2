------------------------------ MODULE Harvest ------------------------------
(***************************************************************************)
(* `adopt harvest`, run beside the commands of ReviewQueue over the same    *)
(* store: local git history becomes decision candidates, unverified items   *)
(* that a person then confirms, edits or rejects in the review queue.       *)
(*                                                                         *)
(* A run reads the history and then everything comparative, writes each     *)
(* candidate in a transaction of its own, and opens one batch for all of    *)
(* them in a last one.  What makes it repeatable is the `commit` provenance *)
(* of a candidate's first revision, which names the commit; here a mined    *)
(* item's `doc` is that commit, and a commit's message stands for its sha.  *)
(***************************************************************************)
EXTENDS ReviewQueue, SequencesExt

CONSTANTS
    Miner,          \* processes running `adopt harvest`
    History,        \* the commits of the working copy, oldest first
    Commit,         \* what git log says of each: see CommitLine
    Manifests,      \* paths that are dependency manifests
    Configs,        \* paths that are configuration files
    DecisionLogs,   \* paths under an ADR directory, and changelogs
    SourcePaths,    \* the paths each identity was recorded at
    MaxHarvests     \* bound: harvests started in all

Path == UNION {Commit[c].files : c \in DOMAIN Commit}

\* One line of the log, as _parse_one reads it.
CommitLine == [message : Text, parents : Nat, reverts : BOOLEAN, body : BOOLEAN,
               files : SUBSET Path]

ASSUME HistoryAssumption ==
    /\ DOMAIN Commit \subseteq Doc
    /\ Commit \in [DOMAIN Commit -> CommitLine]
    /\ History \in Seq(DOMAIN Commit)
    /\ \A m, n \in DOMAIN History : History[m] = History[n] => m = n
    /\ \A n \in DOMAIN Docs : Docs[n] \notin DOMAIN Commit
    /\ DOMAIN SourcePaths = Ref
ASSUME HarvestsAssumption == MaxHarvests \in Nat

VARIABLES
    mining,   \* mining[m]: the run m is in, and what it read
    started,  \* how many harvests have been started
    ended,    \* history: commits of the runs that ran to their end
    lost      \* history: items whose run ended before it queued them

harvestVars == <<mining, started, ended, lost>>
allVars     == <<item, link, ident, queue, job, issued, mining, started, ended, lost>>

Mined(i) == Created(i) /\ item[i].doc \in DOMAIN Commit

-----------------------------------------------------------------------------
(* From commits to candidates *)

\* Every reason a commit qualifies.
SignalsOf(line) ==
    {s \in {"revert", "merge", "decision_record", "dependency", "config", "rationale"} :
        CASE s = "revert"          -> line.reverts
          [] s = "merge"           -> line.parents > 1
          [] s = "decision_record" -> line.files \cap DecisionLogs # {}
          [] s = "dependency"      -> line.files \cap Manifests # {}
          [] s = "config"          -> line.files \cap (Configs \ Manifests) # {}
          [] s = "rationale"       -> line.body}

IsCandidate(c) == SignalsOf(Commit[c]) # {}

\* Where git log since..HEAD finds commits with a signal.
CandidatesIn(since, head) == {n \in since + 1 .. head : IsCandidate(History[n])}

\* The log lists the newest commit first.
Newest(S) == CHOOSE n \in S : \A k \in S : k <= n

\* The identities a touched path may mean: the ones recorded at that very path,
\* or, when there is none, at a longer path that ends with it.
PathCandidates(path, active) ==
    LET exact == {d \in active : path \in SourcePaths[d]}
    IN  IF exact # {} THEN exact
        ELSE {d \in active : \E s \in SourcePaths[d] : s # path /\ IsSuffix(path, s)}

\* A path that may mean several identities says nothing of any.
PathMatches(files, active) ==
    {d \in active : \E path \in files : PathCandidates(path, active) = {d}}

-----------------------------------------------------------------------------
(* adopt harvest --since *)

Mining(m, where) == mining[m].at = where

\* Mutated form: only the head's provenance is read.
HarvestedAtHead(c) ==
    LET mine == {i \in Item : Created(i) /\ item[i].doc = c /\ HeadOf(i) = 1}
    IN  IF mine = {} THEN 0 ELSE CHOOSE i \in mine : \A j \in mine : i <= j

\* The item a commit was mined into, whatever has been appended to it since.
HarvestedAs(c) ==
    LET mine == {i \in Item : Created(i) /\ item[i].doc = c}
    IN  IF mine = {} THEN 0 ELSE CHOOSE i \in mine : \A j \in mine : i <= j

HarvestStart(m) ==
    /\ Mining(m, "idle")
    /\ started < MaxHarvests
    /\ started' = started + 1
    /\ \E since, head \in 0 .. Len(History) :
         /\ since < head
         /\ mining' = [mining EXCEPT ![m] =
               [at      |-> "candidates",
                range   |-> CandidatesIn(since, head),
                todo    |-> CandidatesIn(since, head),
                known   |-> [c \in DOMAIN Commit |-> HarvestedAs(c)],
                active  |-> {d \in Ref : ident[d].status = "active"},
                pairs   |-> {e \in Item \X Ref : Bound(e[1], e[2])},
                pending |-> {}]]
    /\ UNCHANGED <<storeVars, job, issued, ended, lost>>

\* A candidate is never canon: a machine's inference, verified by nobody.
CandidateRevision(c) ==
    [text |-> Commit[c].message, src |-> Commit[c].message, verified |-> FALSE,
     by |-> 0, read |-> 0]

\* Only what this run created waits for its batch.
PendingNow(j, c, i) == IF j.known[c] = 0 THEN j.pending \cup {i} ELSE j.pending

\* One candidate, in one transaction: its item unless it is known, and a binding
\* to each identity its files resolve to, known or not.
HarvestCandidate(m) ==
    LET j == mining[m]
        n == Newest(j.todo)
        c == History[n]
    IN  /\ Mining(m, "candidates")
        /\ j.todo # {}
        /\ \E i \in Item :
             /\ \/ j.known[c] = 0 /\ IsNextItem(i) /\ CreateItem(i, c, CandidateRevision(c))
                \/ j.known[c] = i /\ UNCHANGED item
             /\ Bind(i, {d \in PathMatches(Commit[c].files, j.active) :
                            <<i, d>> \notin j.pairs}, TRUE)
             /\ mining' = [mining EXCEPT ![m].todo = @ \ {n},
                                         ![m].pending = PendingNow(j, c, i)]
        /\ UNCHANGED <<ident, queue, job, issued, started, ended, lost>>

\* Mutated form: a run that met a known candidate opens no batch.
BatchOfFreshRuns(j) ==
    IF \E n \in j.range : j.known[History[n]] # 0 THEN {} ELSE j.pending

BatchOf(j) == j.pending

\* One batch for the whole run, in a transaction after the last candidate's.
HarvestQueue(m) ==
    LET j == mining[m]
    IN  /\ Mining(m, "candidates")
        /\ j.todo = {}
        /\ IF BatchOf(j) = {} THEN UNCHANGED queue
           ELSE OpenBatch("ingest-unverified", NoClass, [i \in BatchOf(j) |-> 1])
        /\ mining' = [mining EXCEPT ![m] = Idle]
        /\ ended' = ended \cup {History[n] : n \in j.range}
        /\ UNCHANGED <<item, link, ident, job, issued, started, lost>>

\* A run that is refused or killed leaves the transactions it committed.
HarvestAbandon(m) ==
    /\ ~Mining(m, "idle")
    /\ mining' = [mining EXCEPT ![m] = Idle]
    /\ lost' = lost \cup mining[m].pending
    /\ UNCHANGED <<storeVars, job, issued, started, ended>>

-----------------------------------------------------------------------------

HarvestInit ==
    /\ Init
    /\ mining = [m \in Miner |-> Idle]
    /\ started = 0
    /\ ended = {}
    /\ lost = {}

HarvestNext ==
    \/ Next /\ UNCHANGED harvestVars
    \/ \E m \in Miner :
         \/ HarvestStart(m)
         \/ HarvestCandidate(m)
         \/ HarvestQueue(m)
         \/ HarvestAbandon(m)

HarvestSpec == HarvestInit /\ [][HarvestNext]_allVars

-----------------------------------------------------------------------------
(* Properties *)

\* Every candidate is in the queue, or its run is still going, or its run was
\* cut short: no run that reaches its end leaves one out.
CandidatesReachReview ==
    \A i \in Item :
        Mined(i) =>
            \/ \E b \in DOMAIN queue : i \in Members(b)
            \/ \E m \in Miner : ~Mining(m, "idle") /\ i \in mining[m].pending
            \/ i \in lost

-----------------------------------------------------------------------------
(* What the tests say and the code does not do *)

\* test_write_atomicity: "One logical write is one transaction, and a retry
\* after a failure completes it" - so once a harvest of a commit has run to its
\* end, the commit's candidate is in front of a reviewer.
RetryCompletes ==
    \A i \in Item :
        Mined(i) /\ item[i].doc \in ended =>
            \E b \in DOMAIN queue : i \in Members(b)
=============================================================================
