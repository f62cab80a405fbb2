------------------------------ MODULE MapRefresh ------------------------------
(***************************************************************************)
(* adopt map and adopt refresh over one repository: extractors see           *)
(* referents, the map observes them and records moves in transactions of     *)
(* its own, the diff classifies what changed against the identities read     *)
(* before the run, and one transaction records the conclusion.  The file     *)
(* snapshot is saved after it.                                              *)
(*                                                                         *)
(* Somebody edits the repository, upgrades the tool, and kills runs, between *)
(* any two of these steps.  A pack holds one extractor.                      *)
(***************************************************************************)
EXTENDS Naturals, Sequences, FiniteSets, FiniteSetsExt

CONSTANTS
    Operator,       \* processes that run adopt map or adopt refresh
    Uri,            \* addresses of referents, all of one kind
    LoadBearing,    \* the addresses a load-bearing link is bound to
    Place,          \* what the repository may declare: <<uri, extractor, file>>
    Attr,           \* attributes a declaration may have, positive numbers
    Exercises,      \* the addresses the one probe exercises
    Faults,         \* what a run may suffer: "failed", "unselected", "oversized", "killed"
    Found,          \* the trees the repository may start from
    MaxEdits,       \* bound: edits of the repository
    MaxRuns,        \* bound: runs started
    MaxFaults,      \* bound: how often one of the faults happens
    MaxVersion      \* bound: versions of the tool

Extractor == {p[2] : p \in Place}          \* numbers, in the order the packs run
File      == {p[3] : p \in Place}          \* numbers, in the order of the walk

ASSUME MapRefreshAssumption ==
    /\ Place \subseteq Uri \X (Nat \ {0}) \X (Nat \ {0}) /\ IsFiniteSet(Place)
    /\ Attr \subseteq Nat \ {0}
    /\ LoadBearing \subseteq Uri /\ Exercises \subseteq Uri
    /\ Found \subseteq [Place -> Attr \cup {0}]
    /\ MaxEdits \in Nat /\ MaxRuns \in Nat /\ MaxFaults \in Nat /\ MaxVersion \in Nat \ {0}

VARIABLES
    tree,       \* the attributes declared at each place, 0 where nothing is
    stamp,      \* the bytes of each file, as the number of its edits
    version,    \* the version of every extractor
    ident,      \* the identity rows with the two readings of their chains
    snapshot,   \* the file snapshot of the last refresh
    link,       \* "active" or "stale", for each load-bearing link
    queue,      \* what was put before a reviewer: <<uri, class>>
    job,        \* what each process is doing
    runs,       \* runs started
    faults,     \* faults suffered
    lost,       \* history: addresses some declaration of which was removed
    edited,     \* history: <<uri, extractor>> edited since the digest was extracted
    settled     \* history: nothing happened since a refresh that examined everything

store   == <<ident, link, queue>>
history == <<lost, edited>>
vars    == <<tree, stamp, version, snapshot, job, runs, faults, settled, store, history>>

-----------------------------------------------------------------------------
(* Rows *)

Digest == [ext : Extractor, ver : 1 .. MaxVersion, attr : Attr]
NoDigest == [ext |-> 0, ver |-> 0, attr |-> 0]
\* The terminal draft of an identity writes its reason where a digest goes.
Reason == [ext |-> 0, ver |-> 0, attr |-> 1]

\* status: of the head.  digest, path: of the latest revision that carries one.
IdentRow == [status : {"none", "active", "moved", "dead"},
             digest : Digest \cup {NoDigest, Reason},
             path   : File \cup {0},
             alias  : Uri \cup {"none"}]

NoIdent  == [status |-> "none", digest |-> NoDigest, path |-> 0, alias |-> "none"]
Sighting == [uri : Uri, ext : Extractor, path : File, digest : Digest]

Dead      == "BINDING_DEAD"
Moved     == "BINDING_MOVED"
Semantics == "BINDING_INTACT_SEMANTICS_CHANGED"
Render    == "BINDING_INTACT_RENDER_ONLY"
New       == "UNBOUND_NEW"
ImpactClass == {Dead, Moved, Semantics, Render, New}

NoSnapshot == [f \in File |-> MaxEdits + 1]

\* todo: the packs to be written.
Idle == [verb |-> "none", at |-> "idle", before |-> [u \in Uri |-> NoIdent], prev |-> NoSnapshot,
         hashed |-> NoSnapshot, seen |-> {}, ran |-> {}, todo |-> {}, failed |-> {},
         oversized |-> {}]

TypeOK ==
    /\ tree \in [Place -> Attr \cup {0}]
    /\ stamp \in [File -> 0 .. MaxEdits]
    /\ version \in 1 .. MaxVersion
    /\ ident \in [Uri -> IdentRow]
    /\ snapshot \in [File -> 0 .. MaxEdits + 1]
    /\ link \in [LoadBearing -> {"active", "stale"}]
    /\ queue \subseteq LoadBearing \X ImpactClass
    /\ \A o \in Operator :
          /\ job[o].before \in [Uri -> IdentRow]
          /\ job[o].seen \subseteq Sighting
          /\ job[o].failed \cup job[o].todo \subseteq job[o].ran

Init ==
    /\ tree \in Found
    /\ stamp = [f \in File |-> 0]
    /\ version = 1
    /\ ident = [u \in Uri |-> NoIdent]
    /\ snapshot = NoSnapshot
    /\ link = [u \in LoadBearing |-> "active"]
    /\ queue = {}
    /\ job = [o \in Operator |-> Idle]
    /\ runs = 0
    /\ faults = 0
    /\ lost = {}
    /\ edited = {}
    /\ settled = FALSE

-----------------------------------------------------------------------------
(* The repository and the tool *)

\* Nothing reads the repository after the extraction: an edit during the writes
\* that follow is one after them.
Readable == \A o \in Operator : job[o].at \in {"idle", "extract"}

Edits == MapThenSumSet(LAMBDA f : stamp[f], File)

Edit(p, attr) ==
    /\ Readable /\ Edits < MaxEdits
    /\ tree[p] # attr
    /\ tree' = [tree EXCEPT ![p] = attr]
    /\ stamp' = [stamp EXCEPT ![p[3]] = @ + 1]
    /\ lost' = IF attr = 0 THEN lost \cup {p[1]} ELSE lost
    /\ edited' = edited \cup {<<p[1], p[2]>>}
    /\ settled' = FALSE
    /\ UNCHANGED <<version, snapshot, job, runs, faults, store>>

Reformat(f) ==
    /\ Readable /\ Edits < MaxEdits
    /\ stamp' = [stamp EXCEPT ![f] = @ + 1]
    /\ settled' = FALSE
    /\ UNCHANGED <<tree, version, snapshot, job, runs, faults, store, history>>

Upgrade ==
    /\ Readable /\ version < MaxVersion
    /\ version' = version + 1
    /\ settled' = FALSE
    /\ UNCHANGED <<tree, stamp, snapshot, job, runs, faults, store, history>>

-----------------------------------------------------------------------------
(* Reading, hashing, extracting *)

\* Everything comparative is read before the run, and the files are hashed
\* before an extractor opens them.
Begin(o, verb, ran) ==
    /\ job[o].at = "idle"
    /\ runs < MaxRuns
    /\ runs' = runs + 1
    /\ faults' = IF ran = Extractor THEN faults ELSE faults + 1
    /\ job' = [job EXCEPT ![o] = [Idle EXCEPT !.verb = verb, !.at = "extract", !.ran = ran,
                                              !.todo = ran, !.before = ident,
                                              !.prev = snapshot, !.hashed = stamp]]
    /\ UNCHANGED <<tree, stamp, version, snapshot, settled, store, history>>

\* observe_tree: an extractor that raises costs its own observations, a file over
\* the cap those in it.
Sightings(ran, oversized) ==
    {[uri |-> p[1], ext |-> p[2], path |-> p[3],
      digest |-> [ext |-> p[2], ver |-> version, attr |-> tree[p]]] :
        p \in {q \in Place : tree[q] # 0 /\ q[2] \in ran /\ q[3] \notin oversized}}

Extract(o, failed, oversized) ==
    /\ job[o].at = "extract"
    /\ failed \subseteq job[o].ran
    /\ job' = [job EXCEPT ![o].at = "observe",
                          ![o].failed = failed,
                          ![o].oversized = oversized,
                          ![o].seen = Sightings(job[o].ran \ failed, oversized)]
    /\ faults' = IF failed \cup oversized = {} THEN faults ELSE faults + 1
    /\ UNCHANGED <<tree, stamp, version, snapshot, runs, settled, store, history>>

\* Sightings of one address; the last is the one the diff keeps.
At(r, u)     == {s \in r.seen : s.uri = u}
Before(s, t) == s.ext < t.ext \/ (s.ext = t.ext /\ s.path <= t.path)
First(S)     == CHOOSE s \in S : \A t \in S : Before(s, t)
Last(S)      == CHOOSE s \in S : \A t \in S : Before(t, s)
Seen(r)      == {s.uri : s \in r.seen}
Known(row)   == row.status # "none"
Live(row)    == row.status = "active"

\* IdentityFacade.observe: a known referent is only touched, a new one is created
\* with the digest of its first sighting.
Observed(u, pack) ==
    LET mine == {s \in pack : s.uri = u}
    IN  IF Known(ident[u]) \/ mine = {} THEN ident[u]
        ELSE [NoIdent EXCEPT !.status = "active", !.digest = First(mine).digest,
                             !.path = First(mine).path]

\* One transaction per pack.
ObservePack(o, x) ==
    /\ job[o].at = "observe"
    /\ x \in job[o].todo /\ \A y \in job[o].todo : x <= y
    /\ ident' = [u \in Uri |-> Observed(u, {s \in job[o].seen : s.ext = x})]
    /\ edited' = {e \in edited : ident'[e[1]] = ident[e[1]]}
    /\ job' = [job EXCEPT ![o].at = IF job[o].todo = {x} THEN "moves" ELSE "observe",
                          ![o].todo = @ \ {x}]
    /\ UNCHANGED <<tree, stamp, version, snapshot, runs, faults, settled,
                   link, queue, lost>>

-----------------------------------------------------------------------------
(* detect_moves, over what a run read before it started and what it saw *)

Disappeared(r) ==
    {u \in Uri \ Seen(r) : Live(r.before[u]) /\ r.before[u].digest # NoDigest}
Appeared(r) == {u \in Seen(r) : ~Known(r.before[u])}

\* The pairing key: the digest and the extractor (of one kind, here).
Gone(r, d)    == {u \in Disappeared(r) : r.before[u].digest = d}
Arrived(r, d) == {u \in Appeared(r) : Last(At(r, u)).digest = d}

\* Mutated form: a referent that disappeared takes the arrivals that share its digest.
MovesShared(r) ==
    {m \in Disappeared(r) \X Appeared(r) : m[2] \in Arrived(r, r.before[m[1]].digest)}

\* Exactly one gone and exactly one arrived, or nothing is paired.
Moves(r) ==
    {m \in Disappeared(r) \X Appeared(r) :
        LET d == r.before[m[1]].digest
        IN  Gone(r, d) = {m[1]} /\ Arrived(r, d) = {m[2]}}

MovedFrom(r) == {m[1] : m \in Moves(r)}
MovedTo(r)   == {m[2] : m \in Moves(r)}
MoveOf(r, u) == CHOOSE m \in Moves(r) : m[1] = u

\* _record_moves: the old identity gets a moved revision naming the new one.
RecordMoves(o) ==
    /\ job[o].at = "moves"
    /\ ident' = [u \in Uri |->
                    IF u \in MovedFrom(job[o])
                    THEN [ident[u] EXCEPT !.status = "moved", !.alias = MoveOf(job[o], u)[2]]
                    ELSE ident[u]]
    /\ job' = [job EXCEPT ![o] = IF @.verb = "map" THEN Idle ELSE [@ EXCEPT !.at = "conclude"]]
    /\ UNCHANGED <<tree, stamp, version, snapshot, runs, faults, settled, link, queue, history>>

-----------------------------------------------------------------------------
(* compute: the five-class cascade *)

StoredLive(r) == {u \in Uri : Live(r.before[u])} \ MovedFrom(r)

\* Mutated form: only an extractor that crashed excuses an absence.
ExemptCrashed(r, u) == r.before[u].digest.ext \in r.failed

\* _exemption_for: the referent was absent and not examined.
Exempt(r, u) ==
    \/ r.before[u].digest.ext \in r.failed
    \/ r.before[u].digest.ext \notin r.ran
    \/ r.before[u].path \in r.oversized

DeadOf(r) == {u \in StoredLive(r) \ Seen(r) : ~Exempt(r, u)}

\* Mutated form: the kept sighting is compared, whichever extractor made it.
CounterpartKept(r, u) == {Last(At(r, u))}

\* _counterpart: the sighting a stored digest is compared with, if there is one.
Counterpart(r, u) ==
    LET x    == r.before[u].digest.ext
        same == {s \in At(r, u) : s.ext = x}
    IN  IF x = 0 THEN {Last(At(r, u))} ELSE IF same = {} THEN {} ELSE {Last(same)}

\* The fence: the same instrument saw the referent before and now.
Comparable(r, u) == \E s \in Counterpart(r, u) : s.digest.ver = r.before[u].digest.ver

Same(r, u) == \E s \in Counterpart(r, u) : s.digest = r.before[u].digest

SemanticOf(r) ==
    {u \in StoredLive(r) \cap Seen(r) :
        r.before[u].digest # NoDigest /\ Comparable(r, u) /\ ~Same(r, u)}

\* Re-recorded and never judged: another instrument, or another sighting is kept.
Rebaselined(r) ==
    {u \in StoredLive(r) \cap Seen(r) :
        \/ ~Comparable(r, u)
        \/ Same(r, u) /\ Counterpart(r, u) # {Last(At(r, u))}}

NewOf(r) == {u \in Seen(r) : ~Known(r.before[u])} \ MovedTo(r)

\* Files whose bytes differ from the snapshot, when there is one.
ChangedPaths(r) == {f \in File : r.prev # NoSnapshot /\ r.prev[f] # r.hashed[f]}

\* Where the entries so far say their referent is: in the kept sighting's file, or,
\* if it is gone, in the stored one.
SemanticPaths(r) ==
    {Last(At(r, u)).path : u \in SemanticOf(r) \cup Rebaselined(r) \cup NewOf(r)}
        \cup {r.before[u].path : u \in DeadOf(r) \cup MovedFrom(r)}

\* Grouped by the file the stored digest was read from.
RenderOf(r) ==
    {u \in Seen(r) : /\ Live(r.before[u])
                     /\ r.before[u].path \in ChangedPaths(r) \ SemanticPaths(r)}

Changes(r) ==
    (DeadOf(r) \X {Dead}) \cup (MovedFrom(r) \X {Moved}) \cup (SemanticOf(r) \X {Semantics})
        \cup (NewOf(r) \X {New}) \cup (RenderOf(r) \X {Render})

\* What the UNIQUE index on (event, identity) accepts.
OncePerReferent(S) == \A a, b \in S : a[1] = b[1] => a = b

-----------------------------------------------------------------------------
(* record_refresh *)

\* probe_delta: a drift is about the referents the probe exercises that exist and
\* did not just die.  The probes write nothing the refresh reads.
ProbeEntries(r, drifted) ==
    IF drifted THEN {u \in Exercises : Known(ident[u])} \ DeadOf(r) ELSE {}

\* RevisionWriter.retire and record_digest both append over whatever head the
\* transaction finds.
Retired(row) == [row EXCEPT !.status = "dead", !.digest = Reason, !.path = 0]

Redigested(row, s) == [row EXCEPT !.status = "active", !.digest = s.digest, !.path = s.path]

\* Mutated form: a judged digest is not recorded, only a re-baselined one.
RerecordedUnjudged(r) == Rebaselined(r)

Rerecorded(r) == SemanticOf(r) \cup Rebaselined(r)

\* Mutated form: only what the map diff found is put before a reviewer.
QueuedFromDiff(r, entries) ==
    {c \in Changes(r) : c[1] \in LoadBearing /\ c[2] \in {Dead, Moved, Semantics}}

\* _queue_entries: both halves, for the load-bearing links.
Queued(r, entries) ==
    {c \in Changes(r) \cup (entries \X {Semantics}) :
        c[1] \in LoadBearing /\ c[2] \in {Dead, Moved, Semantics}}

Conclude(o, drifted) ==
    LET r == job[o] IN
    /\ r.at = "conclude"
    /\ OncePerReferent(Changes(r))
    /\ ident' = [u \in Uri |->
                    CASE u \in DeadOf(r) -> Retired(ident[u])
                      [] u \in Rerecorded(r) -> Redigested(ident[u], Last(At(r, u)))
                      [] OTHER -> ident[u]]
    /\ link' = [u \in LoadBearing |->
                    IF u \in SemanticOf(r) \cup ProbeEntries(r, drifted) THEN "stale" ELSE link[u]]
    /\ queue' = queue \cup Queued(r, ProbeEntries(r, drifted))
    /\ edited' = {e \in edited : e[1] \notin Rerecorded(r)}
    /\ job' = [job EXCEPT ![o].at = "snapshot"]
    /\ settled' = FALSE
    /\ UNCHANGED <<tree, stamp, version, snapshot, runs, faults, lost>>

\* A second classification of one referent is refused and the transaction rolled
\* back: the command ends here.
ConclusionRefused(o) ==
    /\ job[o].at = "conclude"
    /\ ~OncePerReferent(Changes(job[o]))
    /\ job' = [job EXCEPT ![o] = Idle]
    /\ UNCHANGED <<tree, stamp, version, snapshot, runs, faults, settled, store, history>>

Whole(r) == r.ran = Extractor /\ r.failed = {} /\ r.oversized = {}

\* After the commit, never before.
SaveSnapshot(o) ==
    /\ job[o].at = "snapshot"
    /\ snapshot' = job[o].hashed
    /\ settled' = (/\ Whole(job[o])
                   /\ job[o].hashed = stamp
                   /\ \A s \in job[o].seen : s.digest.ver = version)
    /\ job' = [job EXCEPT ![o] = Idle]
    /\ UNCHANGED <<tree, stamp, version, runs, faults, store, history>>

MayFail(kind) == kind \in Faults /\ faults < MaxFaults

Kill(o) ==
    /\ MayFail("killed")
    /\ job[o].at # "idle"
    /\ job' = [job EXCEPT ![o] = Idle]
    /\ faults' = faults + 1
    /\ UNCHANGED <<tree, stamp, version, snapshot, runs, settled, store, history>>

-----------------------------------------------------------------------------

Selections == IF MayFail("unselected") THEN SUBSET Extractor \ {{}} ELSE {Extractor}

\* At most one extractor crashes, or one file has grown over the cap.
Mishaps ==
    {<<{}, {}>>}
        \cup {<<{x}, {}>> : x \in {y \in Extractor : MayFail("failed")}}
        \cup {<<{}, {f}>> : f \in {g \in File : MayFail("oversized")}}

Run(o) ==
    \/ \E verb \in {"map", "refresh"}, ran \in Selections : Begin(o, verb, ran)
    \/ \E mishap \in Mishaps : Extract(o, mishap[1], mishap[2])
    \/ \E x \in Extractor : ObservePack(o, x)
    \/ RecordMoves(o)
    \/ \E drifted \in BOOLEAN : Conclude(o, drifted)
    \/ ConclusionRefused(o)
    \/ SaveSnapshot(o)
    \/ Kill(o)

Next ==
    \/ \E p \in Place, attr \in Attr \cup {0} : Edit(p, attr)
    \/ \E f \in File : Reformat(f)
    \/ Upgrade
    \/ \E o \in Operator : Run(o)

Spec == Init /\ [][Next]_vars

-----------------------------------------------------------------------------
(* Properties *)

\* "Absence is not death" (diff.py): an identity is dead only if a declaration of
\* its referent was removed at some time.  A crash of its extractor, a pack that
\* did not run, a file over the cap and an upgrade never kill one.
DeadWasGone ==
    \A u \in Uri : ident[u].status = "dead" => u \in lost

\* "Its file was skipped -- the walk's size cap means the file was never read.
\* Exempt by path" (diff.py): no identity leaves the map, by death or by a move,
\* while its declarations are all in place.
GoneWasGone ==
    \A u \in Uri : ident[u].status \in {"dead", "moved"} => u \in lost

\* A referent is judged changed only if its recording extractor's declaration was
\* edited after the extraction its digest came from: neither an upgrade, nor a
\* second extractor, nor a run that saw only part of the tree changes anything
\* ("comparing across them reports a change on every run", _counterpart).
OnlyEditsAreChanges ==
    \A o \in Operator :
        job[o].at = "conclude" =>
            \A u \in SemanticOf(job[o]) :
                <<u, job[o].before[u].digest.ext>> \in edited

\* A refresh that examined an unchanged tree after one that did has nothing to
\* say: no class, no cosmetic edit, and nothing staled (the clean-run promise of
\* record_refresh; "one edit reported at every subsequent refresh" in moves.py).
NextRefresh ==
    [Idle EXCEPT !.ran = Extractor, !.before = ident, !.prev = snapshot, !.hashed = stamp,
                 !.seen = Sightings(Extractor, {})]

SecondRefreshIsClean ==
    settled => Changes(NextRefresh) = {}

\* The alias of a moved referent leads to one that did not move, and no two moved
\* referents share a destination: a guessed pairing would be a permanent alias
\* between unrelated referents (moves.py).
AliasesLead ==
    LET moved == {u \in Uri : ident[u].status = "moved"}
    IN  /\ \A u, w \in moved : ident[u].alias = ident[w].alias => u = w
        /\ \A S \in SUBSET moved : S # {} => {ident[u].alias : u \in S} # S

\* A link the refresh staled, for an edited file or a drifted probe, is in front of
\* a reviewer: "knowledge staled with no queue entry explaining why is rot the
\* product created itself" (_refresh_support.py).
StaleIsExplained ==
    \A u \in LoadBearing : link[u] = "stale" => <<u, Semantics>> \in queue

\* "Calling it cosmetic too would classify one referent twice in one run, which
\* the UNIQUE index on (event, identity) would refuse anyway" (diff.py): the entries
\* a run hands to record_refresh name each referent once.
EachReferentOnce ==
    \A o \in Operator : job[o].at = "conclude" => OncePerReferent(Changes(job[o]))

=============================================================================
