------------------------------ MODULE Questions ------------------------------
(***************************************************************************)
(* Questions and what they rest on: adopt ask over the derived search       *)
(* index (adopt-ask, adopt-store annex), the freshness resolved for every   *)
(* candidate (adopt-freshness), the escalation an answer may open and the   *)
(* confirmed item an answer to it becomes, what adopt pack reads of the     *)
(* same tables, and the coverage verdicts with the cache that adopt answer  *)
(* and the other commands keep (adopt-coverage, adopt-cli).                 *)
(*                                                                         *)
(* Each query and each transaction of a command is a step; two commands    *)
(* interleave between them, and either may be killed there.                *)
(***************************************************************************)
EXTENDS Naturals, Sequences, FiniteSets, SequencesExt, FiniteSetsExt

CONSTANTS
    Asker,      \* processes that run adopt ask
    Operator,   \* processes that answer, edit, dispose of gaps, and rebuild
    Identity,   \* referents; a question or a text names one by its URI
    Question,   \* records [terms, uris]
    Texts,      \* the texts one can write: records [terms, names], its words and
                \* the referents identities_to_bind finds in it
    UriTerms,   \* the words of a URI: [Identity -> set of terms]
    Declared,   \* whether a boundary is declared at first: a set of Booleans
    Unwrapped,  \* the ways `adopt map` may change an identity's status
    First,      \* what the first item may be: [verification, text, fresh, identity]
    Dispositions, \* what becomes of a gap: acknowledged, resolved, waived
    TopK,       \* ASK_TOP_K
    MaxItems, MaxRevs, MaxLinks, MaxEdits, MaxEscalations

Process == Asker \cup Operator

VARIABLES
    items,       \* knowledge_item and its chain of revisions
    links,       \* binding with its head status
    status,      \* the head status of every identity
    sensors,     \* the scope's sensors: health, and whether a heartbeat is late
    conflicts,   \* open conflict rows: the revision a drifted probe contradicts
    boundary,    \* whether an observability boundary is declared
    cache,       \* identity.covered_cache: the identities cached as covered
    index,       \* ask_passage and ask_index_stamp
    escalations, \* escalation rows
    gaps,        \* coverage_gap: the disposition of an identity's gap
    cmd,         \* what each process is doing
    settled,     \* history: disagreements older than every running command
    edits        \* edits and kills so far

canon == <<items, links, status, sensors, conflicts, boundary>>
vars  == <<canon, cache, index, escalations, gaps, cmd, settled, edits>>

NoAnswer == [branch |-> "none", cited |-> <<>>, cause |-> "none", withheld |-> 0,
             prose |-> {}]
EmptyPack == [live |-> {}, gaps |-> {}, contradicted |-> {}, stale |-> {}]
Idle == [at |-> "idle", verb |-> "", question |-> 0, begun |-> <<>>, stamp |-> <<0, 0>>,
         rows |-> {}, found |-> <<>>, said |-> NoAnswer, edit |-> <<>>,
         escalation |-> 0, disagreed |-> {}, verdict |-> {}, pack |-> EmptyPack]

Revision(v, terms) == [verification |-> v, terms |-> terms]

SensorRow(health) == [health |-> health, late |-> FALSE]

-----------------------------------------------------------------------------
(* Coverage: recompute_coverage, the authority over the cache.              *)

HeadOf(k) == Last(items[k].revs)

LinkBlocks(l) ==
    \/ links[l].status = "retired"
    \/ items[links[l].item].fresh = "retired"
    \/ ~items[links[l].item].tagged
    \/ HeadOf(links[l].item).verification # "verified"

Covered(i) ==
    /\ status[i] = "active"
    /\ boundary
    /\ \E l \in DOMAIN links : links[l].identity = i /\ ~LinkBlocks(l)

Recomputed    == {i \in Identity : Covered(i)}
Disagreements == {i \in Identity : (i \in cache) # (i \in Recomputed)}

\* rank_gaps: the live identities that are not covered.
Gaps == {i \in Identity : status[i] = "active" /\ ~Covered(i)}

-----------------------------------------------------------------------------
(* Freshness: resolve_freshness over the four levels.                       *)

\* The first load-bearing link with something against it; a superseded link
\* is passed over.
LinkRule(l) ==
    CASE status[links[l].identity] = "dead"  -> "load_bearing_identity_dead"
      [] status[links[l].identity] = "moved" -> "load_bearing_identity_moved"
      [] links[l].status = "retired"         -> "load_bearing_binding_retired"
      [] links[l].fresh \in {"stale", "observation_stale"} -> "load_bearing_binding_stale"
      [] OTHER -> "none"

Blockers(k) ==
    {l \in DOMAIN links : /\ links[l].item = k /\ links[l].bearing
                          /\ links[l].status # "moved" /\ LinkRule(l) # "none"}

\* The first unhealthy sensor; a late one is unhealthy, whatever it last said.
SensorRule ==
    LET bad == {n \in DOMAIN sensors : sensors[n].health # "HEALTHY" \/ sensors[n].late}
    IN  CASE bad = {} -> "none"
          [] bad # {} /\ sensors[Min(bad)].health # "HEALTHY" -> "sensor_health_override"
          [] OTHER -> "sensor_missed_cadence"

Resolution(state, rule) == [state |-> state, rule |-> rule]

Resolve(k) ==
    CASE items[k].fresh = "retired" -> Resolution("retired", "item_retired")
      [] items[k].fresh # "retired" /\ Blockers(k) # {} ->
            Resolution("stale", LinkRule(Min(Blockers(k))))
      [] items[k].fresh = "fresh" /\ Blockers(k) = {} /\ SensorRule # "none" ->
            Resolution("observation_stale", SensorRule)
      [] OTHER -> Resolution(items[k].fresh, "item_state")

\* contradicted_revisions: open conflicts against what is still a head.
Contradicted == {c \in conflicts : c[2] = Len(items[c[1]].revs)}

ServesAsKnown == {"fresh", "unverified"}

\* _unless_contradicted.
Freshness(passage) ==
    LET r == Resolve(passage.item)
    IN  IF <<passage.item, passage.rev>> \in Contradicted /\ r.state \in ServesAsKnown
        THEN Resolution("stale", "contradicted_by_observation") ELSE r

-----------------------------------------------------------------------------
(* The search index, derived from the store into the annex.                 *)

\* Both counts only grow, so two queries stamp the store at the first of them.
RevisionRows == UNION {{k} \X DOMAIN items[k].revs : k \in DOMAIN items}

StoreStamp == <<Cardinality(RevisionRows), Len(links)>>

Uris(k) == {links[l].identity : l \in {l \in DOMAIN links : links[l].item = k}}

Passage(k) == [item |-> k, rev |-> Len(items[k].revs), terms |-> HeadOf(k).terms, uris |-> Uris(k)]

\* The verified head of every item, the retired ones included.
HeadPassages ==
    {Passage(k) : k \in {k \in DOMAIN items : HeadOf(k).verification = "verified"}}

Words(passage) == passage.terms \cup UNION {UriTerms[i] : i \in passage.uris}

\* covers_question: at least two of the terms, and more than half of them.
CoversQuestion(passage, terms) ==
    LET required == Min({Cardinality(terms), Max({2, Cardinality(terms) \div 2 + 1})})
    IN  terms # {} /\ Cardinality(terms \cap Words(passage)) >= required

Best(passages) == SubSeq(passages, 1, Min({TopK, Len(passages)}))

\* retrieve: what the question names by URI comes first, then the text matches,
\* whose rank the model leaves open; at most TopK passages of the index.
Retrieved(q) ==
    LET named == {p \in index.passages : p.uris \cap q.uris # {}}
        match == {p \in index.passages : Words(p) \cap q.terms # {}}
    IN  {found \in SeqOf(index.passages, TopK) :
            \E front \in SetToSeqs(named), ranked \in SetToSeqs(match) :
                found = Best(front \o SelectSeq(Best(ranked),
                            LAMBDA p : p \notin named /\ CoversQuestion(p, q.terms)))}

\* compose: known only when nothing servable has gone stale.  What is cited keeps
\* the place it was found at.
Compose(found, servable) ==
    LET serve == {n \in DOMAIN found : <<found[n].item, found[n].rev>> \in servable}
        stale == {n \in serve : Freshness(found[n]).state \notin ServesAsKnown}
    IN  [branch   |-> CASE serve = {} -> "unknown"
                        [] serve # {} /\ stale = {} -> "known"
                        [] OTHER -> "stale",
         cited    |-> [n \in serve |-> <<found[n].item, found[n].rev>>],
         cause    |-> IF stale = {} THEN "none" ELSE Freshness(found[Min(stale)]).rule,
         withheld |-> Cardinality(DOMAIN found \ serve),
         prose    |-> {}]

\* guard: what would leave is an envelope of metadata, which every declared
\* boundary permits; with none declared the whole answer is refused.
Guarded == boundary

\* ground: a reply, the revisions it cites, is discarded unless it cites some
\* and only some of the permitted; one that cannot be parsed cites none.
Ground(reply, permitted) == IF reply \subseteq permitted THEN reply ELSE {}

-----------------------------------------------------------------------------
Init ==
    /\ \E first \in First :
         /\ items = <<[revs |-> <<Revision(first.verification, first.text.terms)>>,
                       fresh |-> first.fresh, tagged |-> TRUE, answers |-> 0]>>
         /\ links = <<[item |-> 1, identity |-> first.identity, bearing |-> TRUE,
                       status |-> "active", fresh |-> "unverified"]>>
    /\ status = [i \in Identity |-> "active"]
    /\ sensors = <<SensorRow("HEALTHY")>>
    /\ conflicts = {}
    /\ boundary \in Declared
    /\ cache = Recomputed
    /\ index = [stamp |-> <<0, 0>>, passages |-> {}]
    /\ escalations = <<>>
    /\ gaps = [i \in Identity |-> "open"]
    /\ cmd = [p \in Process |-> Idle]
    /\ settled = {} /\ edits = 0

\* Every action ends by leaving the rest alone, and by noting what is settled:
\* what disagreed when no command ran, and has disagreed ever since.
Others(rest) ==
    /\ UNCHANGED rest
    /\ settled' = IF \A p \in Process : cmd'[p].at = "idle" THEN Disagreements'
                  ELSE settled \cap Disagreements'

At(p, stage) == cmd[p].at = stage
Goto(p, stage) == cmd' = [cmd EXCEPT ![p].at = stage]
Heads == [k \in DOMAIN items |-> Len(items[k].revs)]

-----------------------------------------------------------------------------
(* adopt ask.                                                               *)

\* refresh: the index is rebuilt when its stamp is not the store's, or forced.
Ask(p) ==
    /\ At(p, "idle")
    /\ \E q \in DOMAIN Question, forced \in BOOLEAN :
         cmd' = [cmd EXCEPT ![p] = [Idle EXCEPT
                    !.at = IF forced \/ index.stamp # StoreStamp THEN "rows" ELSE "retrieve",
                    !.verb = "ask", !.question = q, !.begun = Heads, !.stamp = StoreStamp]]
    /\ Others(<<canon, cache, index, escalations, gaps, edits>>)

StampedLate(p) == StoreStamp

\* The stamp is the one read before the rows.
Stamped(p) == cmd[p].stamp

ReadRows(p) ==
    /\ At(p, "rows")
    /\ cmd' = [cmd EXCEPT ![p].at = "rebuild", ![p].rows = HeadPassages, ![p].stamp = Stamped(p)]
    /\ Others(<<canon, cache, index, escalations, gaps, edits>>)

\* Emptied and refilled in one annex transaction, the stamp with it.
Rebuild(p) ==
    /\ At(p, "rebuild")
    /\ index' = [stamp |-> Stamped(p), passages |-> cmd[p].rows]
    /\ cmd' = [cmd EXCEPT ![p].at = "retrieve", ![p].rows = {}, ![p].stamp = <<0, 0>>]
    /\ Others(<<canon, cache, escalations, gaps, edits>>)

Retrieve(p) ==
    /\ At(p, "retrieve")
    /\ \E found \in Retrieved(Question[cmd[p].question]) :
         cmd' = [cmd EXCEPT ![p].at = "compose", ![p].found = found, ![p].stamp = <<0, 0>>]
    /\ Others(<<canon, cache, index, escalations, gaps, edits>>)

\* verified_in_store asks canon, not the index.
Verified(passages) ==
    {<<q.item, q.rev>> : q \in {q \in passages :
        items[q.item].revs[q.rev].verification = "verified"}}

\* Revisions never change, so asking which are verified here is asking at any
\* time.  Freshness is resolved, the branch composed, and the boundary asked.
Say(p) ==
    LET said == Compose(cmd[p].found, Verified(Range(cmd[p].found)))
    IN  /\ At(p, "compose")
        /\ cmd' = [cmd EXCEPT ![p] = IF Guarded
                      THEN [cmd[p] EXCEPT !.at = "said", !.found = <<>>, !.said = said]
                      ELSE Idle]
        /\ Others(<<canon, cache, index, escalations, gaps, edits>>)

\* consented: an unknown or a stale answer on the flag or a yes, a known one
\* on the flag alone.  The question is opened in a transaction of its own.
EscalationBranch(branch) ==
    CASE branch = "unknown" -> "ungrounded"
      [] branch = "stale"   -> "stale"
      [] branch = "known"   -> "bug_report"

PriorRevision(said) == IF said.branch = "unknown" THEN <<>>
                       ELSE said.cited[Min(DOMAIN said.cited)]

EscalationRow(question, said) ==
    [question |-> question, branch |-> EscalationBranch(said.branch),
     prior |-> PriorRevision(said), status |-> "open", candidate |-> 0]

Escalate(p) ==
    /\ At(p, "said") /\ Len(escalations) < MaxEscalations
    /\ escalations' = Append(escalations, EscalationRow(cmd[p].question, cmd[p].said))
    /\ Goto(p, "render")
    /\ Others(<<canon, cache, index, gaps, edits>>)

KeepToOneself(p) ==
    /\ At(p, "said") /\ Goto(p, "render")
    /\ Others(<<canon, cache, index, escalations, gaps, edits>>)

\* synthesize: the model sees the cited passages and may cite what it likes,
\* what it remembers of other questions included; a run recorded under the
\* question and the same citations replays one of these replies.
Replies(permitted) ==
    {permitted} \cup {{r} : r \in RevisionRows}

Synthesize(p) ==
    LET permitted == Range(cmd[p].said.cited)
    IN  /\ At(p, "render") /\ permitted # {}
        /\ \E reply \in Replies(permitted) :
             cmd' = [cmd EXCEPT ![p].at = "shown", ![p].said.prose = Ground(reply, permitted)]
        /\ Others(<<canon, cache, index, escalations, gaps, edits>>)

\* Rendered, with the prose or, where no adapter is configured, without; a pack
\* is written to its files, which nothing reads.
Show(p) ==
    /\ cmd[p].at \in {"render", "shown"}
    /\ cmd' = [cmd EXCEPT ![p] = Idle]
    /\ Others(<<canon, cache, index, escalations, gaps, edits>>)

-----------------------------------------------------------------------------
(* adopt pack, which reads in this order: coverage, the confirmed heads, the *)
(* appendix, and, as each section is assembled, the freshness of its items.  *)
(* A draft's way into a pack is in Drafting.                                *)

Live == {i \in Identity : status[i] = "active"}

PackStart(p) ==
    /\ At(p, "idle")
    /\ cmd' = [cmd EXCEPT ![p] = [Idle EXCEPT !.at = "heads", !.verb = "pack", !.begun = Heads,
                                              !.verdict = Recomputed, !.pack.live = Live]]
    /\ Others(<<canon, cache, index, escalations, gaps, edits>>)

\* knowledge_heads and select: every confirmed head, of retired items too.
Selected == {k \in DOMAIN items : HeadOf(k).verification = "verified" /\ items[k].tagged}

PackHeads(p) ==
    /\ At(p, "heads")
    /\ cmd' = [cmd EXCEPT ![p].at = "appendix",
          ![p].said = [NoAnswer EXCEPT !.branch = "pack",
              !.cited = [k \in Selected |-> <<k, Len(items[k].revs)>>]]]
    /\ Others(<<canon, cache, index, escalations, gaps, edits>>)

\* build_gaps: what the recompute found uncovered, joined to what was decided.
PackGaps(uncovered) == {<<i, gaps[i]>> : i \in uncovered}

\* build_conflicts: the open ones about referents the inventory lists.
PackConflicts(live) == {c \in Contradicted : Uris(c[1]) \cap live # {}}

PackAppendix(p) ==
    /\ At(p, "appendix")
    /\ cmd' = [cmd EXCEPT ![p].at = "stamp", ![p].verdict = {},
           ![p].pack = [@ EXCEPT !.gaps = PackGaps(cmd[p].pack.live \ cmd[p].verdict),
                                 !.contradicted = PackConflicts(cmd[p].pack.live)]]
    /\ Others(<<canon, cache, index, escalations, gaps, edits>>)

\* stamp_for of a confirmed revision: stale, or fresh.
StampedStale(k) == Resolve(k).state \in {"stale", "observation_stale", "retired"}

PackStamp(p) ==
    /\ At(p, "stamp")
    /\ cmd' = [cmd EXCEPT ![p].at = "shown", ![p].pack.stale =
                  {c[1] : c \in {c \in Range(cmd[p].said.cited) : StampedStale(c[1])}}]
    /\ Others(<<canon, cache, index, escalations, gaps, edits>>)

-----------------------------------------------------------------------------
(* Commands that change what coverage reads, wrapped in                     *)
(* coverage_cache_kept_current: a recompute before the body, and, when the  *)
(* cache agreed then, a second recompute and a rebuild after it.            *)

\* answer: the escalation is looked up, whatever its status; the referents
\* the text names are found; `titled` replaces the question as the title.
Answer(p) ==
    /\ At(p, "idle") /\ Len(items) < MaxItems
    /\ \E e \in DOMAIN escalations, text \in Texts, titled \in BOOLEAN :
         LET title == IF titled THEN {} ELSE Question[escalations[e].question].terms
         IN  cmd' = [cmd EXCEPT ![p] = [Idle EXCEPT !.at = "before", !.verb = "answer",
                        !.escalation = e, !.edit = <<text.names, text.terms \cup title>>]]
    /\ Others(<<canon, cache, index, escalations, gaps, edits>>)

\* Another wrapped command: ingest, bind, a review decision, a refresh.
Edit(p) ==
    /\ At(p, "idle") /\ edits < MaxEdits
    /\ \E verb \in {"revise", "retire", "bind", "refresh"} :
         cmd' = [cmd EXCEPT ![p] = [Idle EXCEPT !.at = "before", !.verb = verb]]
    /\ edits' = edits + 1
    /\ Others(<<canon, cache, index, escalations, gaps>>)

Compare(p) ==
    /\ At(p, "before")
    /\ cmd' = [cmd EXCEPT ![p].at = "body", ![p].disagreed = Disagreements]
    /\ Others(<<canon, cache, index, escalations, gaps, edits>>)

AnyStatus(e) == escalations[e].status \in {"open", "answered"}

StillOpen(e) == escalations[e].status = "open"

\* capture_answer: item, audience, provenance, links and the escalation's
\* status in one transaction, which the status check rolls back.
Links(k, named, bearing) ==
    LET ids == SetToSeq(named)
    IN  [n \in DOMAIN ids |-> [item |-> k, identity |-> ids[n], bearing |-> bearing,
                               status |-> "active", fresh |-> "unverified"]]

\* Verified from the first, and it answers the escalation.
Captured(e, terms) ==
    [revs |-> <<Revision("verified", terms)>>, fresh |-> "unverified", tagged |-> TRUE,
     answers |-> e]

Capture(p) ==
    LET e == cmd[p].escalation
        k == Len(items) + 1
    IN  /\ At(p, "body") /\ cmd[p].verb = "answer" /\ StillOpen(e)
        /\ Len(items) < MaxItems
        /\ items' = Append(items, Captured(e, cmd[p].edit[2]))
        /\ links' = links \o Links(k, cmd[p].edit[1], TRUE)
        /\ escalations' = [escalations EXCEPT ![e].status = "answered", ![e].candidate = k]
        /\ cmd' = [cmd EXCEPT ![p].at = "after", ![p].edit = <<>>]
        /\ Others(<<status, sensors, conflicts, boundary, cache, index, gaps, edits>>)

AnswerRefused(p) ==
    /\ At(p, "body") /\ cmd[p].verb = "answer" /\ ~StillOpen(cmd[p].escalation)
    /\ cmd' = [cmd EXCEPT ![p] = Idle]
    /\ Others(<<canon, cache, index, escalations, gaps, edits>>)

\* A new head, confirmed or not, with the item restarted; or an item withdrawn.
Revise(p) ==
    /\ At(p, "body") /\ cmd[p].verb = "revise"
    /\ \E k \in DOMAIN items, v \in {"verified", "unverified"}, text \in Texts :
         /\ Len(items[k].revs) < MaxRevs
         /\ items' = [items EXCEPT ![k].revs = Append(@, Revision(v, text.terms)),
                                   ![k].fresh = "unverified"]
    /\ Goto(p, "after")
    /\ Others(<<links, status, sensors, conflicts, boundary, cache, index, escalations,
                   gaps, edits>>)

Retire(p) ==
    /\ At(p, "body") /\ cmd[p].verb = "retire"
    /\ \E k \in DOMAIN items :
         /\ items[k].fresh # "retired"
         /\ items' = [items EXCEPT ![k].revs = Append(@, Last(@)), ![k].fresh = "retired"]
    /\ Goto(p, "after")
    /\ Others(<<links, status, sensors, conflicts, boundary, cache, index, escalations,
                   gaps, edits>>)

Bind(p) ==
    /\ At(p, "body") /\ cmd[p].verb = "bind" /\ Len(links) < MaxLinks
    /\ \E k \in DOMAIN items, i \in Identity, bearing \in BOOLEAN :
         /\ i \notin Uris(k)
         /\ links' = links \o Links(k, {i}, bearing)
    /\ Goto(p, "after")
    /\ Others(<<items, status, sensors, conflicts, boundary, cache, index, escalations,
                   gaps, edits>>)

\* A refresh finds a referent gone, or changed and marks its load-bearing links.
Refresh(p) ==
    /\ At(p, "body") /\ cmd[p].verb = "refresh"
    /\ \E i \in Identity :
         \/ /\ status[i] = "active" /\ status' = [status EXCEPT ![i] = "dead"]
            /\ UNCHANGED links
         \/ /\ links' = [l \in DOMAIN links |->
                            IF links[l].identity = i /\ links[l].bearing
                               /\ links[l].status = "active"
                            THEN [links[l] EXCEPT !.fresh = "stale"] ELSE links[l]]
            /\ UNCHANGED status
    /\ Goto(p, "after")
    /\ Others(<<items, sensors, conflicts, boundary, cache, index, escalations, gaps,
                   edits>>)

\* A body with nothing to do, or whose write was refused.
Nothing(p) ==
    /\ At(p, "body") /\ cmd[p].verb # "answer" /\ Goto(p, "after")
    /\ Others(<<canon, cache, index, escalations, gaps, edits>>)

MayAlwaysRebuild(p) == cmd[p].disagreed \subseteq Identity

\* The cache is refreshed only if it agreed.
MayRebuild(p) == cmd[p].disagreed = {}

Recompute(p) ==
    /\ At(p, "after")
    /\ cmd' = [cmd EXCEPT ![p] = IF MayRebuild(p)
                                 THEN [cmd[p] EXCEPT !.at = "cache", !.verdict = Recomputed]
                                 ELSE Idle]
    /\ Others(<<canon, cache, index, escalations, gaps, edits>>)

\* rebuild_cache: every row of the recompute it was given, in one transaction.
WriteCache(p) ==
    /\ At(p, "cache")
    /\ cache' = cmd[p].verdict
    /\ cmd' = [cmd EXCEPT ![p] = Idle]
    /\ Others(<<canon, index, escalations, gaps, edits>>)

\* adopt coverage recompute --rebuild: the findings are reported, then erased.
RecomputeCommand(p) ==
    /\ At(p, "idle") /\ edits < MaxEdits /\ edits' = edits + 1
    /\ cmd' = [cmd EXCEPT ![p] = [Idle EXCEPT !.at = "cache", !.verb = "rebuild",
                                              !.verdict = Recomputed]]
    /\ Others(<<canon, cache, index, escalations, gaps>>)

\* adopt gaps: the gaps are ranked, then one is disposed of.
RankGaps(p) ==
    /\ At(p, "idle") /\ edits < MaxEdits /\ edits' = edits + 1
    /\ Gaps # {}
    /\ cmd' = [cmd EXCEPT ![p] = [Idle EXCEPT !.at = "dispose", !.verb = "gaps",
                                              !.verdict = Gaps]]
    /\ Others(<<canon, cache, index, escalations, gaps>>)

DisposeGap(p) ==
    /\ At(p, "dispose")
    /\ \E i \in cmd[p].verdict, d \in Dispositions :
         gaps' = [gaps EXCEPT ![i] = d]
    /\ cmd' = [cmd EXCEPT ![p] = Idle]
    /\ Others(<<canon, cache, index, escalations, edits>>)

-----------------------------------------------------------------------------
(* Writes of commands that are not wrapped.                                 *)

Happens == edits < MaxEdits /\ edits' = edits + 1
Aside   == UNCHANGED <<items, links, cache, index, escalations, gaps, cmd>>

\* adopt map finds a referent at another address.
MapMoves(i) ==
    /\ Happens /\ status[i] = "active"
    /\ \E s \in Unwrapped : status' = [status EXCEPT ![i] = s]
    /\ Aside /\ Others(<<sensors, conflicts, boundary>>)

\* adopt boundary --scope, in a store that was assembled without one.
DeclareBoundary ==
    /\ Happens /\ ~boundary /\ boundary' = TRUE
    /\ Aside /\ Others(<<status, sensors, conflicts>>)

HealthFor == [success |-> "HEALTHY", empty |-> "HEALTHY", failure |-> "FAILED",
              skipped |-> "DEGRADED"]

RegisterSensor ==
    /\ Happens
    /\ sensors' = Append(sensors, SensorRow("UNVERIFIED"))
    /\ Aside /\ Others(<<status, conflicts, boundary>>)

SensorHeartbeat ==
    /\ Happens
    /\ \E n \in DOMAIN sensors, outcome \in DOMAIN HealthFor :
         sensors' = [sensors EXCEPT ![n] = SensorRow(HealthFor[outcome])]
    /\ Aside /\ Others(<<status, conflicts, boundary>>)

\* A cadence is missed, or the sensor is degraded without a heartbeat.
SensorFallsSilent ==
    /\ Happens
    /\ \E n \in DOMAIN sensors :
         \/ sensors' = [sensors EXCEPT ![n].late = TRUE]
         \/ sensors' = [sensors EXCEPT ![n].health = "DEGRADED"]
    /\ Aside /\ Others(<<status, conflicts, boundary>>)

\* A probe's drift opens a conflict against a verified head.
OpenConflict(k) ==
    /\ Happens /\ HeadOf(k).verification = "verified"
    /\ conflicts' = conflicts \cup {<<k, Len(items[k].revs)>>}
    /\ Aside /\ Others(<<status, sensors, boundary>>)

Kill(p) ==
    /\ ~At(p, "idle") /\ Happens
    /\ cmd' = [cmd EXCEPT ![p] = Idle]
    /\ Others(<<canon, cache, index, escalations, gaps>>)

Next ==
    \/ \E p \in Asker : \/ Ask(p) \/ ReadRows(p) \/ Rebuild(p) \/ Retrieve(p) \/ Say(p)
                        \/ Escalate(p) \/ KeepToOneself(p) \/ Synthesize(p) \/ Show(p)
                        \/ PackStart(p) \/ PackHeads(p) \/ PackAppendix(p) \/ PackStamp(p)
    \/ \E p \in Operator : \/ Answer(p) \/ Edit(p) \/ Compare(p) \/ Capture(p)
                           \/ AnswerRefused(p) \/ Revise(p) \/ Retire(p) \/ Bind(p)
                           \/ Refresh(p) \/ Nothing(p) \/ Recompute(p) \/ WriteCache(p)
                           \/ RecomputeCommand(p) \/ RankGaps(p) \/ DisposeGap(p)
    \/ \E i \in Identity : MapMoves(i)
    \/ DeclareBoundary \/ RegisterSensor \/ SensorHeartbeat \/ SensorFallsSilent
    \/ \E k \in DOMAIN items : OpenConflict(k)
    \/ \E p \in Process : Kill(p)

Spec == Init /\ [][Next]_vars

-----------------------------------------------------------------------------
\* When one process asks at a time, an answer, the prose a model makes of it, and
\* a pack with its contradictions cite revisions that were their items' heads at some moment while they were
\* being made: an index left behind by edits, kills and other rebuilds
\* never serves text that had been replaced before the question was asked
\* (SqliteSearchRecords: the stamp is read before the rows), and neither does a
\* model that remembers such text (synthesis: "the model may not introduce
\* anything").
CitesTheHeadOfItsTime ==
    \A p \in Asker :
      \A cited \in Range(cmd[p].said.cited) \cup cmd[p].said.prose \cup cmd[p].pack.contradicted :
        cited[1] \in DOMAIN cmd[p].begun => cited[2] >= cmd[p].begun[cited[1]]

\* However many people answer one escalation at once, one captured item exists
\* for it, the one it points at, and an open escalation has none
\* (capture_answer with GovernanceFacade.answer_escalation).
AnsweredOnce ==
    \A e \in DOMAIN escalations :
        {k \in DOMAIN items : items[k].answers = e} =
            IF escalations[e].status = "answered" THEN {escalations[e].candidate} ELSE {}

\* A disagreement that was there before any running command began is erased by
\* a rebuild that reports it, never by a command that only keeps the cache
\* current (_coverage_support: "refresh only a cache that agreed").
EvidenceIsKept ==
    [][\A p \in Operator :
          WriteCache(p) /\ cmd[p].verb # "rebuild" => settled \subseteq Disagreements']_vars

\* When an ask says its piece, the escalation of the same question answered
\* before it began is answered by a known answer that cites the captured item
\* (adopt answer: "The next `adopt ask` on this question answers KNOWN").
AnsweredThenKnown ==
    \A p \in Asker, e \in DOMAIN escalations :
        /\ cmd[p].at = "said" /\ cmd[p].question = escalations[e].question
        /\ escalations[e].candidate \in DOMAIN cmd[p].begun
        => /\ cmd[p].said.branch = "known"
           /\ \E n \in DOMAIN cmd[p].said.cited :
                 cmd[p].said.cited[n][1] = escalations[e].candidate

\* What the appendix of a pack lists as contradicted is in the pack (render:
\* "confirmed statement(s) in this pack are contradicted").
ContradictionsAreInThePack ==
    \A p \in Asker : cmd[p].pack.contradicted \subseteq Range(cmd[p].said.cited)

\* With nothing running and nothing killed, the cache agrees with the
\* recompute: the product's own writes never set off the alarm.
OwnWritesAgree == (\A p \in Process : At(p, "idle")) => Disagreements = {}
=============================================================================
