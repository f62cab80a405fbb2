------------------------- MODULE ReviewQueue_proofs -------------------------
(***************************************************************************)
(* The safety of the review queue, for any number of processes, documents,  *)
(* identities, items, revisions and batches, and of the harvests beside it. *)
(*                                                                         *)
(* Inv is inductive: the types, and what a row or a running command refers  *)
(* to is there.  The other invariants are inductive relative to it.  Every  *)
(* step is then sorted by what it does to chains and queue (StepKinds), and *)
(* the promises of the queue and the refinement of the ledger follow kind   *)
(* by kind.  HarvestInv is Inv with miners, whose steps are of those kinds. *)
(*                                                                         *)
(* What a run does once over interrupted runs (one item, one question) is   *)
(* promised to one ingest and one harvest at a time; that hypothesis is in  *)
(* the theorems, as is the one about how change entries are answered.       *)
(***************************************************************************)
EXTENDS Harvest, WellFoundedInduction, TLAPS

-----------------------------------------------------------------------------
(* The greatest of a bounded set of naturals.                               *)

\* A set of naturals that has a member has a least one.
LEMMA Least ==
    ASSUME NEW S, S # {}, S \subseteq Nat
    PROVE  \E n \in S : \A m \in S : n <= m
<1> DEFINE R == OpToRel(<, Nat)
<1>1. IsWellFoundedOn(R, Nat)
  BY NatLessThanWellFounded
<1> HIDE DEF R
<1>2. PICK n \in S : \A m \in S : <<m, n>> \notin R
  BY <1>1, WFMin
<1>3. \A m \in S : ~(m < n)
  BY <1>2 DEF R, OpToRel
<1> QED
  BY <1>3

\* A bounded set of naturals that has a member has a greatest one.
LEMMA Greatest ==
    ASSUME NEW S, S # {}, S \subseteq Nat, NEW bound \in Nat, \A n \in S : n <= bound
    PROVE  \E n \in S : \A m \in S : n >= m
<1> DEFINE T == {bound - n : n \in S}
<1>1. T \subseteq Nat /\ T # {}
  <2>1. \A n \in S : n \in Nat /\ bound - n \in Nat
    OBVIOUS
  <2>2. T \subseteq Nat
    BY <2>1
  <2>3. PICK n : n \in S
    OBVIOUS
  <2>4. bound - n \in T
    BY <2>3
  <2> QED
    BY <2>2, <2>4
<1>2. PICK least \in T : \A other \in T : least <= other
  BY <1>1, Least
<1>3. PICK n \in S : least = bound - n
  BY <1>2
<1>4. ASSUME NEW m \in S
      PROVE  n >= m
  <2>1. bound - m \in T /\ bound - m \in Nat /\ least \in Nat
    BY <1>1, <1>2
  <2> QED
    BY <1>2, <1>3, <2>1
<1> QED
  BY <1>4


-----------------------------------------------------------------------------
(* What each operation on the store's tables does to them: the rows keep    *)
(* their types, a chain only grows, an entry stays an entry.                *)

\* A chain is empty exactly when it has no head.
LEMMA EmptyChain ==
    ASSUME NEW S, NEW s \in Seq(S)
    PROVE  /\ s # <<>> <=> Len(s) > 0
           /\ Len(s) \in Nat
           /\ s # <<>> => Len(s) \in 1 .. Len(s) /\ s[Len(s)] \in S
OBVIOUS

\* The columns of an item's row.
LEMMA ItemColumns ==
    ASSUME StoreTypeOK, NEW i \in Item
    PROVE  /\ item[i] \in ItemRow
           /\ item[i].chain \in Seq(Revision)
           /\ HeadOf(i) \in Nat
           /\ Created(i) <=> HeadOf(i) > 0
           /\ Created(i) => HeadRow(i) \in Revision
           /\ \A n \in 1 .. HeadOf(i) : item[i].chain[n] \in Revision
BY EmptyChain DEF StoreTypeOK, ItemRow, HeadOf, Created, HeadRow

\* What a write to one item leaves of the item table: other items as they were,
\* and one more revision on this one's chain.
Extends(i, rev) ==
    /\ item' \in [Item -> ItemRow]
    /\ \A k \in Item \ {i} : item'[k] = item[k]
    /\ item'[i].chain = Append(item[i].chain, rev)
    /\ HeadOf(i)' = HeadOf(i) + 1

\* Creating an item writes the first revision of its chain.
LEMMA CreateExtends ==
    ASSUME StoreTypeOK, NEW i \in Item, NEW d \in Doc, NEW rev \in Revision,
           IsNextItem(i), CreateItem(i, d, rev)
    PROVE  /\ Extends(i, rev)
           /\ HeadOf(i) = 0
           /\ item'[i].doc = d
           /\ item'[i].fresh = (IF Affirms(rev) THEN "fresh" ELSE "unverified")
<1>1. item[i].chain = <<>>
  BY DEF IsNextItem, Created
<1>2. <<rev>> \in Seq(Revision) /\ <<rev>> = Append(<<>>, rev) /\ Len(<<rev>>) = 1
  OBVIOUS
<1> DEFINE row == [doc |-> d, chain |-> <<rev>>,
                   fresh |-> IF Affirms(rev) THEN "fresh" ELSE "unverified"]
<1>3. row \in ItemRow
  BY <1>2 DEF ItemRow
<1>4. item' = [item EXCEPT ![i] = row]
  BY DEF CreateItem
<1>5. item \in [Item -> ItemRow]
  BY DEF StoreTypeOK
<1> HIDE DEF row
<1>6. item' \in [Item -> ItemRow] /\ item'[i] = row /\ \A k \in Item \ {i} : item'[k] = item[k]
  BY <1>3, <1>4, <1>5
<1> QED
  BY <1>1, <1>2, <1>6 DEF row, Extends, HeadOf

\* Appending needs the current head, and adds one revision after it.
LEMMA AppendExtends ==
    ASSUME StoreTypeOK, NEW i \in Item, NEW e, NEW rev \in Revision,
           AppendRevision(i, e, rev)
    PROVE  /\ Extends(i, rev)
           /\ HeadOf(i) = e
           /\ item'[i].doc = item[i].doc
           /\ item'[i].fresh = (IF Affirms(rev) THEN "fresh" ELSE item[i].fresh)
<1>1. item[i] \in ItemRow /\ item[i].chain \in Seq(Revision)
  BY ItemColumns
<1>2. /\ Append(item[i].chain, rev) \in Seq(Revision)
      /\ Len(Append(item[i].chain, rev)) = Len(item[i].chain) + 1
  BY <1>1
<1> DEFINE row == [item[i] EXCEPT !.chain = Append(@, rev),
                                  !.fresh = IF Affirms(rev) THEN "fresh" ELSE @]
<1>3. /\ row \in ItemRow
      /\ row.chain = Append(item[i].chain, rev)
      /\ row.doc = item[i].doc
      /\ row.fresh = (IF Affirms(rev) THEN "fresh" ELSE item[i].fresh)
  BY <1>1, <1>2 DEF ItemRow
<1>4. item \in [Item -> ItemRow]
  BY DEF StoreTypeOK
<1>5. item' = [item EXCEPT ![i] = row]
  BY <1>1, <1>4 DEF AppendRevision, ItemRow
<1> HIDE DEF row
<1>6. item' \in [Item -> ItemRow] /\ item'[i] = row /\ \A k \in Item \ {i} : item'[k] = item[k]
  BY <1>3, <1>4, <1>5
<1> QED
  BY <1>2, <1>3, <1>6 DEF Extends, HeadOf, AppendRevision

\* Retiring adds the terminal revision after whatever is current.
LEMMA RetireExtends ==
    ASSUME StoreTypeOK, NEW i \in Item, NEW b \in Nat, NEW read \in Nat,
           RetireItem(i, b, read)
    PROVE  /\ Extends(i, TerminalRevision(b, read))
           /\ item'[i].doc = item[i].doc
           /\ item'[i].fresh = "retired"
<1> DEFINE rev == TerminalRevision(b, read)
<1>1. item[i] \in ItemRow /\ item[i].chain \in Seq(Revision)
  BY ItemColumns
<1>2. rev \in Revision
  BY DEF TerminalRevision, Revision
<1> HIDE DEF rev
<1>3. /\ Append(item[i].chain, rev) \in Seq(Revision)
      /\ Len(Append(item[i].chain, rev)) = Len(item[i].chain) + 1
  BY <1>1, <1>2
<1> DEFINE row == [item[i] EXCEPT !.chain = Append(@, rev), !.fresh = "retired"]
<1>4. /\ row \in ItemRow
      /\ row.chain = Append(item[i].chain, rev)
      /\ row.doc = item[i].doc
      /\ row.fresh = "retired"
  BY <1>1, <1>3 DEF ItemRow
<1>5. item \in [Item -> ItemRow]
  BY DEF StoreTypeOK
<1>6. item' = [item EXCEPT ![i] = row]
  BY <1>1, <1>5 DEF RetireItem, ItemRow, rev
<1> HIDE DEF row
<1>7. item' \in [Item -> ItemRow] /\ item'[i] = row /\ \A k \in Item \ {i} : item'[k] = item[k]
  BY <1>4, <1>5, <1>6
<1>8. Extends(i, rev)
  BY <1>3, <1>4, <1>7 DEF Extends, HeadOf
<1> QED
  BY <1>4, <1>7, <1>8 DEF rev

-----------------------------------------------------------------------------

LinkTable == [Item -> [Ref -> LinkRow]]

\* A change of one item's links that leaves every pair of the others alone.
Relinks(i) ==
    /\ link' \in LinkTable
    /\ \A k \in Item \ {i} : link'[k] = link[k]

\* Binding writes one new row for each pair, and there was none.
LEMMA BindRelinks ==
    ASSUME StoreTypeOK, NEW i \in Item, NEW S, NEW bears \in BOOLEAN, Bind(i, S, bears)
    PROVE  /\ Relinks(i)
           /\ \A d \in Ref : link'[i][d] = IF d \in S THEN NewLink(bears) ELSE link[i][d]
<1>1. NewLink(bears) \in LinkRow
  BY DEF NewLink, LinkRow
<1> DEFINE row == [d \in Ref |-> IF d \in S THEN NewLink(bears) ELSE link[i][d]]
<1>2. link \in [Item -> [Ref -> LinkRow]]
  BY DEF StoreTypeOK
<1>3. row \in [Ref -> LinkRow]
  BY <1>1, <1>2
<1>4. link' = [link EXCEPT ![i] = row]
  BY DEF Bind
<1> QED
  BY <1>2, <1>3, <1>4 DEF Relinks, LinkTable

\* The four rewrites of a row keep it a row of the table, and bound.
LEMMA RewrittenRows ==
    ASSUME NEW row \in LinkRow
    PROVE  /\ Superseded(row) \in LinkRow
           /\ Freshened(row) \in LinkRow
           /\ Staled(row) \in LinkRow
           /\ Reactivated(row) \in LinkRow
           /\ Superseded(row).status = "moved"
           /\ Freshened(row).status = row.status
           /\ Staled(row).status = row.status
           /\ Reactivated(row).status = "active"
<1>0. row.head + 1 \in Nat
  BY DEF LinkRow
<1>1. /\ Superseded(row) \in LinkRow
      /\ Superseded(row).status = "moved"
  BY <1>0, Zenon DEF Superseded, LinkRow
<1>2. /\ Freshened(row) \in LinkRow
      /\ Freshened(row).status = row.status
  BY DEF Freshened, LinkRow
<1>3. /\ Staled(row) \in LinkRow
      /\ Staled(row).status = row.status
  BY DEF Staled, LinkRow
<1>4. /\ Reactivated(row) \in LinkRow
      /\ Reactivated(row).status = "active"
  BY <1>0, Zenon DEF Reactivated, LinkRow
<1> QED
  BY <1>1, <1>2, <1>3, <1>4

-----------------------------------------------------------------------------

\* No entry is lost, and none changes what it proposes.
KeepsEntries ==
    /\ queue' \in Seq(BatchRow)
    /\ Len(queue') >= Len(queue)
    /\ \A b \in DOMAIN queue : Members(b)' = Members(b) /\ queue'[b].prop = queue[b].prop

\* The columns of a batch.
LEMMA BatchColumns ==
    ASSUME StoreTypeOK, NEW b \in DOMAIN queue
    PROVE  /\ queue[b] \in BatchRow
           /\ b \in Nat \ {0}
           /\ b \in 1 .. Len(queue)
           /\ \A i \in Item : i \in Members(b) <=> queue[b].disp[i] # "absent"
BY DEF StoreTypeOK, Members

\* A closed batch resolves as one of the three dispositions.
LEMMA ResolutionIsDisposition ==
    ASSUME NEW outcomes
    PROVE  BatchResolution(outcomes) \in Disposition
BY DEF BatchResolution, Disposition

\* Stamping changes one entry's disposition and, perhaps, the batch's resolution.
LEMMA StampKeeps ==
    ASSUME StoreTypeOK, NEW b \in DOMAIN queue, NEW i \in Members(b),
           NEW d \in Disposition, Stamp(b, i, d)
    PROVE  /\ KeepsEntries
           /\ DOMAIN queue' = DOMAIN queue
           /\ \A c \in DOMAIN queue \ {b} : queue'[c] = queue[c]
           /\ queue'[b].disp = [queue[b].disp EXCEPT ![i] = d]
           /\ queue'[b].res =
                 LET outcomes == {queue'[b].disp[j] : j \in Members(b)}
                 IN  IF "open" \in outcomes THEN queue[b].res ELSE BatchResolution(outcomes)
           /\ queue'[b].cls = queue[b].cls /\ queue'[b].pop = queue[b].pop
<1> DEFINE outcomes == {IF j = i THEN d ELSE queue[b].disp[j] : j \in Members(b)}
           res == IF "open" \in outcomes THEN queue[b].res ELSE BatchResolution(outcomes)
           row == [queue[b] EXCEPT !.disp[i] = d, !.res = res]
<1>1. queue[b] \in BatchRow /\ i \in Item
  BY BatchColumns DEF Members
<1>2. res \in Disposition \cup {"open"}
  BY <1>1, ResolutionIsDisposition DEF BatchRow
<1> HIDE DEF res
<1>3. /\ row \in BatchRow
      /\ row.disp = [queue[b].disp EXCEPT ![i] = d]
      /\ row.res = res
      /\ row.cls = queue[b].cls
      /\ row.pop = queue[b].pop
      /\ row.prop = queue[b].prop
  BY <1>1, <1>2 DEF BatchRow
<1>4. queue \in Seq(BatchRow)
  BY DEF StoreTypeOK
<1>5. queue' = [queue EXCEPT ![b] = row]
  BY <1>1, <1>4 DEF Stamp, res, BatchRow
<1> HIDE DEF row
<1>6. /\ queue' \in Seq(BatchRow)
      /\ Len(queue') = Len(queue)
      /\ DOMAIN queue' = DOMAIN queue
      /\ queue'[b] = row
      /\ \A c \in DOMAIN queue \ {b} : queue'[c] = queue[c]
  BY <1>3, <1>4, <1>5
<1>7. \A j \in Item : queue'[b].disp[j] = IF j = i THEN d ELSE queue[b].disp[j]
  BY <1>1, <1>3, <1>6 DEF BatchRow
<1>8. Members(b)' = Members(b)
  BY <1>7 DEF Members, Disposition
<1>9. \A c \in DOMAIN queue \ {b} : Members(c)' = Members(c)
  BY <1>6 DEF Members
<1>10. outcomes = {queue'[b].disp[j] : j \in Members(b)}
  BY <1>7 DEF Members
<1>11. queue'[b].res = IF "open" \in outcomes THEN queue[b].res ELSE BatchResolution(outcomes)
  BY <1>3, <1>6 DEF res
<1>12. KeepsEntries
  <2>1. Len(queue) \in Nat
    BY <1>4
  <2>2. queue'[b].prop = queue[b].prop
    BY <1>3, <1>6
  <2> QED
    BY <1>6, <1>8, <1>9, <2>1, <2>2 DEF KeepsEntries
<1> HIDE DEF outcomes
<1> QED
  BY <1>3, <1>6, <1>10, <1>11, <1>12

\* Opening a batch adds it after the others, every entry of it open.
LEMMA OpenBatchKeeps ==
    ASSUME StoreTypeOK, NEW pop \in Population, NEW cls \in [Ref -> Class], NEW props,
           \A i \in DOMAIN props : props[i] \in Nat,
           OpenBatch(pop, cls, props)
    PROVE  /\ KeepsEntries
           /\ DOMAIN queue' = 1 .. Len(queue) + 1
           /\ \A c \in DOMAIN queue : queue'[c] = queue[c]
           /\ LET row == queue'[Len(queue) + 1]
              IN  /\ row.cls = cls
                  /\ row.pop = pop
                  /\ row.res = "open"
                  /\ \A i \in Item :
                        /\ row.disp[i] = IF i \in DOMAIN props THEN "open" ELSE "absent"
                        /\ row.prop[i] = IF i \in DOMAIN props THEN props[i] ELSE 0
<1> DEFINE row == [pop  |-> pop,
                   cls  |-> cls,
                   prop |-> [i \in Item |-> IF i \in DOMAIN props THEN props[i] ELSE 0],
                   disp |-> [i \in Item |-> IF i \in DOMAIN props THEN "open" ELSE "absent"],
                   res  |-> "open"]
<1>1. row \in BatchRow
  BY DEF BatchRow
<1>2. queue \in Seq(BatchRow)
  BY DEF StoreTypeOK
<1>3. queue' = Append(queue, row)
  BY DEF OpenBatch
<1>4. /\ row.cls = cls
      /\ row.pop = pop
      /\ row.res = "open"
      /\ \A i \in Item :
            /\ row.disp[i] = IF i \in DOMAIN props THEN "open" ELSE "absent"
            /\ row.prop[i] = IF i \in DOMAIN props THEN props[i] ELSE 0
  OBVIOUS
<1> HIDE DEF row
<1>5. /\ queue' \in Seq(BatchRow)
      /\ Len(queue') = Len(queue) + 1
      /\ DOMAIN queue' = 1 .. Len(queue) + 1
      /\ queue'[Len(queue) + 1] = row
      /\ \A c \in DOMAIN queue : queue'[c] = queue[c]
  BY <1>1, <1>2, <1>3
<1>6. \A c \in DOMAIN queue : Members(c)' = Members(c)
  BY <1>5 DEF Members
<1> QED
  BY <1>4, <1>5, <1>6, <1>2 DEF KeepsEntries

-----------------------------------------------------------------------------
(* What each command's step does.                                           *)

Inv == TypeOK /\ ReferencesHold

\* A command's phase tells what kind of job it is.
LEMMA JobKinds ==
    ASSUME TypeOK, NEW p \in Proc
    PROVE  /\ job[p].at \in {"document", "queue"} => job[p] \in IngestJob
           /\ job[p].at \in {"causes", "decide", "stamp"} => job[p] \in ReviewJob
           /\ job[p].at = "bind" => job[p] \in BindJob
           /\ job[p].at \in {"observe", "moves", "record"} => job[p] \in RefreshJob
<1>1. job[p] \in Job
  BY DEF TypeOK
<1> QED
  BY <1>1 DEF Job, Idle, ReviewJob, IngestJob, BindJob, RefreshJob

\* Every chain is as long as it was, or longer.
Grows == \A i \in Item : HeadOf(i)' >= HeadOf(i)

\* A step that leaves the items alone shortens no chain.
LEMMA SameItemGrows ==
    ASSUME StoreTypeOK, UNCHANGED item
    PROVE  Grows
<1>1. \A i \in Item : HeadOf(i) \in Nat
  BY ItemColumns
<1> QED
  BY <1>1 DEF Grows, HeadOf

\* Nor does one that extends them.
LEMMA ExtendsGrows ==
    ASSUME StoreTypeOK, NEW i \in Item, NEW rev, Extends(i, rev)
    PROVE  Grows
<1>1. \A k \in Item : HeadOf(k) \in Nat
  BY ItemColumns
<1> QED
  BY <1>1 DEF Grows, HeadOf, Extends

\* A step that leaves the queue alone keeps its entries.
LEMMA SameQueueKeeps ==
    ASSUME StoreTypeOK, UNCHANGED queue
    PROVE  KeepsEntries
<1>1. queue \in Seq(BatchRow) /\ Len(queue) \in Nat
  BY DEF StoreTypeOK
<1> QED
  BY <1>1 DEF KeepsEntries, Members

\* What a command has read stays true of a store that only grows.
LEMMA KnowledgeKept ==
    ASSUME StoreTypeOK, StoreTypeOK', Grows, KeepsEntries,
           NEW j \in Job, JobKnows(j)
    PROVE  JobKnows(j)'
<1>1. \A i \in Item : /\ HeadOf(i) \in Nat /\ HeadOf(i)' \in Nat /\ HeadOf(i)' >= HeadOf(i)
                      /\ Created(i) <=> HeadOf(i) > 0
                      /\ Created(i)' <=> HeadOf(i)' > 0
  BY ItemColumns DEF Grows, StoreTypeOK, ItemRow, HeadOf, Created
<1>2. ASSUME j.at \in {"document", "queue"}
      PROVE  IngestKnows(j)'
  <2>1. j \in IngestJob /\ IngestKnows(j)
    BY <1>2 DEF Job, JobKnows, Idle, ReviewJob, IngestJob, BindJob, RefreshJob
  <2>2. \A d \in Doc : j.stored[d].item \in Item \cup {0} /\ j.stored[d].head \in Nat
    BY <2>1 DEF IngestJob, StoredDocument
  <2>3. \A e \in j.verify \cup j.suggest : e[1] \in Item /\ e[2] \in Nat
    BY <2>1 DEF IngestJob
  <2> QED
    BY <1>1, <2>1, <2>2, <2>3 DEF IngestKnows
<1>3. ASSUME j.at \in {"causes", "decide", "stamp"}
      PROVE  ReviewKnows(j)'
  <2>1. ReviewKnows(j)
    BY <1>3 DEF JobKnows
  <2>2. j.batch \in DOMAIN queue' /\ Members(j.batch)' = Members(j.batch)
    BY <2>1 DEF KeepsEntries, ReviewKnows, StoreTypeOK
  <2>3. \A i \in Item : j.seen[i] # None => j.seen[i].head \in 1 .. HeadOf(i)'
    BY <1>1, <2>1 DEF ReviewKnows
  <2> QED
    BY <2>1, <2>2, <2>3 DEF ReviewKnows
<1>4. ASSUME j.at = "bind"
      PROVE  Created(j.item)'
  <2>1. j.item \in Item /\ Created(j.item)
    BY <1>4 DEF Job, JobKnows, Idle, ReviewJob, IngestJob, BindJob, RefreshJob
  <2> QED
    BY <1>1, <2>1
<1> QED
  BY <1>2, <1>3, <1>4 DEF JobKnows

\* What a store that only grows keeps: its references, and what was read of it.
LEMMA ReferencesKept ==
    ASSUME Inv, StoreTypeOK', Grows, KeepsEntries,
           \A i \in Item, d \in Ref : Bound(i, d)' => Bound(i, d) \/ Created(i)',
           \A b \in DOMAIN queue' \ DOMAIN queue : \A i \in Members(b)' :
              Created(i)' /\ queue'[b].prop[i] <= HeadOf(i)'
    PROVE  /\ LinksToItems'
           /\ EntriesToRevisions'
           /\ \A j \in Job : JobKnows(j) => JobKnows(j)'
<1>1. StoreTypeOK
  BY DEF Inv, TypeOK
<1>2. \A i \in Item : /\ HeadOf(i) \in Nat /\ HeadOf(i)' \in Nat /\ HeadOf(i)' >= HeadOf(i)
                      /\ Created(i) <=> HeadOf(i) > 0
                      /\ Created(i)' <=> HeadOf(i)' > 0
  BY ItemColumns DEF Inv, TypeOK, Grows, StoreTypeOK, ItemRow, HeadOf, Created
<1>3. LinksToItems'
  BY <1>2 DEF Inv, ReferencesHold, LinksToItems
<1>4. EntriesToRevisions'
  <2> SUFFICES ASSUME NEW b \in DOMAIN queue', NEW i \in Members(b)'
               PROVE  Created(i)' /\ queue'[b].prop[i] <= HeadOf(i)'
    BY DEF EntriesToRevisions
  <2>1. CASE b \in DOMAIN queue
    <3>1. i \in Members(b) /\ i \in Item /\ queue'[b].prop = queue[b].prop
      BY <2>1 DEF KeepsEntries, Members
    <3>2. Created(i) /\ queue[b].prop[i] <= HeadOf(i)
      BY <2>1, <3>1 DEF Inv, ReferencesHold, EntriesToRevisions
    <3>3. queue[b].prop[i] \in Nat
      BY <2>1, <3>1, BatchColumns DEF Inv, TypeOK, BatchRow
    <3> QED
      BY <1>2, <3>1, <3>2, <3>3
  <2>2. CASE b \notin DOMAIN queue
    BY <2>2
  <2> QED
    BY <2>1, <2>2
<1>5. \A j \in Job : JobKnows(j) => JobKnows(j)'
  BY <1>1, KnowledgeKept
<1> QED
  BY <1>3, <1>4, <1>5

\* What it takes for a step of p, which then holds j, to keep Inv.
LEMMA StepKeepsInv ==
    ASSUME Inv, NEW p \in Proc, NEW j \in Job, Goes(p, j),
           StoreTypeOK', issued' \in 0 .. MaxCommands,
           Grows, KeepsEntries,
           \A i \in Item, d \in Ref : Bound(i, d)' => Bound(i, d) \/ Created(i)',
           \A b \in DOMAIN queue' \ DOMAIN queue : \A i \in Members(b)' :
              Created(i)' /\ queue'[b].prop[i] <= HeadOf(i)',
           JobKnows(j)'
    PROVE  Inv'
<1>1. job \in [Proc -> Job]
  BY DEF Inv, TypeOK
<1>2. job' \in [Proc -> Job] /\ job'[p] = j /\ \A q \in Proc \ {p} : job'[q] = job[q]
  BY <1>1 DEF Goes
<1>3. TypeOK'
  BY <1>2 DEF TypeOK
<1>4. /\ LinksToItems' /\ EntriesToRevisions'
      /\ \A l \in Job : JobKnows(l) => JobKnows(l)'
  BY ReferencesKept
<1>5. \A q \in Proc : JobKnows(job[q])'
  <2> TAKE q \in Proc
  <2>1. CASE q = p
    BY <1>2, <2>1 DEF JobKnows, IngestKnows, ReviewKnows
  <2>2. CASE q # p
    <3>1. JobKnows(job[q]) /\ job[q] \in Job
      BY <1>1 DEF Inv, ReferencesHold
    <3> DEFINE k == job[q]
    <3>2. job'[q] = k
      BY <1>2, <2>2
    <3> QED
      BY <1>4, <3>1, <3>2
  <2> QED
    BY <2>1, <2>2
<1> QED
  BY <1>3, <1>4, <1>5 DEF Inv, ReferencesHold

-----------------------------------------------------------------------------
(* Steps that read, and steps that end a command *)

\* A step that changes the job alone needs that what it read is there.
LEMMA ReadKeepsInv ==
    ASSUME Inv, NEW p \in Proc, NEW j \in Job, Goes(p, j),
           issued' \in 0 .. MaxCommands, UNCHANGED storeVars, JobKnows(j)
    PROVE  Inv'
<1>1. StoreTypeOK /\ UNCHANGED item /\ UNCHANGED link /\ UNCHANGED ident /\ UNCHANGED queue
  BY DEF Inv, TypeOK, storeVars
<1>2. StoreTypeOK'
  BY <1>1 DEF StoreTypeOK
<1>3. Grows /\ KeepsEntries
  BY <1>1, SameItemGrows, SameQueueKeeps
<1>4. \A i \in Item, d \in Ref : Bound(i, d)' => Bound(i, d)
  BY <1>1 DEF Bound
<1>5. JobKnows(j)'
  BY <1>1, <1>2, <1>3, KnowledgeKept
<1>6. DOMAIN queue' \ DOMAIN queue = {}
  BY <1>1
<1> QED
  BY <1>2, <1>3, <1>4, <1>5, <1>6, StepKeepsInv

\* Issuing a command stays within the command bound.
LEMMA IssueCounts ==
    ASSUME Inv, NEW p \in Proc, NEW j, Issue(p, j)
    PROVE  Goes(p, j) /\ issued' \in 0 .. MaxCommands
BY BoundsAssumption, CommandsAssumption DEF Inv, TypeOK, Issue

\* Going on with one does not count again.
LEMMA BecomesCounts ==
    ASSUME Inv, NEW p \in Proc, NEW j, Becomes(p, j)
    PROVE  Goes(p, j) /\ issued' \in 0 .. MaxCommands
BY DEF Inv, TypeOK, Becomes

\* An idle process knows nothing, so nothing it knows can be wrong.
LEMMA IdleJob == Idle \in Job /\ JobKnows(Idle) /\ JobKnows(Idle)'
BY DEF Idle, Job, JobKnows

\* Abandoning a command, wherever it is, keeps the invariant.
LEMMA AbandonInv ==
    ASSUME Inv, NEW p \in Proc, Abandon(p)
    PROVE  Inv'
BY IdleJob, BecomesCounts, ReadKeepsInv DEF Abandon

-----------------------------------------------------------------------------
(* adopt ingest *)

\* Among finitely many items one is the newest.
LEMMA NewestItem ==
    ASSUME NEW S, S \subseteq Item, S # {}
    PROVE  \E k \in S : \A j \in S : j <= k
<1>1. S \subseteq Nat /\ MaxItems \in Nat /\ \A n \in S : n <= MaxItems
  BY BoundsAssumption DEF Item
<1>2. \E n \in S : \A m \in S : n >= m
  BY <1>1, Greatest
<1> QED
  BY <1>1, <1>2

\* What a run reads of a document: no item, or an item and its head.
LEMMA StoredAsType ==
    ASSUME Inv, NEW d \in Doc
    PROVE  /\ StoredAs(d) \in StoredDocument
           /\ IF StoredAs(d).item = 0 THEN StoredAs(d).head = 0
              ELSE StoredAs(d).head \in 1 .. HeadOf(StoredAs(d).item)
<1> DEFINE mine == {i \in Item : Created(i) /\ item[i].doc = d}
           newest == CHOOSE k \in mine : \A j \in mine : j <= k
<1>1. CASE mine = {}
  BY <1>1 DEF StoredAs, StoredDocument
<1>2. CASE mine # {}
  <2>1. newest \in mine
    BY <1>2, NewestItem
  <2>2. newest \in Item /\ newest # 0 /\ Created(newest)
    <3> HIDE DEF newest
    <3>1. newest \in Item /\ Created(newest)
      BY <2>1
    <3> QED
      BY <3>1 DEF Item
  <2>3. HeadOf(newest) \in Nat /\ HeadOf(newest) > 0 /\ HeadRow(newest) \in Revision
    BY <2>2, ItemColumns DEF Inv, TypeOK
  <2>4. StoredAs(d) = [item |-> newest, head |-> HeadOf(newest), digest |-> HeadRow(newest).src]
    BY <1>2 DEF StoredAs
  <2>5. HeadRow(newest).src \in Text \cup {None}
    BY <2>3 DEF Revision
  <2> HIDE DEF newest
  <2> QED
    BY <2>2, <2>3, <2>4, <2>5 DEF StoredDocument
<1> QED
  BY <1>1, <1>2

\* What the queue has carried is about items, revisions and digests.
LEMMA PresentedTypes ==
    ASSUME Inv
    PROVE  /\ PresentedRevisions \subseteq Item \X Nat
           /\ PresentedTexts \subseteq Item \X (Text \cup {None})
<1>1. StoreTypeOK
  BY DEF Inv, TypeOK
<1>2. \A e \in Entries : /\ e[1] \in DOMAIN queue /\ e[2] \in Item
                         /\ e[2] \in Members(e[1])
                         /\ queue[e[1]].prop[e[2]] \in Nat
  BY <1>1, BatchColumns DEF Entries, BatchRow, Members
<1>3. ASSUME NEW e \in Entries, queue[e[1]].prop[e[2]] # 0
      PROVE  item[e[2]].chain[queue[e[1]].prop[e[2]]].src \in Text \cup {None}
  <2> DEFINE n == queue[e[1]].prop[e[2]]
  <2>1. n \in Nat /\ n # 0 /\ n <= HeadOf(e[2]) /\ e[2] \in Item
    BY <1>2, <1>3 DEF Inv, ReferencesHold, EntriesToRevisions
  <2>2. HeadOf(e[2]) \in Nat /\ \A m \in 1 .. HeadOf(e[2]) : item[e[2]].chain[m] \in Revision
    BY <1>1, <2>1, ItemColumns
  <2>3. item[e[2]].chain[n] \in Revision
    BY <2>1, <2>2
  <2> QED
    BY <2>3 DEF Revision
<1>4. PresentedRevisions \subseteq Item \X Nat
  <2> SUFFICES ASSUME NEW e \in Entries
               PROVE  <<e[2], queue[e[1]].prop[e[2]]>> \in Item \X Nat
    BY DEF PresentedRevisions
  <2> QED
    BY <1>2
<1>5. PresentedTexts \subseteq Item \X (Text \cup {None})
  <2> SUFFICES ASSUME NEW e \in Entries, queue[e[1]].prop[e[2]] # 0
               PROVE  <<e[2], item[e[2]].chain[queue[e[1]].prop[e[2]]].src>>
                         \in Item \X (Text \cup {None})
    BY DEF PresentedTexts
  <2>1. e[2] \in Item
    BY <1>2
  <2> QED
    BY <1>3, <2>1
<1> QED
  BY <1>4, <1>5

\* Ingest reads nothing that is not in the store.
LEMMA IngestStartInv ==
    ASSUME Inv, NEW p \in Proc, IngestStart(p)
    PROVE  Inv'
<1>1. PICK unverified \in BOOLEAN, body \in [Doc -> Text] :
        Issue(p, [at         |-> "document",
                  unverified |-> unverified,
                  todo       |-> Docs,
                  body       |-> body,
                  stored     |-> [d \in Doc |-> StoredAs(d)],
                  pairs      |-> {e \in Item \X Ref : Bound(e[1], e[2])},
                  active     |-> {d \in Ref : ident[d].status = "active"},
                  shownRevs  |-> PresentedRevisions,
                  shownTexts |-> PresentedTexts,
                  verify     |-> {},
                  suggest    |-> {}])
  BY DEF IngestStart
<1> DEFINE j == [at         |-> "document",
                 unverified |-> unverified,
                 todo       |-> Docs,
                 body       |-> body,
                 stored     |-> [d \in Doc |-> StoredAs(d)],
                 pairs      |-> {e \in Item \X Ref : Bound(e[1], e[2])},
                 active     |-> {d \in Ref : ident[d].status = "active"},
                 shownRevs  |-> PresentedRevisions,
                 shownTexts |-> PresentedTexts,
                 verify     |-> {},
                 suggest    |-> {}]
<1>2. [d \in Doc |-> StoredAs(d)] \in [Doc -> StoredDocument]
  BY StoredAsType
<1>3. j \in IngestJob
  BY <1>2, PresentedTypes, DocsAssumption DEF IngestJob
<1>4. j \in Job
  BY <1>3 DEF Job
<1>5. IngestKnows(j)
  BY StoredAsType DEF IngestKnows
<1>6. JobKnows(j)
  BY <1>5 DEF JobKnows
<1> HIDE DEF j
<1>7. Issue(p, j) /\ UNCHANGED storeVars
  BY <1>1 DEF j, IngestStart
<1> QED
  BY <1>4, <1>6, <1>7, IssueCounts, ReadKeepsInv

\* A document becomes a well-formed revision.
LEMMA DocumentRevisionType ==
    ASSUME NEW j \in IngestJob, NEW d \in Doc
    PROVE  /\ DocumentRevision(j, d) \in Revision
           /\ j.stored[d] \in StoredDocument
           /\ j.body[d] \in Text
<1>1. j.stored[d] \in StoredDocument /\ j.body[d] \in Text /\ j.unverified \in BOOLEAN
  BY DEF IngestJob
<1>2. j.stored[d].head \in Nat /\ (~j.unverified) \in BOOLEAN
  BY <1>1 DEF StoredDocument
<1> QED
  BY <1>1, <1>2, Zenon DEF DocumentRevision, Revision

\* After its transaction the document's item exists, and the revision the run
\* will propose for it is on its chain.
LEMMA DocumentWritten ==
    ASSUME Inv, NEW j \in IngestJob, IngestKnows(j), NEW d \in Doc, NEW i \in Item,
           WriteDocument(j, d, i)
    PROVE  /\ item' \in [Item -> ItemRow]
           /\ Grows
           /\ Created(i)'
           /\ LET wrote == j.stored[d].item = 0 \/ j.stored[d].digest # j.body[d]
              IN  (IF wrote THEN j.stored[d].head + 1 ELSE j.stored[d].head) \in 1 .. HeadOf(i)'
           /\ UNCHANGED item \/ Extends(i, DocumentRevision(j, d))
<1> DEFINE rev == DocumentRevision(j, d)
           doc == j.stored[d]
<1>1. rev \in Revision /\ doc \in StoredDocument /\ StoreTypeOK
  BY DocumentRevisionType DEF Inv, TypeOK
<1>2. IF doc.item = 0 THEN doc.head = 0 ELSE doc.head \in 1 .. HeadOf(doc.item)
  BY DEF IngestKnows
<1>3. HeadOf(i) \in Nat /\ (Created(i) <=> HeadOf(i) > 0) /\ i # 0
  BY <1>1, ItemColumns DEF Item
<1>4. item' \in [Item -> ItemRow] => (Created(i)' <=> HeadOf(i)' > 0)
  BY EmptyChain DEF ItemRow, Created, HeadOf
<1> HIDE DEF rev, doc
<1>5. CASE doc.item = 0 /\ IsNextItem(i) /\ CreateItem(i, d, rev)
  <2>1. Extends(i, rev) /\ HeadOf(i) = 0
    BY <1>1, <1>5, CreateExtends
  <2>2. HeadOf(i)' = 1 /\ item' \in [Item -> ItemRow]
    BY <2>1 DEF Extends
  <2>3. Grows
    BY <1>1, <2>1, ExtendsGrows
  <2> QED
    BY <1>2, <1>4, <1>5, <2>1, <2>2, <2>3 DEF doc, rev
<1>6. CASE i = doc.item /\ doc.digest = j.body[d] /\ UNCHANGED item
  <2>1. Created(i)' /\ HeadOf(i)' = HeadOf(i)
    BY <1>2, <1>3, <1>6 DEF Created, HeadOf
  <2>2. item' \in [Item -> ItemRow] /\ Grows
    BY <1>1, <1>6, SameItemGrows DEF StoreTypeOK
  <2> QED
    BY <1>2, <1>3, <1>6, <2>1, <2>2 DEF doc
<1>7. CASE i = doc.item /\ doc.digest # j.body[d] /\ AppendRevision(i, doc.head, rev)
  <2>1. Extends(i, rev) /\ HeadOf(i) = doc.head
    BY <1>1, <1>7, AppendExtends
  <2>2. HeadOf(i)' = HeadOf(i) + 1 /\ item' \in [Item -> ItemRow]
    BY <2>1 DEF Extends
  <2>3. Grows
    BY <1>1, <2>1, ExtendsGrows
  <2> QED
    BY <1>3, <1>4, <1>7, <2>1, <2>2, <2>3 DEF doc, rev
<1> QED
  BY <1>5, <1>6, <1>7 DEF WriteDocument, doc, rev

\* One document, written and bound, keeps the invariant.
LEMMA IngestDocumentInv ==
    ASSUME Inv, NEW p \in Proc, IngestDocument(p)
    PROVE  Inv'
<1> SUFFICES ASSUME NEW j, j = job[p]
             PROVE  Inv'
  OBVIOUS
<1> DEFINE d == Head(j.todo)
<1>1. j \in IngestJob /\ JobKnows(j) /\ IngestKnows(j) /\ StoreTypeOK /\ j \in Job
  BY JobKinds DEF IngestDocument, At, Inv, ReferencesHold, TypeOK, JobKnows
<1>2. j.todo \in Seq(Doc) /\ j.todo # <<>> /\ j.verify \in SUBSET (Item \X Nat)
      /\ j.suggest \in SUBSET (Item \X Nat)
  BY <1>1 DEF IngestJob, IngestDocument
<1>3. d \in Doc /\ Tail(j.todo) \in Seq(Doc)
  BY <1>2
<1> DEFINE wrote == j.stored[d].item = 0 \/ j.stored[d].digest # j.body[d]
           rev   == IF wrote THEN j.stored[d].head + 1 ELSE j.stored[d].head
<1>4. PICK i \in Item :
        /\ WriteDocument(j, d, i)
        /\ Bind(i, {r \in StructuralMatches(j, d) : <<i, r>> \notin j.pairs}, TRUE)
        /\ Becomes(p,
             [j EXCEPT
                !.todo    = Tail(@),
                !.verify  = IF wrote /\ j.unverified THEN @ \cup {<<i, rev>>} ELSE @,
                !.suggest = IF /\ SuggestedMatches(j, d, i) # {}
                               /\ ~(wrote /\ j.unverified)
                               /\ NotYetPresented(j, d, i, rev)
                            THEN @ \cup {<<i, rev>>} ELSE @])
  BY DEF IngestDocument
<1>5. UNCHANGED <<ident, queue>>
  BY DEF IngestDocument
<1>6. /\ item' \in [Item -> ItemRow] /\ Grows /\ Created(i)' /\ rev \in 1 .. HeadOf(i)'
  BY <1>1, <1>3, <1>4, DocumentWritten
<1>7. Relinks(i)
  BY <1>1, <1>4, BindRelinks
<1> DEFINE verify  == IF wrote /\ j.unverified THEN j.verify \cup {<<i, rev>>} ELSE j.verify
           suggest == IF /\ SuggestedMatches(j, d, i) # {}
                         /\ ~(wrote /\ j.unverified)
                         /\ NotYetPresented(j, d, i, rev)
                      THEN j.suggest \cup {<<i, rev>>} ELSE j.suggest
           next == [j EXCEPT !.todo = Tail(@), !.verify = verify, !.suggest = suggest]
<1>8. Becomes(p, next)
  BY <1>4
<1> HIDE DEF rev, wrote
<1>9. HeadOf(i)' \in Nat /\ rev \in Nat
  <2>1. HeadOf(i)' \in Nat
    BY <1>6, EmptyChain DEF ItemRow, HeadOf
  <2> QED
    BY <1>6, <2>1
<1>10. /\ verify \subseteq j.verify \cup {<<i, rev>>} /\ suggest \subseteq j.suggest \cup {<<i, rev>>}
       /\ verify \in SUBSET (Item \X Nat) /\ suggest \in SUBSET (Item \X Nat)
  BY <1>2, <1>9
<1> HIDE DEF verify, suggest, d
<1>11. next \in IngestJob /\ next.verify = verify /\ next.suggest = suggest /\ next.stored = j.stored
       /\ next.at = j.at
  BY <1>1, <1>3, <1>10, Zenon DEF IngestJob
<1> HIDE DEF next
<1>12. StoreTypeOK'
  BY <1>1, <1>5, <1>6, <1>7 DEF StoreTypeOK, Relinks, LinkTable
<1>13. KeepsEntries /\ DOMAIN queue' = DOMAIN queue
  BY <1>1, <1>5, SameQueueKeeps
<1>14. IngestKnows(j)'
  <2>1. JobKnows(j)'
    BY <1>1, <1>6, <1>12, <1>13, KnowledgeKept
  <2> QED
    BY <1>1, <2>1 DEF JobKnows, IngestJob
<1>15. JobKnows(next)'
  <2>1. \A dd \in Doc : IF next.stored[dd].item = 0
                        THEN next.stored[dd].head = 0
                        ELSE next.stored[dd].head \in 1 .. HeadOf(next.stored[dd].item)'
    BY <1>11, <1>14 DEF IngestKnows
  <2>2. \A e \in next.verify \cup next.suggest : e[2] \in 1 .. HeadOf(e[1])'
    <3> SUFFICES ASSUME NEW e \in j.verify \cup j.suggest \cup {<<i, rev>>}
                 PROVE  e[2] \in 1 .. HeadOf(e[1])'
      BY <1>10, <1>11
    <3>1. CASE e = <<i, rev>>
      BY <1>6, <3>1
    <3>2. CASE e \in j.verify \cup j.suggest
      BY <1>14, <3>2 DEF IngestKnows
    <3> QED
      BY <3>1, <3>2
  <2> QED
    BY <1>1, <1>11, <2>1, <2>2 DEF JobKnows, IngestKnows, IngestJob
<1>16. \A k \in Item, r \in Ref : Bound(k, r)' => Bound(k, r) \/ Created(k)'
  BY <1>6, <1>7 DEF Relinks, Bound
<1>17. next \in Job
  BY <1>11 DEF Job
<1> QED
  BY <1>6, <1>8, <1>12, <1>13, <1>15, <1>16, <1>17, BecomesCounts, StepKeepsInv

\* A new batch names items that exist and revisions on their chains.
LEMMA OpenBatchInv ==
    ASSUME Inv, NEW p \in Proc, NEW j \in Job, Goes(p, j), issued' \in 0 .. MaxCommands,
           UNCHANGED item, link' \in LinkTable, ident' \in [Ref -> IdentRow],
           \A i \in Item, d \in Ref : Bound(i, d)' => Bound(i, d),
           NEW pop \in Population, NEW cls \in [Ref -> Class], NEW props,
           OpenBatch(pop, cls, props),
           \A i \in DOMAIN props : props[i] \in Nat /\ Created(i) /\ props[i] <= HeadOf(i),
           JobKnows(j)
    PROVE  Inv'
<1>1. StoreTypeOK
  BY DEF Inv, TypeOK
<1>2. \A i \in DOMAIN props : props[i] \in Nat
  OBVIOUS
<1>3. /\ KeepsEntries
      /\ DOMAIN queue' = 1 .. Len(queue) + 1
      /\ \A i \in Item :
            /\ queue'[Len(queue) + 1].disp[i] = IF i \in DOMAIN props THEN "open" ELSE "absent"
            /\ queue'[Len(queue) + 1].prop[i] = IF i \in DOMAIN props THEN props[i] ELSE 0
  BY <1>1, <1>2, OpenBatchKeeps
<1>4. StoreTypeOK'
  BY <1>1, <1>3 DEF StoreTypeOK, KeepsEntries, LinkTable
<1>5. Grows
  BY <1>1, SameItemGrows
<1>6. JobKnows(j)'
  BY <1>1, <1>3, <1>4, <1>5, KnowledgeKept
<1>7. Len(queue) \in Nat /\ DOMAIN queue = 1 .. Len(queue)
  BY <1>1 DEF StoreTypeOK
<1>8. ASSUME NEW b \in DOMAIN queue' \ DOMAIN queue, NEW i \in Members(b)'
      PROVE  Created(i)' /\ queue'[b].prop[i] <= HeadOf(i)'
  <2>1. b = Len(queue) + 1
    BY <1>3, <1>7
  <2>2. i \in Item /\ queue'[b].disp[i] # "absent"
    BY DEF Members
  <2>3. i \in DOMAIN props /\ queue'[b].prop[i] = props[i]
    BY <1>3, <2>1, <2>2
  <2> QED
    BY <2>3 DEF Created, HeadOf
<1> QED
  BY <1>3, <1>4, <1>5, <1>6, <1>8, StepKeepsInv

\* What a run proposes for an item is one of the revisions it collected.
LEMMA ProposalsPick ==
    ASSUME NEW pairs
    PROVE  \A i \in DOMAIN Proposals(pairs) :
              (\E e \in pairs : e[1] = i) /\ (\A e \in pairs : e = <<e[1], e[2]>>)
                 => <<i, Proposals(pairs)[i]>> \in pairs
<1> SUFFICES ASSUME NEW e \in pairs, \A f \in pairs : f = <<f[1], f[2]>>,
                    e[1] \in DOMAIN Proposals(pairs)
             PROVE  <<e[1], Proposals(pairs)[e[1]]>> \in pairs
  OBVIOUS
<1>1. e[2] \in {f[2] : f \in pairs} /\ <<e[1], e[2]>> \in pairs
  OBVIOUS
<1> QED
  BY <1>1 DEF Proposals

\* What a run proposes are revisions of the items it proposes them for.
LEMMA ProposalsKnown ==
    ASSUME Inv, NEW j \in IngestJob, IngestKnows(j),
           NEW pairs, pairs = j.verify \/ pairs = j.suggest
    PROVE  \A i \in DOMAIN Proposals(pairs) :
              LET n == Proposals(pairs)[i]
              IN  n \in Nat /\ Created(i) /\ n \in 1 .. HeadOf(i) /\ n <= HeadOf(i)
<1> SUFFICES ASSUME NEW i \in DOMAIN Proposals(pairs)
             PROVE  LET n == Proposals(pairs)[i]
                    IN  n \in Nat /\ Created(i) /\ n \in 1 .. HeadOf(i) /\ n <= HeadOf(i)
  OBVIOUS
<1>1. \A e \in pairs : e \in Item \X Nat /\ e[2] \in 1 .. HeadOf(e[1])
  BY DEF IngestJob, IngestKnows
<1>2. \E e \in pairs : e[1] = i
  BY DEF Proposals
<1>3. <<i, Proposals(pairs)[i]>> \in pairs
  BY <1>1, <1>2, ProposalsPick
<1>4. i \in Item /\ Proposals(pairs)[i] \in Nat /\ Proposals(pairs)[i] \in 1 .. HeadOf(i)
  BY <1>1, <1>3
<1>5. HeadOf(i) \in Nat /\ (Created(i) <=> HeadOf(i) > 0)
  BY <1>4, ItemColumns DEF Inv, TypeOK
<1> QED
  BY <1>4, <1>5

\* Opening the verification batch keeps the invariant.
LEMMA QueueVerificationInv ==
    ASSUME Inv, NEW p \in Proc, QueueVerification(p)
    PROVE  Inv'
<1> SUFFICES ASSUME NEW j, j = job[p]
             PROVE  Inv'
  OBVIOUS
<1>1. j \in IngestJob /\ IngestKnows(j)
  BY JobKinds DEF QueueVerification, At, Inv, ReferencesHold, JobKnows
<1> DEFINE next == [j EXCEPT !.at = "queue"]
<1>2. next \in IngestJob /\ IngestKnows(next) /\ next.at = "queue"
  BY <1>1 DEF IngestJob, IngestKnows
<1>3. next \in Job /\ JobKnows(next)
  BY <1>2 DEF Job, JobKnows
<1>4. Goes(p, next) /\ issued' \in 0 .. MaxCommands
  BY BecomesCounts DEF QueueVerification
<1> HIDE DEF next
<1>5. CASE UNCHANGED queue
  BY <1>3, <1>4, <1>5, ReadKeepsInv DEF QueueVerification, storeVars
<1>6. CASE OpenBatch("ingest-unverified", NoClass, Proposals(j.verify))
  <2>1. /\ link' \in LinkTable /\ ident' \in [Ref -> IdentRow]
        /\ \A i \in Item, d \in Ref : Bound(i, d)' => Bound(i, d)
        /\ UNCHANGED item
    BY DEF QueueVerification, Inv, TypeOK, StoreTypeOK, LinkTable, Bound
  <2>2. "ingest-unverified" \in Population /\ NoClass \in [Ref -> Class]
    BY DEF Population, NoClass, Class
  <2> QED
    BY <1>1, <1>3, <1>4, <1>6, <2>1, <2>2, ProposalsKnown, OpenBatchInv
<1> QED
  BY <1>5, <1>6 DEF QueueVerification

\* Opening the suggestion batch keeps the invariant.
LEMMA QueueSuggestionsInv ==
    ASSUME Inv, NEW p \in Proc, QueueSuggestions(p)
    PROVE  Inv'
<1> SUFFICES ASSUME NEW j, j = job[p]
             PROVE  Inv'
  OBVIOUS
<1>1. j \in IngestJob /\ IngestKnows(j)
  BY JobKinds DEF QueueSuggestions, At, Inv, ReferencesHold, JobKnows
<1>2. Goes(p, Idle) /\ issued' \in 0 .. MaxCommands
  BY BecomesCounts DEF QueueSuggestions
<1>3. CASE UNCHANGED queue
  BY <1>2, <1>3, IdleJob, ReadKeepsInv DEF QueueSuggestions, storeVars
<1>4. CASE OpenBatch("ingest", NoClass, Proposals(j.suggest))
  <2>1. /\ link' \in LinkTable /\ ident' \in [Ref -> IdentRow]
        /\ \A i \in Item, d \in Ref : Bound(i, d)' => Bound(i, d)
        /\ UNCHANGED item
    BY DEF QueueSuggestions, Inv, TypeOK, StoreTypeOK, LinkTable, Bound
  <2>2. "ingest" \in Population /\ NoClass \in [Ref -> Class]
    BY DEF Population, NoClass, Class
  <2> QED
    BY <1>1, <1>2, <1>4, <2>1, <2>2, IdleJob, ProposalsKnown, OpenBatchInv
<1> QED
  BY <1>3, <1>4 DEF QueueSuggestions

-----------------------------------------------------------------------------
(* Transactions on one item *)

\* A transaction that writes one created item's chain and links, and stamps
\* entries of batches that are there.
LEMMA WriteKeepsInv ==
    ASSUME Inv, NEW p \in Proc, NEW j \in Job, Goes(p, j), issued' \in 0 .. MaxCommands,
           NEW i \in Item, Created(i),
           item' \in [Item -> ItemRow], Grows,
           Relinks(i), UNCHANGED ident,
           KeepsEntries, DOMAIN queue' = DOMAIN queue,
           JobKnows(j)
    PROVE  Inv'
<1>1. StoreTypeOK
  BY DEF Inv, TypeOK
<1>2. StoreTypeOK'
  BY <1>1 DEF StoreTypeOK, Relinks, LinkTable, KeepsEntries
<1>3. JobKnows(j)'
  BY <1>1, <1>2, KnowledgeKept
<1>4. Created(i)'
  <2>1. HeadOf(i) \in Nat /\ HeadOf(i) > 0
    BY <1>1, ItemColumns
  <2>2. HeadOf(i)' \in Nat /\ (Created(i)' <=> HeadOf(i)' > 0)
    BY EmptyChain DEF ItemRow, Created, HeadOf
  <2> QED
    BY <2>1, <2>2 DEF Grows
<1>5. \A k \in Item, d \in Ref : Bound(k, d)' => Bound(k, d) \/ Created(k)'
  BY <1>4 DEF Relinks, Bound
<1>6. DOMAIN queue' \ DOMAIN queue = {}
  OBVIOUS
<1> QED
  BY <1>2, <1>3, <1>5, <1>6, StepKeepsInv

\* A step that leaves the links alone relinks nothing.
LEMMA SameLinks ==
    ASSUME StoreTypeOK, NEW i \in Item, UNCHANGED link
    PROVE  Relinks(i)
BY DEF StoreTypeOK, Relinks, LinkTable

\* A step that leaves the items alone extends nothing.
LEMMA SameItems ==
    ASSUME StoreTypeOK, UNCHANGED item
    PROVE  item' \in [Item -> ItemRow] /\ Grows
BY SameItemGrows DEF StoreTypeOK

-----------------------------------------------------------------------------
(* adopt bind *)

\* `adopt bind` reads a pair whose item exists.
LEMMA BindStartInv ==
    ASSUME Inv, NEW p \in Proc, BindStart(p)
    PROVE  Inv'
<1>1. PICK i \in Item, t \in Ref, bears \in BOOLEAN :
        /\ Created(i)
        /\ Issue(p, [at |-> "bind", item |-> i, ref |-> t, was |-> link[i][t], bears |-> bears])
  BY DEF BindStart
<1> DEFINE j == [at |-> "bind", item |-> i, ref |-> t, was |-> link[i][t], bears |-> bears]
<1>2. link[i][t] \in LinkRow
  BY DEF Inv, TypeOK, StoreTypeOK
<1>3. j \in BindJob /\ j.at = "bind" /\ j.item = i
  BY <1>2 DEF BindJob
<1>4. j \in Job
  BY <1>3 DEF Job
<1>5. JobKnows(j)
  BY <1>1, <1>3 DEF JobKnows
<1> HIDE DEF j
<1>6. Issue(p, j) /\ UNCHANGED storeVars
  BY <1>1 DEF j, BindStart
<1> QED
  BY <1>4, <1>5, <1>6, IssueCounts, ReadKeepsInv

\* Reviving a pair keeps every link well formed and bound.
LEMMA ReviveRelinks ==
    ASSUME StoreTypeOK, NEW i \in Item, NEW t \in Ref, NEW was, Revive(i, t, was)
    PROVE  Relinks(i)
<1>1. link \in [Item -> [Ref -> LinkRow]]
  BY DEF StoreTypeOK
<1>2. Reactivated(link[i][t]) \in LinkRow
  BY <1>1, RewrittenRows
<1>3. link' = [link EXCEPT ![i] = [link[i] EXCEPT ![t] = Reactivated(link[i][t])]]
  BY <1>1 DEF Revive
<1>4. [link[i] EXCEPT ![t] = Reactivated(link[i][t])] \in [Ref -> LinkRow]
  BY <1>1, <1>2
<1> QED
  BY <1>1, <1>3, <1>4 DEF Relinks, LinkTable

\* Binding a pair, or reviving it, keeps the invariant.
LEMMA BindPairInv ==
    ASSUME Inv, NEW p \in Proc, BindPair(p)
    PROVE  Inv'
<1> SUFFICES ASSUME NEW j, j = job[p]
             PROVE  Inv'
  OBVIOUS
<1>1. j \in BindJob /\ Created(j.item) /\ StoreTypeOK
  BY JobKinds DEF BindPair, At, Inv, TypeOK, ReferencesHold, JobKnows
<1>2. j.item \in Item /\ j.ref \in Ref /\ j.bears \in BOOLEAN
  BY <1>1 DEF BindJob
<1>3. Revive(j.item, j.ref, j.was) \/ Bind(j.item, {j.ref}, j.bears)
  BY DEF BindPair
<1>4. Relinks(j.item)
  BY <1>1, <1>2, <1>3, ReviveRelinks, BindRelinks
<1>5. UNCHANGED <<item, ident, queue>> /\ Becomes(p, Idle)
  BY DEF BindPair
<1>6. KeepsEntries /\ item' \in [Item -> ItemRow] /\ Grows
  BY <1>1, <1>5, SameItems, SameQueueKeeps
<1> QED
  BY <1>1, <1>2, <1>4, <1>5, <1>6, IdleJob, BecomesCounts, WriteKeepsInv

-----------------------------------------------------------------------------
(* adopt review: reading the queue *)

\* A listing of an open entry is well formed, at a revision there is.
LEMMA ListingType ==
    ASSUME Inv, NEW b \in DOMAIN queue, NEW i \in Members(b)
    PROVE  ListingOf(b, i) \in Listing /\ ListingOf(b, i).head \in 1 .. HeadOf(i)
<1>1. i \in Item /\ queue[b].prop[i] \in Nat /\ queue[b].prop[i] <= HeadOf(i) /\ Created(i)
  BY BatchColumns DEF Members, Inv, TypeOK, BatchRow, ReferencesHold, EntriesToRevisions
<1>2. /\ HeadOf(i) \in Nat /\ HeadOf(i) > 0 /\ HeadRow(i) \in Revision
      /\ \A n \in 1 .. HeadOf(i) : item[i].chain[n] \in Revision
  BY <1>1, ItemColumns DEF Inv, TypeOK
<1> DEFINE text == IF queue[b].prop[i] = 0 THEN HeadRow(i).text
                   ELSE item[i].chain[queue[b].prop[i]].text
           sugg == IF queue[b].pop = "ingest"
                   THEN {d \in Refs(Named, HeadRow(i).text) :
                            ident[d].status = "active" /\ ~Bound(i, d)}
                   ELSE {}
<1>3. text \in Text \cup {Reason} /\ HeadRow(i).src \in Text \cup {None}
  BY <1>1, <1>2 DEF Revision
<1>4. sugg \in SUBSET Ref
  BY DEF Refs
<1>5. ListingOf(b, i) = [head |-> HeadOf(i), text |-> text, src |-> HeadRow(i).src, sugg |-> sugg]
  BY DEF ListingOf
<1> HIDE DEF text, sugg
<1> QED
  BY <1>2, <1>3, <1>4, <1>5 DEF Listing

\* Listing the queue keeps the invariant.
LEMMA ListQueueInv ==
    ASSUME Inv, NEW p \in Proc, ListQueue(p)
    PROVE  Inv'
<1>1. PICK verb \in Verbs \cap (ChangeActions \cup {"confirm", "confirm-batch", "edit", "reject"}),
          b \in DOMAIN queue, S \in SUBSET Item :
        /\ S \subseteq {i \in Item : IsOpen(b, i)}
        /\ Issue(p, [at       |-> IF verb \in ChangeActions THEN "causes" ELSE "decide",
                     verb     |-> verb,
                     batch    |-> b,
                     seen     |-> [i \in Item |-> IF i \in S THEN ListingOf(b, i) ELSE None],
                     affected |-> {},
                     target   |-> None])
  BY DEF ListQueue
<1> DEFINE seen == [i \in Item |-> IF i \in S THEN ListingOf(b, i) ELSE None]
           j == [at       |-> IF verb \in ChangeActions THEN "causes" ELSE "decide",
                 verb     |-> verb,
                 batch    |-> b,
                 seen     |-> seen,
                 affected |-> {},
                 target   |-> None]
<1>2. \A i \in S : i \in Members(b)
  BY <1>1 DEF IsOpen, Members
<1>3. seen \in [Item -> Listing \cup {None}]
  BY <1>2, ListingType
<1>4. \A i \in Item : seen[i] # None => i \in Members(b) /\ seen[i].head \in 1 .. HeadOf(i)
  BY <1>2, ListingType
<1> HIDE DEF seen
<1>5. b \in Nat
  BY BatchColumns DEF Inv, TypeOK
<1>6. j \in ReviewJob /\ j.batch = b /\ j.seen = seen /\ j.at \in {"causes", "decide"}
  BY <1>3, <1>5 DEF ReviewJob
<1>7. j \in Job
  BY <1>6 DEF Job
<1>8. JobKnows(j)
  BY <1>4, <1>6 DEF JobKnows, ReviewKnows
<1>9. Issue(p, j) /\ UNCHANGED storeVars
  BY <1>1 DEF ListQueue, seen
<1> HIDE DEF j
<1> QED
  BY <1>7, <1>8, <1>9, IssueCounts, ReadKeepsInv

\* What a decision starts from: an entry of a batch that is there, for an item
\* that exists, as it was listed.
LEMMA DecidingKnows ==
    ASSUME Inv, NEW p \in Proc, NEW i \in Item, i \in Pending(p),
           job[p].at \in {"causes", "decide", "stamp"}
    PROVE  /\ job[p] \in ReviewJob
           /\ job[p].batch \in DOMAIN queue
           /\ job[p].batch \in Nat \ {0}
           /\ i \in Members(job[p].batch)
           /\ Created(i)
           /\ job[p].seen[i] \in Listing
           /\ job[p].seen[i].head \in 1 .. HeadOf(i)
<1>1. job[p] \in ReviewJob /\ ReviewKnows(job[p])
  BY JobKinds DEF Inv, ReferencesHold, JobKnows
<1>2. job[p].seen[i] # None /\ job[p].seen[i] \in Listing \cup {None}
  BY <1>1 DEF Pending, ReviewJob
<1>3. /\ job[p].batch \in DOMAIN queue /\ i \in Members(job[p].batch)
      /\ job[p].seen[i].head \in 1 .. HeadOf(i)
  BY <1>1, <1>2 DEF ReviewKnows
<1>4. Created(i) /\ job[p].batch \in Nat \ {0}
  BY <1>3, BatchColumns DEF Inv, TypeOK, ReferencesHold, EntriesToRevisions
<1> QED
  BY <1>1, <1>2, <1>3, <1>4

\* Reading the causes of a change entry keeps the invariant.
LEMMA ReadCausesInv ==
    ASSUME Inv, NEW p \in Proc, ReadCauses(p)
    PROVE  Inv'
<1> SUFFICES ASSUME NEW j, j = job[p]
             PROVE  Inv'
  OBVIOUS
<1>1. j \in ReviewJob /\ ReviewKnows(j)
  BY JobKinds DEF ReadCauses, At, Inv, ReferencesHold, JobKnows
<1> DEFINE affected == {d \in Ref : /\ queue[j.batch].cls[d] # "none"
                                    /\ \E i \in Pending(p) : link[i][d].status = "active"}
<1>2. affected \in SUBSET Ref
  OBVIOUS
<1>3. PICK t \in Ref \cup {None} :
         /\ j.verb = "rebind" => t \in Ref
         /\ Becomes(p, [j EXCEPT !.at = "decide", !.affected = affected, !.target = t])
  BY DEF ReadCauses, RebindTargets
<1> DEFINE next == [j EXCEPT !.at = "decide", !.affected = affected, !.target = t]
<1>6. Becomes(p, next) /\ UNCHANGED storeVars
  BY <1>3 DEF ReadCauses
<1> HIDE DEF affected
<1>4. /\ next \in ReviewJob /\ next.batch = j.batch /\ next.seen = j.seen /\ next.at = "decide"
      /\ next.verb = j.verb /\ next.target = t
  BY <1>1, <1>2, Zenon DEF ReviewJob
<1> HIDE DEF next
<1>5. next \in Job /\ JobKnows(next)
  BY <1>1, <1>3, <1>4 DEF Job, JobKnows, ReviewKnows
<1> QED
  BY <1>5, <1>6, BecomesCounts, ReadKeepsInv

-----------------------------------------------------------------------------
(* adopt review: deciding *)

\* A command that has decided one entry still knows the others it listed.
LEMMA DoneKnows ==
    ASSUME Inv, NEW p \in Proc, NEW i \in Item, i \in Pending(p),
           job[p].at \in {"causes", "decide", "stamp"}, Done(p, i)
    PROVE  /\ issued' \in 0 .. MaxCommands
           /\ \E j \in Job : Goes(p, j) /\ JobKnows(j)
<1> DEFINE next == [job[p] EXCEPT !.seen[i] = None]
<1>1. job[p] \in ReviewJob /\ ReviewKnows(job[p])
  BY JobKinds DEF Inv, ReferencesHold, JobKnows
<1>2. /\ next \in ReviewJob /\ next.batch = job[p].batch /\ next.at = job[p].at
      /\ next.verb = job[p].verb /\ next.target = job[p].target
      /\ \A k \in Item : next.seen[k] # None => next.seen[k] = job[p].seen[k]
  BY <1>1 DEF ReviewJob
<1>3. Becomes(p, Idle) \/ Becomes(p, next)
  BY DEF Done
<1> HIDE DEF next
<1>4. next \in Job /\ JobKnows(next)
  BY <1>1, <1>2 DEF Job, JobKnows, ReviewKnows
<1> QED
  BY <1>3, <1>4, IdleJob, BecomesCounts

\* A decision: one entry is stamped, and one item's chain and links written.
LEMMA DecisionInv ==
    ASSUME Inv, NEW p \in Proc, NEW i \in Item, i \in Pending(p),
           job[p].at \in {"causes", "decide", "stamp"}, Done(p, i),
           NEW d \in Disposition, Stamp(job[p].batch, i, d),
           item' \in [Item -> ItemRow], Grows, Relinks(i), UNCHANGED ident
    PROVE  Inv'
<1>1. job[p].batch \in DOMAIN queue /\ i \in Members(job[p].batch) /\ Created(i)
  BY DecidingKnows
<1>2. KeepsEntries /\ DOMAIN queue' = DOMAIN queue
  BY <1>1, StampKeeps DEF Inv, TypeOK
<1>3. PICK j \in Job : Goes(p, j) /\ JobKnows(j)
  BY DoneKnows
<1> QED
  BY <1>1, <1>2, <1>3, DoneKnows, WriteKeepsInv

\* What a person's decision appends is a revision, one longer than what they saw.
LEMMA HumanExtends ==
    ASSUME Inv, NEW p \in Proc, NEW i \in Item, i \in Pending(p),
           job[p].at \in {"causes", "decide", "stamp"},
           NEW text \in Text \cup {Reason}, AppendHuman(p, i, text)
    PROVE  /\ HumanRevision(p, i, text) \in Revision
           /\ Extends(i, HumanRevision(p, i, text))
           /\ HeadOf(i) = job[p].seen[i].head
           /\ item'[i].fresh = "fresh"
           /\ item'[i].doc = item[i].doc
           /\ item' \in [Item -> ItemRow]
           /\ Grows
<1>1. job[p].seen[i] \in Listing /\ job[p].batch \in Nat /\ StoreTypeOK
  BY DecidingKnows DEF Inv, TypeOK
<1>2. job[p].seen[i].src \in Text \cup {None} /\ job[p].seen[i].head \in Nat
  BY <1>1 DEF Listing
<1>3. HumanRevision(p, i, text) \in Revision
  BY <1>1, <1>2, Zenon DEF HumanRevision, Revision
<1>4. AppendRevision(i, job[p].seen[i].head, HumanRevision(p, i, text))
  BY DEF AppendHuman
<1>5. HumanRevision(p, i, text).verified = TRUE
  BY DEF HumanRevision
<1>6. /\ Extends(i, HumanRevision(p, i, text))
      /\ HeadOf(i) = job[p].seen[i].head
      /\ item'[i].fresh = "fresh"
      /\ item'[i].doc = item[i].doc
  BY <1>1, <1>3, <1>4, <1>5, AppendExtends DEF Affirms
<1>7. Grows
  BY <1>1, <1>6, ExtendsGrows
<1> QED
  BY <1>3, <1>6, <1>7 DEF Extends

\* Confirming unverified text keeps the invariant.
LEMMA ConfirmCandidateInv ==
    ASSUME Inv, NEW p \in Proc, NEW i \in Item, ConfirmCandidate(p, i)
    PROVE  Inv'
<1>1. /\ i \in Pending(p) /\ job[p].at = "decide" /\ Done(p, i)
      /\ Stamp(job[p].batch, i, "confirmed") /\ "confirmed" \in Disposition
      /\ AppendHuman(p, i, job[p].seen[i].text)
      /\ UNCHANGED <<link, ident>>
  BY DEF ConfirmCandidate, Deciding, At, Resolve, Disposition
<1>2. job[p].seen[i].text \in Text \cup {Reason}
  BY <1>1, DecidingKnows DEF Listing
<1>3. item' \in [Item -> ItemRow] /\ Grows
  BY <1>1, <1>2, HumanExtends
<1>4. Relinks(i)
  BY <1>1, SameLinks DEF Inv, TypeOK
<1> QED
  BY <1>1, <1>3, <1>4, DecisionInv

\* Confirming suggestions keeps the invariant.
LEMMA ConfirmSuggestionsInv ==
    ASSUME Inv, NEW p \in Proc, NEW i \in Item, ConfirmSuggestions(p, i)
    PROVE  Inv'
<1>1. /\ i \in Pending(p) /\ job[p].at = "decide" /\ Done(p, i)
      /\ Stamp(job[p].batch, i, "confirmed") /\ "confirmed" \in Disposition
      /\ Bind(i, job[p].seen[i].sugg \ BoundRefs(i), TRUE)
      /\ UNCHANGED <<item, ident>>
  BY DEF ConfirmSuggestions, Deciding, At, Resolve, Disposition
<1>2. item' \in [Item -> ItemRow] /\ Grows /\ Relinks(i)
  BY <1>1, SameItems, BindRelinks DEF Inv, TypeOK
<1> QED
  BY <1>1, <1>2, DecisionInv

\* Correcting a text keeps the invariant.
LEMMA EditEntryInv ==
    ASSUME Inv, NEW p \in Proc, NEW i \in Item, EditEntry(p, i)
    PROVE  Inv'
<1>1. PICK text \in Text : AppendHuman(p, i, text)
  BY DEF EditEntry
<1>2. /\ i \in Pending(p) /\ job[p].at = "decide" /\ Done(p, i)
      /\ Stamp(job[p].batch, i, "corrected") /\ "corrected" \in Disposition
      /\ UNCHANGED <<link, ident>>
  BY DEF EditEntry, Deciding, At, Resolve, Disposition
<1>3. item' \in [Item -> ItemRow] /\ Grows
  BY <1>1, <1>2, HumanExtends
<1>4. Relinks(i)
  BY <1>2, SameLinks DEF Inv, TypeOK
<1> QED
  BY <1>2, <1>3, <1>4, DecisionInv

\* The read half of a rejection keeps the invariant.
LEMMA RejectReadInv ==
    ASSUME Inv, NEW p \in Proc, NEW i \in Item, RejectRead(p, i)
    PROVE  Inv'
<1> SUFFICES ASSUME NEW j, j = job[p]
             PROVE  Inv'
  OBVIOUS
<1>1. j \in ReviewJob /\ ReviewKnows(j)
  BY JobKinds DEF RejectRead, Deciding, At, Inv, ReferencesHold, JobKnows
<1> DEFINE next == [j EXCEPT !.at = "stamp"]
<1>2. next \in ReviewJob /\ next.batch = j.batch /\ next.seen = j.seen /\ next.at = "stamp"
  BY <1>1 DEF ReviewJob
<1>3. Becomes(p, next) /\ UNCHANGED storeVars
  BY DEF RejectRead
<1> HIDE DEF next
<1>4. next \in Job /\ JobKnows(next)
  BY <1>1, <1>2 DEF Job, JobKnows, ReviewKnows
<1> QED
  BY <1>3, <1>4, BecomesCounts, ReadKeepsInv

\* So does the write half, over whatever has become of the entry.
LEMMA RejectStampInv ==
    ASSUME Inv, NEW p \in Proc, NEW i \in Item, RejectStamp(p, i)
    PROVE  Inv'
<1>1. /\ i \in Pending(p) /\ job[p].at = "stamp" /\ Done(p, i)
      /\ Stamp(job[p].batch, i, "rejected") /\ "rejected" \in Disposition
      /\ UNCHANGED <<item, link, ident>>
  BY DEF RejectStamp, At, Disposition
<1>2. item' \in [Item -> ItemRow] /\ Grows /\ Relinks(i)
  BY <1>1, SameItems, SameLinks DEF Inv, TypeOK
<1> QED
  BY <1>1, <1>2, DecisionInv

\* Retiring an item keeps the invariant.
LEMMA RetireEntryInv ==
    ASSUME Inv, NEW p \in Proc, NEW i \in Item, RetireEntry(p, i)
    PROVE  Inv'
<1>1. /\ i \in Pending(p) /\ job[p].at = "decide" /\ Done(p, i)
      /\ Stamp(job[p].batch, i, "corrected") /\ "corrected" \in Disposition
      /\ RetireItem(i, job[p].batch, job[p].seen[i].head)
      /\ UNCHANGED <<link, ident>>
  BY DEF RetireEntry, Deciding, At, Resolve, Disposition
<1>2. job[p].batch \in Nat /\ job[p].seen[i].head \in Nat /\ StoreTypeOK
  BY <1>1, DecidingKnows DEF Listing, Inv, TypeOK
<1>3. Extends(i, TerminalRevision(job[p].batch, job[p].seen[i].head))
  BY <1>1, <1>2, RetireExtends
<1>4. Grows
  BY <1>2, <1>3, ExtendsGrows
<1>5. item' \in [Item -> ItemRow]
  BY <1>3 DEF Extends
<1>6. Relinks(i)
  BY <1>1, <1>2, SameLinks
<1> QED
  BY <1>1, <1>4, <1>5, <1>6, DecisionInv

\* A rebind keeps every link well formed and bound.
LEMMA RebindRelinks ==
    ASSUME StoreTypeOK, NEW i \in Item, NEW replaced, NEW live, NEW t,
           Rebind(i, replaced, live, t)
    PROVE  Relinks(i)
<1> DEFINE row == [d \in Ref |-> IF d \in replaced THEN Superseded(link[i][d])
                                 ELSE IF d = t THEN NewLink(TRUE)
                                 ELSE IF d \in live THEN Freshened(link[i][d])
                                 ELSE link[i][d]]
<1>1. link \in [Item -> [Ref -> LinkRow]]
  BY DEF StoreTypeOK
<1>2. NewLink(TRUE) \in LinkRow
  BY DEF NewLink, LinkRow
<1>3. \A d \in Ref : row[d] \in LinkRow
  BY <1>1, <1>2, RewrittenRows, ZenonT(60)
<1>4. row \in [Ref -> LinkRow]
  BY <1>3
<1>5. link' = [link EXCEPT ![i] = row]
  BY DEF Rebind
<1> HIDE DEF row
<1> QED
  BY <1>1, <1>4, <1>5 DEF Relinks, LinkTable

\* Rebinding an entry keeps the invariant.
LEMMA RebindEntryInv ==
    ASSUME Inv, NEW p \in Proc, NEW i \in Item, RebindEntry(p, i)
    PROVE  Inv'
<1>1. /\ i \in Pending(p) /\ job[p].at = "decide" /\ Done(p, i)
      /\ Stamp(job[p].batch, i, "corrected") /\ "corrected" \in Disposition
      /\ \E replaced, live, t : Rebind(i, replaced, live, t)
      /\ UNCHANGED <<item, ident>>
  BY DEF RebindEntry, Deciding, At, Resolve, Disposition
<1>2. item' \in [Item -> ItemRow] /\ Grows /\ Relinks(i)
  BY <1>1, SameItems, RebindRelinks DEF Inv, TypeOK
<1> QED
  BY <1>1, <1>2, DecisionInv

\* Re-affirming links keeps them well formed and bound.
LEMMA ReaffirmRelinks ==
    ASSUME StoreTypeOK, NEW p \in Proc, NEW i \in Item, Reaffirm(p, i)
    PROVE  Relinks(i)
<1> DEFINE row == [d \in Ref |-> IF d \in Mine(p, i) /\ ClassOf(p, d) = "semantics"
                                 THEN Freshened(link[i][d]) ELSE link[i][d]]
<1>1. link \in [Item -> [Ref -> LinkRow]]
  BY DEF StoreTypeOK
<1>2. \A d \in Ref : row[d] \in LinkRow
  BY <1>1, RewrittenRows
<1>3. row \in [Ref -> LinkRow]
  BY <1>2
<1>4. link' = [link EXCEPT ![i] = row]
  BY DEF Reaffirm
<1> HIDE DEF row
<1> QED
  BY <1>1, <1>3, <1>4 DEF Relinks, LinkTable

\* Confirming a note as current keeps the invariant.
LEMMA ConfirmCurrentEntryInv ==
    ASSUME Inv, NEW p \in Proc, NEW i \in Item, ConfirmCurrentEntry(p, i)
    PROVE  Inv'
<1>1. /\ i \in Pending(p) /\ job[p].at = "decide" /\ Done(p, i)
      /\ Stamp(job[p].batch, i, "confirmed") /\ "confirmed" \in Disposition
      /\ AppendHuman(p, i, job[p].seen[i].text)
      /\ Reaffirm(p, i)
      /\ UNCHANGED ident
  BY DEF ConfirmCurrentEntry, Deciding, At, Resolve, Disposition
<1>2. job[p].seen[i].text \in Text \cup {Reason}
  BY <1>1, DecidingKnows DEF Listing
<1>3. item' \in [Item -> ItemRow] /\ Grows
  BY <1>1, <1>2, HumanExtends
<1>4. Relinks(i)
  BY <1>1, ReaffirmRelinks DEF Inv, TypeOK
<1> QED
  BY <1>1, <1>3, <1>4, DecisionInv

-----------------------------------------------------------------------------
(* adopt refresh *)

\* A step that adds no item, no binding and no batch.
LEMMA CascadeKeepsInv ==
    ASSUME Inv, NEW p \in Proc, NEW j \in Job, Goes(p, j), issued' \in 0 .. MaxCommands,
           UNCHANGED item, link' \in LinkTable, ident' \in [Ref -> IdentRow], UNCHANGED queue,
           \A i \in Item, d \in Ref : Bound(i, d)' => Bound(i, d),
           JobKnows(j)
    PROVE  Inv'
<1>1. StoreTypeOK
  BY DEF Inv, TypeOK
<1>2. StoreTypeOK'
  BY <1>1 DEF StoreTypeOK, LinkTable
<1>3. Grows /\ KeepsEntries /\ DOMAIN queue' \ DOMAIN queue = {}
  BY <1>1, SameItemGrows, SameQueueKeeps
<1>4. JobKnows(j)'
  BY <1>1, <1>2, <1>3, KnowledgeKept
<1> QED
  BY <1>2, <1>3, <1>4, StepKeepsInv

\* What a refresh run concludes is a well-formed job.
LEMMA ConcludedType ==
    ASSUME NEW found \in [Known -> ChangeClasses \cup {"none"}], NEW fresh \in SUBSET Unseen,
           NEW to \in [{d \in Known : found[d] = "moved"} -> fresh]
    PROVE  /\ Concluded(found, to, fresh) \in RefreshJob
           /\ Concluded(found, to, fresh).at = "observe"
<1> DEFINE cls  == [d \in Ref |-> IF d \in DOMAIN found THEN found[d]
                                 ELSE IF d \in fresh /\ \A e \in DOMAIN to : to[e] # d
                                      THEN "new" ELSE "none"]
           succ == [d \in Ref |-> IF d \in DOMAIN to THEN to[d] ELSE None]
<1>1. cls \in [Ref -> Class]
  BY ClassesAssumption DEF Class, Known
<1>2. succ \in [Ref -> Ref \cup {None}] /\ fresh \in SUBSET Ref
  BY DEF Known, Unseen
<1>3. Concluded(found, to, fresh) = [at |-> "observe", cls |-> cls, succ |-> succ, fresh |-> fresh]
  BY DEF Concluded
<1> HIDE DEF cls, succ
<1> QED
  BY <1>1, <1>2, <1>3 DEF RefreshJob

\* Comparing the tree with the store keeps the invariant.
LEMMA RefreshStartInv ==
    ASSUME Inv, NEW p \in Proc, RefreshStart(p)
    PROVE  Inv'
<1>1. PICK found \in [Known -> ChangeClasses \cup {"none"}], fresh \in SUBSET Unseen :
        \E to \in [{d \in Known : found[d] = "moved"} -> fresh] : Issue(p, Concluded(found, to, fresh))
  BY Zenon DEF RefreshStart
<1>2. PICK to \in [{d \in Known : found[d] = "moved"} -> fresh] :
        Issue(p, Concluded(found, to, fresh))
  BY <1>1
<1>3. /\ Concluded(found, to, fresh) \in Job
      /\ JobKnows(Concluded(found, to, fresh))
  BY ConcludedType DEF Job, JobKnows
<1>4. UNCHANGED storeVars
  BY DEF RefreshStart
<1> QED
  BY <1>2, <1>3, <1>4, IssueCounts, ReadKeepsInv

\* Observing referents keeps the invariant.
LEMMA MapObserveInv ==
    ASSUME Inv, NEW p \in Proc, MapObserve(p)
    PROVE  Inv'
<1> SUFFICES ASSUME NEW j, j = job[p]
             PROVE  Inv'
  OBVIOUS
<1>1. j \in RefreshJob
  BY JobKinds DEF MapObserve, At, Inv
<1> DEFINE next == [j EXCEPT !.at = "moves"]
<1>2. next \in RefreshJob /\ next.at = "moves"
  BY <1>1 DEF RefreshJob
<1>3. Becomes(p, next) /\ UNCHANGED <<item, link, queue>>
  BY DEF MapObserve
<1> HIDE DEF next
<1>4. next \in Job /\ JobKnows(next)
  BY <1>2 DEF Job, JobKnows
<1>5. ident \in [Ref -> IdentRow] /\ link \in LinkTable
  BY DEF Inv, TypeOK, StoreTypeOK, LinkTable
<1>6. ident' \in [Ref -> IdentRow]
  <2>1. [status |-> "active", alias |-> None] \in IdentRow
    BY DEF IdentRow
  <2> QED
    BY <1>5, <2>1 DEF MapObserve
<1>7. \A i \in Item, d \in Ref : Bound(i, d)' => Bound(i, d)
  BY <1>3 DEF Bound
<1> QED
  BY <1>3, <1>4, <1>5, <1>6, <1>7, BecomesCounts, CascadeKeepsInv

\* Recording moves keeps the invariant.
LEMMA MapMovesInv ==
    ASSUME Inv, NEW p \in Proc, MapMoves(p)
    PROVE  Inv'
<1> SUFFICES ASSUME NEW j, j = job[p]
             PROVE  Inv'
  OBVIOUS
<1>1. j \in RefreshJob
  BY JobKinds DEF MapMoves, At, Inv
<1> DEFINE next == [j EXCEPT !.at = "record"]
<1>2. next \in RefreshJob /\ next.at = "record"
  BY <1>1 DEF RefreshJob
<1>3. Becomes(p, next) /\ UNCHANGED <<item, link, queue>>
  BY DEF MapMoves
<1> HIDE DEF next
<1>4. next \in Job /\ JobKnows(next)
  BY <1>2 DEF Job, JobKnows
<1>5. ident \in [Ref -> IdentRow] /\ link \in LinkTable
  BY DEF Inv, TypeOK, StoreTypeOK, LinkTable
<1>6. ident' \in [Ref -> IdentRow]
  <2>1. \A d \in Ref : [status |-> "moved", alias |-> j.succ[d]] \in IdentRow
    BY <1>1 DEF RefreshJob, IdentRow
  <2> QED
    BY <1>5, <2>1 DEF MapMoves
<1>7. \A i \in Item, d \in Ref : Bound(i, d)' => Bound(i, d)
  BY <1>3 DEF Bound
<1> QED
  BY <1>3, <1>4, <1>5, <1>6, <1>7, BecomesCounts, CascadeKeepsInv

\* Recording a refresh keeps the invariant.
LEMMA RecordRefreshInv ==
    ASSUME Inv, NEW p \in Proc, RecordRefresh(p)
    PROVE  Inv'
<1> SUFFICES ASSUME NEW j, j = job[p]
             PROVE  Inv'
  OBVIOUS
<1>1. j \in RefreshJob /\ j.cls \in [Ref -> Class]
  BY JobKinds DEF RecordRefresh, At, Inv, RefreshJob
<1>2. Becomes(p, Idle) /\ UNCHANGED item
  BY DEF RecordRefresh
<1>3. ident \in [Ref -> IdentRow] /\ link \in LinkTable
  BY DEF Inv, TypeOK, StoreTypeOK, LinkTable
<1>4. ident' \in [Ref -> IdentRow]
  <2>1. \A s \in {"dead", "active"} : [status |-> s, alias |-> None] \in IdentRow
    BY DEF IdentRow
  <2> QED
    BY <1>3, <2>1 DEF RecordRefresh
<1>5. \A i \in Item, d \in Ref :
         /\ Staled(link[i][d]) \in LinkRow
         /\ Staled(link[i][d]).status = link[i][d].status
  BY <1>3, RewrittenRows DEF LinkTable
<1>6. /\ link' \in LinkTable
      /\ \A i \in Item, d \in Ref : Bound(i, d)' => Bound(i, d)
  <2>1. \A i \in Item, d \in Ref :
           link'[i][d] \in {link[i][d], Staled(link[i][d])}
    BY DEF RecordRefresh
  <2>2. link' = [i \in Item |-> [d \in Ref |-> link'[i][d]]]
    BY DEF RecordRefresh
  <2>3. \A i \in Item, d \in Ref : link'[i][d] \in LinkRow /\ link'[i][d].status = link[i][d].status
    BY <1>3, <1>5, <2>1 DEF LinkTable
  <2> QED
    BY <2>2, <2>3 DEF LinkTable, Bound
<1>7. CASE UNCHANGED queue
  BY <1>2, <1>4, <1>6, <1>7, IdleJob, BecomesCounts, CascadeKeepsInv
<1>8. CASE OpenBatch("refresh", j.cls, [i \in Queued(j.cls) |-> 0])
  <2> DEFINE props == [i \in Queued(j.cls) |-> 0]
  <2>1. \A i \in Queued(j.cls) : i \in Item /\ Created(i) /\ 0 <= HeadOf(i)
    BY ItemColumns DEF Queued, Inv, ReferencesHold, LinksToItems, TypeOK
  <2>2. \A i \in DOMAIN props : props[i] \in Nat /\ Created(i) /\ props[i] <= HeadOf(i)
    BY <2>1
  <2>3. "refresh" \in Population
    BY DEF Population
  <2> HIDE DEF props
  <2>4. OpenBatch("refresh", j.cls, props)
    BY <1>8 DEF props
  <2> QED
    BY <1>1, <1>2, <1>4, <1>6, <2>2, <2>3, <2>4, IdleJob, BecomesCounts, OpenBatchInv
<1> QED
  BY <1>7, <1>8 DEF RecordRefresh

-----------------------------------------------------------------------------
(* The theorem *)

\* The empty store satisfies the invariant.
LEMMA InitInv == Init => Inv
<1> SUFFICES ASSUME Init
             PROVE  Inv
  OBVIOUS
<1>1. NoItem \in ItemRow /\ NoLink \in LinkRow
  BY DEF NoItem, NoLink, ItemRow, LinkRow
<1>2. \A s \in {"active", "absent"} : [status |-> s, alias |-> None] \in IdentRow
  BY DEF IdentRow
<1>3. StoreTypeOK
  BY <1>1, <1>2 DEF Init, StoreInit, StoreTypeOK
<1>4. TypeOK
  BY <1>3, IdleJob, CommandsAssumption DEF Init, TypeOK
<1>5. \A i \in Item, d \in Ref : ~Bound(i, d)
  BY DEF Init, StoreInit, NoLink, Bound
<1>6. DOMAIN queue = {}
  BY DEF Init, StoreInit
<1>7. ReferencesHold
  BY <1>5, <1>6, IdleJob DEF Init, ReferencesHold, LinksToItems, EntriesToRevisions
<1> QED
  BY <1>4, <1>7 DEF Inv

\* Every step, and stuttering, preserves the invariant.
LEMMA NextInv == Inv /\ [Next]_vars => Inv'
<1> SUFFICES ASSUME Inv, [Next]_vars
             PROVE  Inv'
  OBVIOUS
<1>1. CASE UNCHANGED vars
  BY <1>1 DEF vars, Inv, TypeOK, StoreTypeOK, ReferencesHold, LinksToItems, EntriesToRevisions,
              JobKnows, IngestKnows, ReviewKnows, Bound, Created, HeadOf, Members
<1>2. ASSUME NEW p \in Proc, Ingest(p)
      PROVE  Inv'
  BY <1>2, IngestStartInv, IngestDocumentInv, QueueVerificationInv, QueueSuggestionsInv DEF Ingest
<1>3. ASSUME NEW p \in Proc, Decide(p)
      PROVE  Inv'
  BY <1>3, ConfirmCandidateInv, ConfirmSuggestionsInv, EditEntryInv, RejectReadInv,
     RejectStampInv, RetireEntryInv, RebindEntryInv, ConfirmCurrentEntryInv DEF Decide
<1>4. ASSUME NEW p \in Proc, Refresh(p)
      PROVE  Inv'
  BY <1>4, RefreshStartInv, MapObserveInv, MapMovesInv, RecordRefreshInv DEF Refresh
<1>5. ASSUME NEW p \in Proc, Abandon(p) \/ BindStart(p) \/ BindPair(p) \/ ListQueue(p) \/ ReadCauses(p)
      PROVE  Inv'
  BY <1>5, AbandonInv, BindStartInv, BindPairInv, ListQueueInv, ReadCausesInv
<1> QED
  BY <1>1, <1>2, <1>3, <1>4, <1>5 DEF Next

\* In every reachable state the tables and the running commands have their
\* types, and nothing points at a row that is not there.
THEOREM ReviewInv == Spec => []Inv
BY InitInv, NextInv, PTL DEF Spec

\* Type correctness, of the tables and of what every command holds.
THEOREM TypeCorrect == Spec => []TypeOK
<1>1. Inv => TypeOK
  BY DEF Inv
<1> QED
  BY <1>1, ReviewInv, PTL

\* Referential integrity, over every interleaving and interruption.
THEOREM ReferencesCorrect == Spec => []ReferencesHold
<1>1. Inv => ReferencesHold
  BY DEF Inv
<1> QED
  BY <1>1, ReviewInv, PTL

-----------------------------------------------------------------------------
(* What the queue promises, from the kinds of step there are: a step leaves  *)
(* chains and queue alone, or writes a document's text, or opens a batch, or *)
(* takes one decision.  Each invariant below is inductive relative to Inv    *)
(* and needs one case per kind.                                             *)

\* Neither a chain nor the queue changes.
Quiet == UNCHANGED item /\ UNCHANGED queue

\* A document's text becomes the next revision of an item, over the head read.
Publishes(i) ==
    /\ UNCHANGED queue
    /\ \E rev \in Revision :
          /\ Extends(i, rev)
          /\ rev.by = 0
          /\ rev.read = HeadOf(i)
          /\ rev.text \in Text
          /\ rev.verified => item'[i].fresh = "fresh"
    /\ HeadOf(i) # 0 => item'[i].doc = item[i].doc

\* A batch is added, with every entry open; only a refresh classifies.
Opens ==
    /\ UNCHANGED item
    /\ Len(queue) < MaxBatches
    /\ KeepsEntries
    /\ DOMAIN queue' = 1 .. Len(queue) + 1
    /\ \A c \in DOMAIN queue : queue'[c] = queue[c]
    /\ queue'[Len(queue) + 1].res = "open"
    /\ queue'[Len(queue) + 1].pop = "refresh" \/ queue'[Len(queue) + 1].cls = NoClass
    /\ \A i \in Item : queue'[Len(queue) + 1].disp[i] \in {"open", "absent"}
    /\ \E i \in Item : queue'[Len(queue) + 1].disp[i] = "open"

\* An entry is stamped and no text is written.
Disposes(b, i, d) ==
    /\ UNCHANGED item
    /\ Stamp(b, i, d)

\* An open entry is stamped, and its one revision states a text over the head
\* its command had read, or is terminal.
Decides(b, i, d) ==
    /\ IsOpen(b, i)
    /\ Stamp(b, i, d)
    /\ item'[i].doc = item[i].doc
    /\ \E rev \in Revision :
          /\ Extends(i, rev)
          /\ rev.by = b
          /\ \/ /\ rev.verified
                /\ rev.read = HeadOf(i)
                /\ item'[i].fresh = "fresh"
             \/ /\ ~rev.verified
                /\ rev.text = Reason
                /\ rev.read \in 0 .. HeadOf(i)
                /\ item'[i].fresh = "retired"

StepKinds ==
    \/ Quiet
    \/ \E i \in Item : Publishes(i)
    \/ Opens
    \/ \E b \in DOMAIN queue, i \in Item, d \in Disposition :
          i \in Members(b) /\ (Disposes(b, i, d) \/ Decides(b, i, d))

\* Writing a document publishes its text, or leaves the items alone.
LEMMA PublishesKind ==
    ASSUME Inv, NEW p \in Proc, IngestDocument(p)
    PROVE  Quiet \/ \E i \in Item : Publishes(i)
<1> SUFFICES ASSUME NEW j, j = job[p]
             PROVE  Quiet \/ \E i \in Item : Publishes(i)
  OBVIOUS
<1> DEFINE d == Head(j.todo)
           rev == DocumentRevision(j, d)
<1>1. j \in IngestJob /\ IngestKnows(j) /\ j.todo # <<>> /\ StoreTypeOK
  BY JobKinds DEF IngestDocument, At, Inv, ReferencesHold, TypeOK, JobKnows
<1>2. d \in Doc
  BY <1>1 DEF IngestJob
<1>3. PICK i \in Item : WriteDocument(j, d, i)
  BY DEF IngestDocument
<1>4. UNCHANGED queue
  BY DEF IngestDocument
<1>5. /\ rev \in Revision /\ j.body[d] \in Text
      /\ rev.by = 0 /\ rev.read = j.stored[d].head /\ rev.text = j.body[d]
  BY <1>1, <1>2, DocumentRevisionType DEF DocumentRevision
<1>6. j.stored[d].item = 0 => j.stored[d].head = 0
  BY <1>1, <1>2 DEF IngestKnows
<1> HIDE DEF d, rev
<1>7. CASE UNCHANGED item
  BY <1>4, <1>7 DEF Quiet
<1>8. CASE j.stored[d].item = 0 /\ IsNextItem(i) /\ CreateItem(i, d, rev)
  <2>1. /\ Extends(i, rev) /\ HeadOf(i) = 0
        /\ item'[i].fresh = (IF Affirms(rev) THEN "fresh" ELSE "unverified")
    BY <1>1, <1>2, <1>5, <1>8, CreateExtends
  <2> QED
    BY <1>4, <1>5, <1>6, <1>8, <2>1 DEF Publishes, Affirms
<1>9. CASE AppendRevision(i, j.stored[d].head, rev)
  <2>1. /\ Extends(i, rev) /\ HeadOf(i) = j.stored[d].head
        /\ item'[i].doc = item[i].doc
        /\ item'[i].fresh = (IF Affirms(rev) THEN "fresh" ELSE item[i].fresh)
    BY <1>1, <1>5, <1>9, AppendExtends
  <2> QED
    BY <1>4, <1>5, <2>1 DEF Publishes, Affirms
<1> QED
  BY <1>3, <1>7, <1>8, <1>9 DEF WriteDocument, rev

\* Opening a batch only appends to the queue.
LEMMA OpensKind ==
    ASSUME Inv, UNCHANGED item, NEW pop \in Population, NEW cls \in [Ref -> Class], NEW props,
           \A i \in DOMAIN props : props[i] \in Nat /\ i \in Item,
           OpenBatch(pop, cls, props),
           pop = "refresh" \/ cls = NoClass
    PROVE  Opens
<1>1. PICK i \in Item : i \in DOMAIN props
  BY DEF OpenBatch
<1>2. /\ KeepsEntries
      /\ DOMAIN queue' = 1 .. Len(queue) + 1
      /\ \A c \in DOMAIN queue : queue'[c] = queue[c]
      /\ queue'[Len(queue) + 1].res = "open"
      /\ queue'[Len(queue) + 1].pop = "refresh" \/ queue'[Len(queue) + 1].cls = NoClass
      /\ \A k \in Item :
            queue'[Len(queue) + 1].disp[k] = IF k \in DOMAIN props THEN "open" ELSE "absent"
  BY OpenBatchKeeps DEF Inv, TypeOK
<1>3. Len(queue) < MaxBatches
  BY DEF OpenBatch
<1> QED
  BY <1>1, <1>2, <1>3 DEF Opens

\* The steps that open batches are of the Opens kind, or quiet.
LEMMA QueueingKind ==
    ASSUME Inv, NEW p \in Proc, QueueVerification(p) \/ QueueSuggestions(p) \/ RecordRefresh(p)
    PROVE  Quiet \/ Opens
<1> SUFFICES ASSUME NEW j, j = job[p]
             PROVE  Quiet \/ Opens
  OBVIOUS
<1>1. CASE QueueVerification(p) \/ QueueSuggestions(p)
  <2>1. j \in IngestJob /\ IngestKnows(j) /\ UNCHANGED item
    BY <1>1, JobKinds DEF QueueVerification, QueueSuggestions, At, Inv, ReferencesHold, JobKnows
  <2>2. PICK pairs : /\ pairs = j.verify \/ pairs = j.suggest
                     /\ \/ UNCHANGED queue
                        \/ OpenBatch("ingest-unverified", NoClass, Proposals(pairs))
                        \/ OpenBatch("ingest", NoClass, Proposals(pairs))
    BY <1>1 DEF QueueVerification, QueueSuggestions
  <2>3. pairs \in SUBSET (Item \X Nat)
    BY <2>1, <2>2 DEF IngestJob
  <2>4. \A i \in DOMAIN Proposals(pairs) : Proposals(pairs)[i] \in Nat /\ i \in Item
    <3>1. \A i \in DOMAIN Proposals(pairs) : Proposals(pairs)[i] \in Nat
      BY <2>1, <2>2, ProposalsKnown
    <3>2. \A i \in DOMAIN Proposals(pairs) : i \in Item
      BY <2>3 DEF Proposals
    <3> QED
      BY <3>1, <3>2
  <2>5. {"ingest", "ingest-unverified"} \subseteq Population /\ NoClass \in [Ref -> Class]
    BY DEF Population, NoClass, Class
  <2> QED
    BY <2>1, <2>2, <2>4, <2>5, OpensKind DEF Quiet
<1>2. CASE RecordRefresh(p)
  <2>1. j.cls \in [Ref -> Class] /\ UNCHANGED item
    BY <1>2, JobKinds DEF RecordRefresh, At, Inv, RefreshJob
  <2> DEFINE props == [i \in Queued(j.cls) |-> 0]
  <2>2. UNCHANGED queue \/ OpenBatch("refresh", j.cls, props)
    BY <1>2 DEF RecordRefresh
  <2>3. \A i \in DOMAIN props : props[i] \in Nat /\ i \in Item
    BY DEF Queued
  <2>4. "refresh" \in Population
    BY DEF Population
  <2> HIDE DEF props
  <2> QED
    BY <2>1, <2>2, <2>3, <2>4, OpensKind DEF Quiet
<1> QED
  BY <1>1, <1>2

\* Stamping an entry without a revision is of the Disposes kind.
LEMMA DisposesKind ==
    ASSUME Inv, NEW p \in Proc, NEW i \in Item, ConfirmSuggestions(p, i) \/ RejectStamp(p, i) \/ RebindEntry(p, i)
    PROVE  StepKinds
<1>1. /\ i \in Pending(p) /\ job[p].at \in {"decide", "stamp"}
      /\ UNCHANGED item
      /\ \E d \in Disposition : Stamp(job[p].batch, i, d)
  BY DEF ConfirmSuggestions, RejectStamp, RebindEntry, Deciding, At, Resolve, Disposition
<1>2. job[p].batch \in DOMAIN queue /\ i \in Members(job[p].batch)
  BY <1>1, DecidingKnows
<1> QED
  BY <1>1, <1>2 DEF StepKinds, Disposes

\* Resolving an entry and appending its revision is of the Decides kind.
LEMMA DecidesKind ==
    ASSUME Inv, NEW p \in Proc, NEW i \in Item,
           ConfirmCandidate(p, i) \/ EditEntry(p, i) \/ RetireEntry(p, i) \/ ConfirmCurrentEntry(p, i)
    PROVE  \E b \in DOMAIN queue, d \in Disposition : i \in Members(b) /\ Decides(b, i, d)
<1> DEFINE Answers == \E b \in DOMAIN queue, d \in Disposition :
                         i \in Members(b) /\ Decides(b, i, d)
<1> SUFFICES ASSUME NEW b, b = job[p].batch
             PROVE  Answers
  OBVIOUS
<1>1. /\ i \in Pending(p) /\ job[p].at \in {"causes", "decide", "stamp"} /\ IsOpen(b, i)
      /\ \E d \in Disposition : Stamp(b, i, d)
  BY DEF ConfirmCandidate, EditEntry, RetireEntry, ConfirmCurrentEntry, Deciding, At, Resolve, Disposition
<1>2. /\ b \in DOMAIN queue /\ b \in Nat /\ i \in Members(b)
      /\ job[p].seen[i].head \in 1 .. HeadOf(i) /\ job[p].seen[i] \in Listing
  BY <1>1, DecidingKnows
<1>3. HeadOf(i) \in Nat /\ StoreTypeOK /\ job[p].seen[i].head \in Nat
  BY <1>2, ItemColumns DEF Inv, TypeOK, Listing
<1>4. ASSUME NEW text \in Text \cup {Reason}, AppendHuman(p, i, text)
      PROVE  Answers
  <2>1. /\ HumanRevision(p, i, text) \in Revision
        /\ Extends(i, HumanRevision(p, i, text))
        /\ HeadOf(i) = job[p].seen[i].head
        /\ item'[i].doc = item[i].doc
        /\ item'[i].fresh = "fresh"
    BY <1>1, <1>4, HumanExtends
  <2>2. /\ HumanRevision(p, i, text).by = b
        /\ HumanRevision(p, i, text).verified
        /\ HumanRevision(p, i, text).read = job[p].seen[i].head
    BY DEF HumanRevision
  <2>3. \E d \in Disposition : Decides(b, i, d)
    BY <1>1, <2>1, <2>2 DEF Decides
  <2> QED
    BY <1>2, <2>3
<1>5. CASE RetireEntry(p, i)
  <2> DEFINE rev == TerminalRevision(b, job[p].seen[i].head)
  <2>1. RetireItem(i, b, job[p].seen[i].head)
    BY <1>5 DEF RetireEntry
  <2>2. Extends(i, rev) /\ item'[i].fresh = "retired" /\ item'[i].doc = item[i].doc
    BY <1>2, <1>3, <2>1, RetireExtends
  <2>3. /\ rev \in Revision /\ rev.by = b /\ ~rev.verified
        /\ rev.text = Reason /\ rev.read = job[p].seen[i].head
    BY <1>2, <1>3 DEF TerminalRevision, Revision
  <2>4. rev.read \in 0 .. HeadOf(i)
    BY <1>2, <1>3, <2>3
  <2> HIDE DEF rev
  <2>5. \E d \in Disposition : Decides(b, i, d)
    BY <1>1, <2>2, <2>3, <2>4 DEF Decides
  <2> QED
    BY <1>2, <2>5
<1>6. job[p].seen[i].text \in Text \cup {Reason}
  BY <1>2 DEF Listing
<1> QED
  BY <1>4, <1>5, <1>6 DEF ConfirmCandidate, EditEntry, ConfirmCurrentEntry

\* Every step is of one of the kinds.
LEMMA EveryStepKind ==
    ASSUME Inv, [Next]_vars
    PROVE  StepKinds
<1>1. CASE UNCHANGED vars
  BY <1>1 DEF vars, StepKinds, Quiet
<1>2. ASSUME NEW p \in Proc, Ingest(p)
      PROVE  StepKinds
  <2>1. CASE IngestStart(p)
    BY <2>1 DEF IngestStart, storeVars, StepKinds, Quiet
  <2> QED
    BY <1>2, <2>1, PublishesKind, QueueingKind DEF Ingest, StepKinds
<1>3. ASSUME NEW p \in Proc, NEW i \in Item, RejectRead(p, i)
      PROVE  StepKinds
  BY <1>3 DEF RejectRead, storeVars, StepKinds, Quiet
<1>4. ASSUME NEW p \in Proc, Decide(p)
      PROVE  StepKinds
  <2>1. ASSUME NEW i \in Item,
               ConfirmCandidate(p, i) \/ EditEntry(p, i) \/ RetireEntry(p, i)
                  \/ ConfirmCurrentEntry(p, i)
        PROVE  StepKinds
    BY <2>1, DecidesKind DEF StepKinds
  <2> QED
    BY <1>3, <1>4, <2>1, DisposesKind DEF Decide
<1>5. ASSUME NEW p \in Proc, Refresh(p)
      PROVE  StepKinds
  <2>1. CASE RefreshStart(p) \/ MapObserve(p) \/ MapMoves(p)
    BY <2>1 DEF RefreshStart, MapObserve, MapMoves, storeVars, StepKinds, Quiet
  <2> QED
    BY <1>5, <2>1, QueueingKind DEF Refresh, StepKinds
<1>6. ASSUME NEW p \in Proc, Abandon(p) \/ BindStart(p) \/ BindPair(p) \/ ListQueue(p) \/ ReadCauses(p)
      PROVE  StepKinds
  BY <1>6 DEF Abandon, BindStart, BindPair, ListQueue, ReadCauses, storeVars, StepKinds, Quiet
<1> QED
  BY <1>1, <1>2, <1>4, <1>5, <1>6 DEF Next

-----------------------------------------------------------------------------

\* The chain after a write: the revisions there were, and the new one.
LEMMA ExtendedChain ==
    ASSUME Inv, NEW i \in Item, NEW rev \in Revision, Extends(i, rev)
    PROVE  /\ HeadOf(i) \in Nat
           /\ DOMAIN item[i].chain = 1 .. HeadOf(i)
           /\ DOMAIN item'[i].chain = 1 .. HeadOf(i) + 1
           /\ item'[i].chain[HeadOf(i) + 1] = rev
           /\ \A n \in 1 .. HeadOf(i) : item'[i].chain[n] = item[i].chain[n]
<1>1. item[i].chain \in Seq(Revision)
  BY ItemColumns DEF Inv, TypeOK
<1> QED
  BY <1>1 DEF Extends, HeadOf

\* No kind of step loses an update.
LEMMA NoLostUpdateStep ==
    ASSUME Inv, NoLostUpdate, StepKinds
    PROVE  NoLostUpdate'
<1>1. CASE UNCHANGED item
  BY <1>1 DEF NoLostUpdate
<1>2. ASSUME NEW i \in Item, NEW rev \in Revision, Extends(i, rev),
             ~Terminal(rev) => rev.read = HeadOf(i)
      PROVE  NoLostUpdate'
  <2> SUFFICES ASSUME NEW k \in Item, NEW n \in DOMAIN item'[k].chain,
                      ~Terminal(item'[k].chain[n])
               PROVE  item'[k].chain[n].read = n - 1
    BY DEF NoLostUpdate
  <2>1. CASE k # i
    <3>1. item'[k] = item[k]
      BY <1>2, <2>1 DEF Extends
    <3>2. n \in DOMAIN item[k].chain /\ ~Terminal(item[k].chain[n])
      BY <3>1
    <3>3. item[k].chain[n].read = n - 1
      BY <3>2 DEF NoLostUpdate
    <3> QED
      BY <3>1, <3>3
  <2>2. CASE k = i /\ n \in 1 .. HeadOf(i)
    <3>1. n \in DOMAIN item[i].chain /\ item'[i].chain[n] = item[i].chain[n]
      BY <1>2, <2>2, ExtendedChain
    <3>2. ~Terminal(item[i].chain[n])
      BY <2>2, <3>1
    <3>3. item[i].chain[n].read = n - 1
      BY <3>1, <3>2 DEF NoLostUpdate
    <3> QED
      BY <2>2, <3>1, <3>3
  <2>3. CASE k = i /\ n = HeadOf(i) + 1
    BY <1>2, <2>3, ExtendedChain
  <2> QED
    BY <1>2, <2>1, <2>2, <2>3, ExtendedChain
<1>3. ASSUME NEW i \in Item, Publishes(i)
      PROVE  NoLostUpdate'
  BY <1>2, <1>3 DEF Publishes
<1>4. ASSUME NEW b \in DOMAIN queue, NEW i \in Item, NEW d \in Disposition, Decides(b, i, d)
      PROVE  NoLostUpdate'
  BY <1>2, <1>4 DEF Decides, Terminal
<1> QED
  BY <1>1, <1>3, <1>4 DEF StepKinds, Quiet, Opens, Disposes

\* Every text supersedes the head its own command had read.
THEOREM NoLostUpdateHolds == Spec => []NoLostUpdate
<1>1. Init => NoLostUpdate
  BY DEF Init, StoreInit, NoItem, NoLostUpdate
<1>2. Inv /\ NoLostUpdate /\ [Next]_vars => NoLostUpdate'
  BY EveryStepKind, NoLostUpdateStep
<1> QED
  BY <1>1, <1>2, ReviewInv, PTL DEF Spec

-----------------------------------------------------------------------------

\* No kind of step parts an item from the freshness of its head.
LEMMA HeadGovernsFreshnessStep ==
    ASSUME Inv, HeadGovernsFreshness, StepKinds
    PROVE  HeadGovernsFreshness'
<1>1. CASE UNCHANGED item
  BY <1>1 DEF HeadGovernsFreshness, Created, HeadRow, HeadOf, Terminal
<1>2. ASSUME NEW i \in Item, NEW rev \in Revision, Extends(i, rev),
             rev.verified => item'[i].fresh = "fresh",
             Terminal(rev) => item'[i].fresh = "retired"
      PROVE  HeadGovernsFreshness'
  <2>1. HeadRow(i)' = rev
    BY <1>2, ExtendedChain DEF HeadRow, HeadOf, Extends
  <2>2. \A k \in Item \ {i} : item'[k] = item[k]
    BY <1>2 DEF Extends
  <2> QED
    BY <1>2, <2>1, <2>2 DEF HeadGovernsFreshness, Created, HeadRow, HeadOf, Terminal
<1>3. ASSUME NEW i \in Item, Publishes(i)
      PROVE  HeadGovernsFreshness'
  BY <1>2, <1>3, ValuesAssumption DEF Publishes, Terminal
<1>4. ASSUME NEW b \in DOMAIN queue, NEW i \in Item, NEW d \in Disposition, Decides(b, i, d)
      PROVE  HeadGovernsFreshness'
  BY <1>2, <1>4 DEF Decides, Terminal
<1> QED
  BY <1>1, <1>3, <1>4 DEF StepKinds, Quiet, Opens, Disposes

\* A verified head is served as fresh, a terminal one as retired.
THEOREM HeadGovernsFreshnessHolds == Spec => []HeadGovernsFreshness
<1>1. Init => HeadGovernsFreshness
  BY DEF Init, StoreInit, NoItem, HeadGovernsFreshness, Created
<1>2. Inv /\ HeadGovernsFreshness /\ [Next]_vars => HeadGovernsFreshness'
  BY EveryStepKind, HeadGovernsFreshnessStep
<1> QED
  BY <1>1, <1>2, ReviewInv, PTL DEF Spec

-----------------------------------------------------------------------------

\* The dispositions after a stamp: one is new, the others are as they were.
LEMMA StampedDispositions ==
    ASSUME Inv, NEW b \in DOMAIN queue, NEW i \in Members(b), NEW d \in Disposition,
           Stamp(b, i, d)
    PROVE  /\ DOMAIN queue' = DOMAIN queue
           /\ \A c \in DOMAIN queue, k \in Item :
                 queue'[c].disp[k] = IF c = b /\ k = i THEN d ELSE queue[c].disp[k]
<1>1. /\ DOMAIN queue' = DOMAIN queue
      /\ \A c \in DOMAIN queue \ {b} : queue'[c] = queue[c]
      /\ queue'[b].disp = [queue[b].disp EXCEPT ![i] = d]
  BY StampKeeps, ZenonT(60) DEF Inv, TypeOK
<1>2. DOMAIN queue[b].disp = Item
  BY BatchColumns DEF Inv, TypeOK, BatchRow
<1> QED
  BY <1>1, <1>2

\* Decisions stay decided: an entry with a disposition keeps one.
LEMMA StillDecided ==
    ASSUME Inv, StepKinds, NEW b \in DOMAIN queue, NEW i \in Item,
           queue[b].disp[i] \in Disposition
    PROVE  b \in DOMAIN queue' /\ queue'[b].disp[i] \in Disposition
<1>1. CASE UNCHANGED queue
  BY <1>1
<1>2. CASE Opens
  <2>1. b \in 1 .. Len(queue) /\ Len(queue) \in Nat
    BY BatchColumns DEF Inv, TypeOK, StoreTypeOK
  <2> QED
    BY <1>2, <2>1 DEF Opens
<1>3. ASSUME NEW c \in DOMAIN queue, NEW k \in Members(c), NEW d \in Disposition, Stamp(c, k, d)
      PROVE  b \in DOMAIN queue' /\ queue'[b].disp[i] \in Disposition
  BY <1>3, StampedDispositions
<1> QED
  BY <1>1, <1>2, <1>3 DEF StepKinds, Quiet, Publishes, Disposes, Decides

\* No kind of step writes twice on one decision.
LEMMA OneWritePerDecisionStep ==
    ASSUME Inv, OneWritePerDecision, StepKinds
    PROVE  OneWritePerDecision'
<1> DEFINE Written(i, n) ==
             LET b == item[i].chain[n].by
             IN  b # 0 =>
                   /\ b \in DOMAIN queue
                   /\ queue[b].disp[i] \in Disposition
                   /\ \A m \in DOMAIN item[i].chain : item[i].chain[m].by = b => m = n
<1>1. \A i \in Item : \A n \in DOMAIN item[i].chain : Written(i, n)
  BY DEF OneWritePerDecision
<1>2. SUFFICES ASSUME NEW k \in Item, NEW n \in DOMAIN item'[k].chain, NEW b,
                      b = item'[k].chain[n].by, b # 0
               PROVE  /\ b \in DOMAIN queue'
                      /\ queue'[b].disp[k] \in Disposition
                      /\ \A m \in DOMAIN item'[k].chain : item'[k].chain[m].by = b => m = n
  BY DEF OneWritePerDecision
<1>3. CASE item'[k].chain = item[k].chain
  <2>1. /\ b \in DOMAIN queue /\ queue[b].disp[k] \in Disposition
        /\ \A m \in DOMAIN item[k].chain : item[k].chain[m].by = b => m = n
    BY <1>1, <1>2, <1>3
  <2> QED
    BY <1>3, <2>1, StillDecided
<1>4. ASSUME NEW rev \in Revision, Extends(k, rev), rev.by = 0
      PROVE  /\ b \in DOMAIN queue'
             /\ queue'[b].disp[k] \in Disposition
             /\ \A m \in DOMAIN item'[k].chain : item'[k].chain[m].by = b => m = n
  <2>1. /\ HeadOf(k) \in Nat
        /\ DOMAIN item[k].chain = 1 .. HeadOf(k)
        /\ DOMAIN item'[k].chain = 1 .. HeadOf(k) + 1
        /\ item'[k].chain[HeadOf(k) + 1] = rev
        /\ \A m \in 1 .. HeadOf(k) : item'[k].chain[m] = item[k].chain[m]
    BY <1>4, ExtendedChain
  <2>2. n \in 1 .. HeadOf(k) /\ item[k].chain[n].by = b
    BY <1>2, <1>4, <2>1
  <2>3. /\ b \in DOMAIN queue /\ queue[b].disp[k] \in Disposition
        /\ \A m \in 1 .. HeadOf(k) : item[k].chain[m].by = b => m = n
    BY <1>1, <1>2, <2>1, <2>2
  <2>4. \A m \in 1 .. HeadOf(k) + 1 : item'[k].chain[m].by = b => m \in 1 .. HeadOf(k)
    BY <1>2, <1>4, <2>1
  <2>5. \A m \in DOMAIN item'[k].chain : item'[k].chain[m].by = b => m = n
    BY <2>1, <2>3, <2>4
  <2> QED
    BY <2>3, <2>5, StillDecided
<1>5. ASSUME NEW c \in DOMAIN queue, NEW d \in Disposition, k \in Members(c), Decides(c, k, d)
      PROVE  /\ b \in DOMAIN queue'
             /\ queue'[b].disp[k] \in Disposition
             /\ \A m \in DOMAIN item'[k].chain : item'[k].chain[m].by = b => m = n
  <2>1. PICK rev \in Revision : Extends(k, rev) /\ rev.by = c
    BY <1>5 DEF Decides
  <2>2. queue[c].disp[k] = "open" /\ Stamp(c, k, d) /\ "open" \notin Disposition
    BY <1>5 DEF Decides, IsOpen, Disposition
  <2>3. c \in DOMAIN queue' /\ queue'[c].disp[k] \in Disposition
    BY <1>5, <2>2, StampedDispositions
  <2>4. /\ HeadOf(k) \in Nat
        /\ DOMAIN item[k].chain = 1 .. HeadOf(k)
        /\ DOMAIN item'[k].chain = 1 .. HeadOf(k) + 1
        /\ item'[k].chain[HeadOf(k) + 1] = rev
        /\ \A m \in 1 .. HeadOf(k) : item'[k].chain[m] = item[k].chain[m]
    BY <2>1, ExtendedChain
  <2>5. \A m \in 1 .. HeadOf(k) : item[k].chain[m].by # c
    <3>1. c # 0
      BY <1>5, BatchColumns DEF Inv, TypeOK
    <3> QED
      BY <1>1, <2>2, <2>4, <3>1
  <2>6. \A m \in 1 .. HeadOf(k) + 1 : item'[k].chain[m].by = c <=> m = HeadOf(k) + 1
    <3>1. \A m \in 1 .. HeadOf(k) + 1 : m \in 1 .. HeadOf(k) \/ m = HeadOf(k) + 1
      BY <2>4
    <3>2. \A m \in 1 .. HeadOf(k) : item'[k].chain[m].by # c
      <4>1. \A m \in 1 .. HeadOf(k) : item'[k].chain[m] = item[k].chain[m]
        BY <2>4
      <4> QED
        BY <2>5, <4>1
    <3>3. \A m \in 1 .. HeadOf(k) : m # HeadOf(k) + 1
      BY <2>4
    <3> QED
      BY <2>1, <2>4, <3>1, <3>2, <3>3
  <2>7. CASE n = HeadOf(k) + 1
    <3>1. b = c
      BY <1>2, <2>1, <2>4, <2>7
    <3> QED
      BY <2>3, <2>4, <2>6, <2>7, <3>1
  <2>8. CASE n \in 1 .. HeadOf(k)
    <3>1. item[k].chain[n].by = b /\ b # c
      BY <1>2, <2>4, <2>5, <2>8
    <3>2. /\ b \in DOMAIN queue /\ queue[b].disp[k] \in Disposition
          /\ \A m \in 1 .. HeadOf(k) : item[k].chain[m].by = b => m = n
      BY <1>1, <1>2, <2>4, <2>8, <3>1, SMTT(30)
    <3>3. \A m \in DOMAIN item'[k].chain : item'[k].chain[m].by = b => m = n
      <4>1. \A m \in 1 .. HeadOf(k) + 1 : item'[k].chain[m].by = b => m \in 1 .. HeadOf(k)
        BY <2>1, <2>4, <3>1
      <4> QED
        BY <2>4, <3>2, <4>1
    <3> QED
      BY <3>2, <3>3, StillDecided
  <2> QED
    BY <2>4, <2>7, <2>8
<1>6. CASE UNCHANGED item
  BY <1>3, <1>6
<1>7. ASSUME NEW i \in Item, i # k, NEW rev, Extends(i, rev)
      PROVE  item'[k].chain = item[k].chain
  BY <1>7 DEF Extends
<1>8. ASSUME NEW i \in Item, Publishes(i)
      PROVE  \/ item'[k].chain = item[k].chain
             \/ \E rev \in Revision : Extends(k, rev) /\ rev.by = 0
  BY <1>7, <1>8 DEF Publishes
<1>9. ASSUME NEW c \in DOMAIN queue, NEW i \in Item, NEW d \in Disposition, Decides(c, i, d)
      PROVE  item'[k].chain = item[k].chain \/ i = k
  BY <1>7, <1>9 DEF Decides
<1> QED
  BY <1>3, <1>4, <1>5, <1>6, <1>8, <1>9 DEF StepKinds, Quiet, Opens, Disposes

\* One decision writes at most once, and is then decided.
THEOREM OneWritePerDecisionHolds == Spec => []OneWritePerDecision
<1>1. Init => OneWritePerDecision
  BY DEF Init, StoreInit, NoItem, OneWritePerDecision
<1>2. Inv /\ OneWritePerDecision /\ [Next]_vars => OneWritePerDecision'
  BY EveryStepKind, OneWritePerDecisionStep
<1> QED
  BY <1>1, <1>2, ReviewInv, PTL DEF Spec

-----------------------------------------------------------------------------

\* What BatchResolution makes of the outcomes of a closed batch.
LEMMA ClosedOutcome ==
    ASSUME NEW outcomes, NEW d \in outcomes
    PROVE  BatchResolution(outcomes) =
              IF \A o \in outcomes : o = "confirmed" THEN "confirmed"
              ELSE IF \A o \in outcomes : o = "rejected" THEN "rejected"
              ELSE "corrected"
BY DEF BatchResolution

\* No kind of step parts a batch from its entries.
LEMMA BatchClosesStep ==
    ASSUME Inv, BatchClosesWithLastEntry, StepKinds
    PROVE  BatchClosesWithLastEntry'
<1> DEFINE Settled(row, members) ==
             IF \E i \in Item : row.disp[i] = "open" THEN row.res = "open"
             ELSE row.res = IF \A i \in members : row.disp[i] = "confirmed" THEN "confirmed"
                            ELSE IF \A i \in members : row.disp[i] = "rejected" THEN "rejected"
                            ELSE "corrected"
<1>1. \A b \in DOMAIN queue : Settled(queue[b], Members(b))
  BY DEF BatchClosesWithLastEntry
<1>2. SUFFICES \A b \in DOMAIN queue' : Settled(queue'[b], Members(b)')
  BY DEF BatchClosesWithLastEntry
<1> HIDE DEF Settled
<1>3. CASE UNCHANGED queue
  BY <1>1, <1>3 DEF Members
<1>4. CASE Opens
  <2>1. Len(queue) \in Nat /\ DOMAIN queue = 1 .. Len(queue)
    BY DEF Inv, TypeOK, StoreTypeOK
  <2>2. \A b \in DOMAIN queue : queue'[b] = queue[b] /\ Members(b)' = Members(b)
    BY <1>4 DEF Opens, KeepsEntries
  <2>3. \A b \in DOMAIN queue' : b \in DOMAIN queue \/ b = Len(queue) + 1
    BY <1>4, <2>1 DEF Opens
  <2>4. \A members : Settled(queue'[Len(queue) + 1], members)
    BY <1>4 DEF Opens, Settled
  <2> TAKE b \in DOMAIN queue'
  <2>5. CASE b \in DOMAIN queue
    BY <1>1, <2>2, <2>5
  <2>6. CASE b = Len(queue) + 1
    BY <2>4, <2>6
  <2> QED
    BY <2>3, <2>5, <2>6
<1>5. ASSUME NEW b \in DOMAIN queue, NEW i \in Members(b), NEW d \in Disposition, Stamp(b, i, d)
      PROVE  \A c \in DOMAIN queue' : Settled(queue'[c], Members(c)')
  <2> DEFINE outcomes == {queue'[b].disp[j] : j \in Members(b)}
  <2>1. /\ KeepsEntries
        /\ DOMAIN queue' = DOMAIN queue
        /\ \A c \in DOMAIN queue \ {b} : queue'[c] = queue[c]
        /\ queue'[b].res = IF "open" \in outcomes THEN queue[b].res ELSE BatchResolution(outcomes)
    BY <1>5, StampKeeps DEF Inv, TypeOK
  <2>2. Members(b)' = Members(b) /\ i \in Item
    BY <1>5, <2>1 DEF KeepsEntries, Members
  <2>3. \A c \in DOMAIN queue \ {b} : Settled(queue'[c], Members(c)')
    BY <1>1, <2>1 DEF KeepsEntries
  <2>4. \A k \in Item : queue'[b].disp[k] = IF k = i THEN d ELSE queue[b].disp[k]
    BY <1>5, StampedDispositions
  <2>5. "open" \in outcomes <=> \E k \in Item : queue'[b].disp[k] = "open"
    BY <2>2, <2>4 DEF Members
  <2>6. CASE "open" \in outcomes
    <3>1. PICK k \in Item : queue'[b].disp[k] = "open"
      BY <2>5, <2>6
    <3>2. queue[b].disp[k] = "open"
      BY <2>4, <3>1 DEF Disposition
    <3>3. queue[b].res = "open"
      BY <1>1, <1>5, <3>2 DEF Settled
    <3>4. Settled(queue'[b], Members(b)')
      BY <2>1, <2>6, <3>1, <3>3 DEF Settled
    <3> QED
      BY <2>1, <2>3, <3>4
  <2>7. CASE "open" \notin outcomes
    <3>1. d \in outcomes
      BY <1>5, <2>2, <2>4
    <3>2. queue'[b].res = IF \A o \in outcomes : o = "confirmed" THEN "confirmed"
                          ELSE IF \A o \in outcomes : o = "rejected" THEN "rejected"
                          ELSE "corrected"
      BY <2>1, <2>7, <3>1, ClosedOutcome
    <3>3. /\ (\A o \in outcomes : o = "confirmed") <=> \A k \in Members(b) : queue'[b].disp[k] = "confirmed"
          /\ (\A o \in outcomes : o = "rejected") <=> \A k \in Members(b) : queue'[b].disp[k] = "rejected"
      OBVIOUS
    <3>4. Settled(queue'[b], Members(b)')
      BY <2>2, <2>5, <2>7, <3>2, <3>3 DEF Settled
    <3> QED
      BY <2>1, <2>3, <3>4
  <2> QED
    BY <2>6, <2>7
<1> QED
  BY <1>3, <1>4, <1>5 DEF StepKinds, Quiet, Publishes, Disposes, Decides

\* A batch closes with its last open entry, with the outcome of its entries.
THEOREM BatchClosesHolds == Spec => []BatchClosesWithLastEntry
<1>1. Init => BatchClosesWithLastEntry
  BY DEF Init, StoreInit, BatchClosesWithLastEntry
<1>2. Inv /\ BatchClosesWithLastEntry /\ [Next]_vars => BatchClosesWithLastEntry'
  BY EveryStepKind, BatchClosesStep
<1> QED
  BY <1>1, <1>2, ReviewInv, PTL DEF Spec

-----------------------------------------------------------------------------
(* The store implements the ledger *)

QueueBounded == Len(queue) <= MaxBatches

\* The queue stays within its bound.
LEMMA QueueBoundedStep ==
    ASSUME Inv, QueueBounded, StepKinds
    PROVE  QueueBounded'
<1>1. CASE UNCHANGED queue
  BY <1>1 DEF QueueBounded
<1>2. CASE Opens
  <2>1. Len(queue) \in Nat /\ Len(queue') \in Nat /\ DOMAIN queue' = 1 .. Len(queue')
    BY <1>2 DEF Inv, TypeOK, StoreTypeOK, Opens, KeepsEntries
  <2>2. Len(queue') = Len(queue) + 1
    BY <1>2, <2>1 DEF Opens
  <2> QED
    BY <1>2, <2>1, <2>2, BoundsAssumption DEF Opens, QueueBounded
<1>3. ASSUME NEW b \in DOMAIN queue, NEW i \in Members(b), NEW d \in Disposition, Stamp(b, i, d)
      PROVE  QueueBounded'
  <2>1. DOMAIN queue' = DOMAIN queue /\ queue' \in Seq(BatchRow) /\ queue \in Seq(BatchRow)
    BY <1>3, StampKeeps DEF Inv, TypeOK, StoreTypeOK, KeepsEntries
  <2>2. Len(queue') = Len(queue)
    BY <2>1
  <2> QED
    BY <2>2 DEF QueueBounded
<1> QED
  BY <1>1, <1>2, <1>3 DEF StepKinds, Quiet, Publishes, Disposes, Decides

log   == [i \in Item |-> LogOf(item[i].chain)]
spent == {e \in Entries : ~IsOpen(e[1], e[2])}

LogRow == [by : Nat, read : Nat, ends : BOOLEAN]

LEMMA RowsAreSeq ==
    ASSUME NEW S, NEW n \in Nat, NEW rows \in [1 .. n -> S]
    PROVE  rows \in Seq(S)
OBVIOUS

\* One more revision on a chain is one more entry in its log.
LEMMA LogExtends ==
    ASSUME Inv, NEW i \in Item, NEW rev \in Revision, Extends(i, rev)
    PROVE  /\ Len(log[i]) = HeadOf(i)
           /\ log' = [log EXCEPT ![i] = Append(@, [by |-> rev.by, read |-> rev.read,
                                                        ends |-> Terminal(rev)])]
<1> DEFINE Row(r) == [by |-> r.by, read |-> r.read, ends |-> Terminal(r)]
           N == HeadOf(i)
<1>1. /\ N \in Nat
      /\ DOMAIN item[i].chain = 1 .. N
      /\ DOMAIN item'[i].chain = 1 .. N + 1
      /\ item'[i].chain[N + 1] = rev
      /\ \A n \in 1 .. N : item'[i].chain[n] = item[i].chain[n]
  BY ExtendedChain
<1> HIDE DEF N
<1>2. log[i] = [n \in 1 .. N |-> Row(item[i].chain[n])]
  BY <1>1 DEF log, LogOf
<1>3. log'[i] = [n \in 1 .. N + 1 |-> Row(item'[i].chain[n])]
  BY <1>1 DEF log, LogOf
<1>4. \A k \in Item \ {i} : log'[k] = log[k]
  BY DEF log, Extends
<1>5. Len(log[i]) = N
  BY <1>1, <1>2
<1>6. log'[i] = Append(log[i], Row(rev))
  <2>1. log[i] \in Seq(LogRow)
    <3>1. item[i].chain \in Seq(Revision)
      BY ItemColumns DEF Inv, TypeOK
    <3>2. \A n \in 1 .. N : item[i].chain[n] \in Revision
      BY <1>1, <3>1
    <3>3. \A n \in 1 .. N : Row(item[i].chain[n]) \in LogRow
      BY <3>2 DEF Revision, Terminal, LogRow
    <3> HIDE DEF Row
    <3>4. log[i] \in [1 .. N -> LogRow]
      BY <1>2, <3>3
    <3> QED
      BY <1>1, <3>4, RowsAreSeq
  <2>2. Append(log[i], Row(rev)) = [n \in 1 .. N + 1 |-> IF n = N + 1 THEN Row(rev) ELSE log[i][n]]
    BY <1>1, <1>5, <2>1
  <2>3. \A n \in 1 .. N + 1 : Row(item'[i].chain[n]) = IF n = N + 1 THEN Row(rev) ELSE log[i][n]
    BY <1>1, <1>2
  <2> QED
    BY <1>3, <2>2, <2>3
<1>7. log' = [log EXCEPT ![i] = log'[i]]
  BY <1>4 DEF log
<1> QED
  BY <1>5, <1>6, <1>7 DEF N

\* A stamp spends the one decision, if it was not spent.
LEMMA StampSpends ==
    ASSUME Inv, NEW b \in DOMAIN queue, NEW i \in Members(b), NEW d \in Disposition, Stamp(b, i, d)
    PROVE  /\ spent' = spent \cup {<<b, i>>}
           /\ <<b, i>> \in spent <=> ~IsOpen(b, i)
<1>1. /\ DOMAIN queue' = DOMAIN queue
      /\ \A c \in DOMAIN queue, k \in Item :
            queue'[c].disp[k] = IF c = b /\ k = i THEN d ELSE queue[c].disp[k]
  BY StampedDispositions
<1>2. i \in Item /\ queue[b].disp[i] # "absent" /\ d # "open" /\ d # "absent"
  BY DEF Members, Disposition
<1>3. \A e : e \in spent <=> /\ e \in (DOMAIN queue) \X Item
                             /\ queue[e[1]].disp[e[2]] \notin {"absent", "open"}
  BY DEF spent, Entries, IsOpen
<1>4. \A e : e \in spent' <=> /\ e \in (DOMAIN queue') \X Item
                              /\ queue'[e[1]].disp[e[2]] \notin {"absent", "open"}
  BY DEF spent, Entries, IsOpen
<1>5. \A e \in (DOMAIN queue) \X Item : e \in spent' <=> e \in spent \/ e = <<b, i>>
  BY <1>1, <1>2, <1>3, <1>4
<1> QED
  BY <1>1, <1>2, <1>3, <1>4, <1>5 DEF IsOpen

\* The empty store is the empty ledger.
LEMMA LedgerInit == Init => Ledger!LedgerInit
<1> SUFFICES ASSUME Init
             PROVE  Ledger!LedgerInit
  OBVIOUS
<1>1. \A i \in Item : LogOf(item[i].chain) = <<>>
  BY DEF Init, StoreInit, NoItem, LogOf
<1>2. spent = {}
  BY DEF Init, StoreInit, spent, Entries
<1> QED
  BY <1>1, <1>2 DEF Ledger!LedgerInit, spent

\* Every kind of step is a ledger step, or leaves the ledger alone.
LEMMA LedgerStep ==
    ASSUME Inv, QueueBounded, StepKinds
    PROVE  [Ledger!LedgerNext]_(Ledger!ledgerVars)
<1> SUFFICES [Ledger!LedgerNext]_<<log, spent>>
  BY DEF Ledger!ledgerVars, log, spent
<1>1. UNCHANGED item => UNCHANGED log
  BY DEF log
<1>2. UNCHANGED queue => UNCHANGED spent
  BY DEF spent, Entries, IsOpen
<1>3. CASE Quiet
  BY <1>1, <1>2, <1>3 DEF Quiet
<1>4. ASSUME NEW i \in Item, Publishes(i)
      PROVE  Ledger!LedgerNext
  <2>1. PICK rev \in Revision : /\ Extends(i, rev) /\ rev.by = 0
                                /\ rev.read = HeadOf(i) /\ ~Terminal(rev)
    BY <1>4, ValuesAssumption DEF Publishes, Terminal
  <2>2. log' = [log EXCEPT ![i] = Append(@, [by |-> 0, read |-> Len(@), ends |-> FALSE])]
    <3>1. Terminal(rev) = FALSE
      BY <2>1 DEF Terminal
    <3>2. /\ Len(log[i]) = HeadOf(i)
          /\ log' = [log EXCEPT ![i] = Append(@, [by |-> rev.by, read |-> rev.read,
                                                       ends |-> Terminal(rev)])]
      BY <2>1, LogExtends
    <3> QED
      BY <2>1, <3>1, <3>2
  <2>3. UNCHANGED spent
    BY <1>2, <1>4 DEF Publishes
  <2>4. Ledger!Publish(i)
    BY <2>2, <2>3 DEF Ledger!Publish, Ledger!Added, log, spent
  <2> QED
    BY <2>4 DEF Ledger!LedgerNext
<1>5. CASE Opens
  <2>1. spent' = spent
    <3>1. /\ DOMAIN queue = 1 .. Len(queue) /\ Len(queue) \in Nat
          /\ DOMAIN queue' = 1 .. Len(queue) + 1
      BY <1>5 DEF Inv, TypeOK, StoreTypeOK, Opens
    <3>2. \A e : e \in spent' =>
             /\ e \in (1 .. Len(queue) + 1) \X Item
             /\ queue'[e[1]].disp[e[2]] \notin {"absent", "open"}
      BY <3>1 DEF spent, Entries, IsOpen
    <3>3. \A e \in spent' : e[1] # Len(queue) + 1
      BY <1>5, <3>2 DEF Opens
    <3>4. \A e \in (DOMAIN queue) \X Item : e \in spent' <=> e \in spent
      BY <1>5, <3>1 DEF spent, Entries, IsOpen, Opens
    <3>5. spent \subseteq (DOMAIN queue) \X Item
      BY DEF spent, Entries
    <3>6. spent' \subseteq (DOMAIN queue) \X Item
      BY <3>1, <3>2, <3>3
    <3> QED
      BY <3>4, <3>5, <3>6
  <2> QED
    BY <1>1, <1>5, <2>1 DEF Opens
<1>6. ASSUME NEW b \in DOMAIN queue, NEW i \in Item, NEW d \in Disposition, i \in Members(b),
             Disposes(b, i, d) \/ Decides(b, i, d)
      PROVE  [Ledger!LedgerNext]_<<log, spent>>
  <2>1. spent' = spent \cup {<<b, i>>} /\ (<<b, i>> \in spent <=> ~IsOpen(b, i))
    BY <1>6, StampSpends DEF Disposes, Decides
  <2>2. b \in 1 .. MaxBatches
    BY BatchColumns, BoundsAssumption DEF Inv, TypeOK, StoreTypeOK, QueueBounded
  <2>3. CASE Disposes(b, i, d) /\ ~IsOpen(b, i)
    BY <1>1, <2>1, <2>3 DEF Disposes
  <2>4. CASE Disposes(b, i, d) /\ IsOpen(b, i)
    <3>1. Ledger!Dispose(b, i)
      BY <1>1, <2>1, <2>4 DEF Disposes, Ledger!Dispose, Ledger!Spend, log, spent
    <3> QED
      BY <2>2, <3>1 DEF Ledger!LedgerNext
  <2>5. CASE Decides(b, i, d)
    <3>1. PICK rev \in Revision : /\ Extends(i, rev) /\ rev.by = b
                                  /\ \/ ~Terminal(rev) /\ rev.read = HeadOf(i)
                                     \/ Terminal(rev) /\ rev.read \in 0 .. HeadOf(i)
      BY <2>5 DEF Decides, Terminal
    <3>2. /\ Len(log[i]) = HeadOf(i)
          /\ log' = [log EXCEPT ![i] = Append(@, [by |-> b, read |-> rev.read,
                                                       ends |-> Terminal(rev)])]
      BY <3>1, LogExtends
    <3>3. Ledger!Spend(b, i)
      BY <2>1, <2>5 DEF Decides, Ledger!Spend, spent
    <3>4. CASE ~Terminal(rev) /\ rev.read = HeadOf(i)
      <4>1. Ledger!Affirm(b, i)
        <5>1. Terminal(rev) = FALSE
          BY <3>4 DEF Terminal
        <5>2. log' = [log EXCEPT ![i] = Append(@, [by |-> b, read |-> Len(@), ends |-> FALSE])]
          BY <3>2, <3>4, <5>1
        <5> QED
          BY <3>3, <5>2 DEF Ledger!Affirm, Ledger!Added, log
      <4> QED
        BY <2>2, <4>1 DEF Ledger!LedgerNext
    <3>5. CASE Terminal(rev) /\ rev.read \in 0 .. HeadOf(i)
      <4>1. Ledger!Withdraw(b, i)
        BY <3>2, <3>3, <3>5 DEF Ledger!Withdraw, Ledger!Added, log
      <4> QED
        BY <2>2, <4>1 DEF Ledger!LedgerNext
    <3> QED
      BY <3>1, <3>4, <3>5
  <2> QED
    BY <1>6, <2>3, <2>4, <2>5
<1> QED
  BY <1>3, <1>4, <1>5, <1>6 DEF StepKinds

\* Every behaviour of the review queue is a behaviour of the decision ledger.
THEOREM LedgerKept == Spec => KeepsLedger
<1>1. Init => QueueBounded
  BY BoundsAssumption DEF Init, StoreInit, QueueBounded
<1>2. Inv /\ QueueBounded /\ [Next]_vars => QueueBounded'
  BY EveryStepKind, QueueBoundedStep
<1>3. Inv /\ QueueBounded /\ [Next]_vars => [Ledger!LedgerNext]_(Ledger!ledgerVars)
  BY EveryStepKind, LedgerStep
<1> QED
  BY <1>1, <1>2, <1>3, LedgerInit, ReviewInv, PTL DEF Spec, KeepsLedger, Ledger!LedgerSpec

-----------------------------------------------------------------------------
(* A superseded link has a replacement *)

\* Only a bound pair can be load-bearing.
BearsMeansBound == \A i \in Item, d \in Ref : link[i][d].bears => Bound(i, d)

\* One row's rewrites: the five a link can go through in a step.
LinkRows(i, d) ==
    \/ link'[i][d] = link[i][d]
    \/ link'[i][d] = Freshened(link[i][d]) /\ Bound(i, d)
    \/ link'[i][d] = Staled(link[i][d]) /\ Bound(i, d) /\ link[i][d].bears
    \/ \E bears \in BOOLEAN : ~Bound(i, d) /\ link'[i][d] = NewLink(bears)
    \/ link'[i][d] = Reactivated(link[i][d])
    \/ /\ link'[i][d] = Superseded(link[i][d]) /\ Bound(i, d)
       /\ \E t \in Ref : link'[i][t].status = "active"

\* Every step rewrites a link in one of the ways of LinkRows.
LEMMA LinkSteps ==
    ASSUME Inv, BearsMeansBound, [Next]_vars, NEW i \in Item, NEW d \in Ref
    PROVE  LinkRows(i, d)
<1>1. CASE UNCHANGED link
  BY <1>1 DEF LinkRows
<1>2. ASSUME NEW k \in Item, NEW S, NEW bears \in BOOLEAN, Bind(k, S, bears)
      PROVE  LinkRows(i, d)
  BY <1>2, BindRelinks DEF LinkRows, Inv, TypeOK, Bind, Relinks
<1>3. ASSUME NEW k \in Item, NEW t \in Ref, NEW was, Revive(k, t, was)
      PROVE  LinkRows(i, d)
  BY <1>3 DEF LinkRows, Inv, TypeOK, StoreTypeOK, Revive
<1>4. ASSUME NEW p \in Proc, NEW k \in Item, RebindEntry(p, k)
      PROVE  LinkRows(i, d)
  <2>0. job[p].affected \subseteq Ref
    BY <1>4, JobKinds DEF RebindEntry, Deciding, At, Inv, ReviewJob
  <2>1. \A e \in Mine(p, k) : Bound(k, e)
    BY <2>0 DEF Mine, BearsMeansBound
  <2>t. job[p].target \in Ref
    BY <1>4 DEF RebindEntry, Deciding, At, Inv, ReferencesHold, JobKnows, ReviewKnows
  <2>2. PICK replaced \in SUBSET Mine(p, k), t \in Ref :
           Rebind(k, replaced, Mine(p, k) \ replaced, t)
    BY <1>4, <2>t DEF RebindEntry
  <2>3. link \in [Item -> [Ref -> LinkRow]]
    BY DEF Inv, TypeOK, StoreTypeOK
  <2>4. /\ ~Bound(k, t)
        /\ link' = [link EXCEPT ![k] = [e \in Ref |->
                       IF e \in replaced THEN Superseded(link[k][e])
                       ELSE IF e = t THEN NewLink(TRUE)
                       ELSE IF e \in Mine(p, k) \ replaced THEN Freshened(link[k][e])
                       ELSE link[k][e]]]
    BY <2>2 DEF Rebind
  <2>5. CASE i # k
    BY <2>3, <2>4, <2>5 DEF LinkRows
  <2>6. CASE i = k
    <3>1. \A e \in Ref : link'[k][e] = IF e \in replaced THEN Superseded(link[k][e])
                                       ELSE IF e = t THEN NewLink(TRUE)
                                       ELSE IF e \in Mine(p, k) \ replaced THEN Freshened(link[k][e])
                                       ELSE link[k][e]
      BY <2>3, <2>4
    <3>2. t \notin replaced /\ link'[k][t] = NewLink(TRUE)
      BY <2>1, <2>2, <2>4, <3>1
    <3>3. link'[k][t].status = "active"
      BY <3>2 DEF NewLink
    <3> QED
      BY <2>1, <2>2, <2>4, <2>6, <3>1, <3>3 DEF LinkRows
  <2> QED
    BY <2>5, <2>6
<1>5. ASSUME NEW p \in Proc, NEW k \in Item, ConfirmCurrentEntry(p, k)
      PROVE  LinkRows(i, d)
  <2>0. job[p].affected \subseteq Ref
    BY <1>5, JobKinds DEF ConfirmCurrentEntry, Deciding, At, Inv, ReviewJob
  <2>1. \A e \in Mine(p, k) : Bound(k, e)
    BY <2>0 DEF Mine, BearsMeansBound
  <2>2. link \in [Item -> [Ref -> LinkRow]]
    BY DEF Inv, TypeOK, StoreTypeOK
  <2> QED
    BY <1>5, <2>1, <2>2 DEF ConfirmCurrentEntry, Reaffirm, LinkRows
<1>6. ASSUME NEW p \in Proc, RecordRefresh(p)
      PROVE  LinkRows(i, d)
  <2>1. link'[i][d] = IF job[p].cls[d] = "semantics" /\ Bound(i, d) /\ link[i][d].bears
                      THEN Staled(link[i][d]) ELSE link[i][d]
    BY <1>6 DEF RecordRefresh
  <2> QED
    BY <2>1 DEF LinkRows
<1>7. CASE UNCHANGED vars
  BY <1>1, <1>7 DEF vars
<1>8. ASSUME NEW p \in Proc, Ingest(p)
      PROVE  LinkRows(i, d)
  BY <1>1, <1>2, <1>8 DEF Ingest, IngestStart, IngestDocument, QueueVerification, QueueSuggestions,
                          storeVars
<1>9. ASSUME NEW p \in Proc, Decide(p)
      PROVE  LinkRows(i, d)
  BY <1>1, <1>2, <1>4, <1>5, <1>9 DEF Decide, ConfirmCandidate, ConfirmSuggestions, EditEntry,
     RejectRead, RejectStamp, RetireEntry, storeVars
<1>10. ASSUME NEW p \in Proc, Refresh(p)
       PROVE  LinkRows(i, d)
  BY <1>1, <1>6, <1>10 DEF Refresh, RefreshStart, MapObserve, MapMoves, storeVars
<1>11. ASSUME NEW p \in Proc, BindPair(p)
       PROVE  LinkRows(i, d)
  <2>1. job[p].item \in Item /\ job[p].ref \in Ref /\ job[p].bears \in BOOLEAN
    BY <1>11, JobKinds DEF BindPair, At, Inv, BindJob
  <2> QED
    BY <1>2, <1>3, <1>11, <2>1 DEF BindPair
<1>12. ASSUME NEW p \in Proc, Abandon(p) \/ BindStart(p) \/ ListQueue(p) \/ ReadCauses(p)
       PROVE  LinkRows(i, d)
  BY <1>1, <1>12 DEF Abandon, BindStart, ListQueue, ReadCauses, storeVars
<1> QED
  BY <1>7, <1>8, <1>9, <1>10, <1>11, <1>12 DEF Next

\* Every step keeps an active link beside a superseded one.
LEMMA MovedMeansReplacedStep ==
    ASSUME Inv, BearsMeansBound, MovedMeansReplaced, [Next]_vars
    PROVE  BearsMeansBound' /\ MovedMeansReplaced'
<1>1. \A i \in Item, d \in Ref : LinkRows(i, d)
  BY LinkSteps
<1>2. link \in [Item -> [Ref -> LinkRow]]
  BY DEF Inv, TypeOK, StoreTypeOK
<1>3. \A row \in LinkRow :
         /\ Superseded(row).status = "moved" /\ Superseded(row).bears = row.bears
         /\ Freshened(row).status = row.status /\ Freshened(row).bears = row.bears
         /\ Staled(row).status = row.status /\ Staled(row).bears = row.bears
         /\ Reactivated(row).status = "active"
  BY RewrittenRows DEF Superseded, Freshened, Staled, LinkRow
<1>4. \A bears \in BOOLEAN : NewLink(bears).status = "active"
  BY DEF NewLink
<1>5. BearsMeansBound'
  BY <1>1, <1>2, <1>3, <1>4 DEF LinkRows, BearsMeansBound, Bound
<1>6. MovedMeansReplaced'
  <2> SUFFICES ASSUME NEW i \in Item, NEW d \in Ref, link'[i][d].status = "moved"
               PROVE  \E e \in Ref : link'[i][e].status = "active"
    BY DEF MovedMeansReplaced
  <2>1. CASE link[i][d].status # "moved"
    BY <1>1, <1>2, <1>3, <1>4, <2>1 DEF LinkRows
  <2>2. CASE link[i][d].status = "moved"
    <3>1. PICK e \in Ref : link[i][e].status = "active"
      BY <2>2 DEF MovedMeansReplaced
    <3>2. LinkRows(i, e)
      BY <1>1
    <3> QED
      BY <1>2, <1>3, <1>4, <3>1, <3>2 DEF LinkRows
  <2> QED
    BY <2>1, <2>2
<1> QED
  BY <1>5, <1>6

\* No rebind leaves a note anchored to nothing.
THEOREM MovedMeansReplacedHolds == Spec => []MovedMeansReplaced
<1>1. Init => BearsMeansBound /\ MovedMeansReplaced
  BY DEF Init, StoreInit, NoLink, BearsMeansBound, MovedMeansReplaced
<1>2. Inv /\ BearsMeansBound /\ MovedMeansReplaced /\ [Next]_vars
         => BearsMeansBound' /\ MovedMeansReplaced'
  BY MovedMeansReplacedStep
<1> QED
  BY <1>1, <1>2, ReviewInv, PTL DEF Spec

-----------------------------------------------------------------------------
(* A stale link has a question                                               *)
(*                                                                         *)
(* The witness is a batch that classified the referent's meaning as changed, *)
(* whose entry for the item is open or rejected, and of which every running  *)
(* action has read that the link is one of its causes: deciding the entry    *)
(* then re-affirms or replaces the link, or retires the item.                *)

\* Change entries are answered with the three actions; --confirm and --edit,
\* which take them too, write nothing to the links (confirmed_change.cfg).
ChangesAnsweredByActions ==
    \A p \in Proc :
        At(p, "decide") /\ job[p].verb \in {"confirm", "confirm-batch", "edit"}
           => queue[job[p].batch].pop # "refresh"

\* An active link of item i is stale.
StaleActive(i, d) == link[i][d].status = "active" /\ link[i][d].fresh = "stale"

\* An action about to decide the entry of batch b for item i counts d among
\* the causes.
KnowsCause(j, b, i, d) ==
    j.at = "decide" /\ j.verb \in ChangeActions /\ j.batch = b /\ j.seen[i] # None
        => d \in j.affected

\* Batch b holds the question about the change of d for item i.
Asks(b, i, d) ==
    /\ queue[b].cls[d] = "semantics"
    /\ queue[b].disp[i] \in {"open", "rejected"}
    /\ \A p \in Proc : KnowsCause(job[p], b, i, d)

Asked(i, d) == \E b \in DOMAIN queue : Asks(b, i, d)

\* Only load-bearing links become stale, only a refresh classifies, and every
\* stale link is asked about.
StaleBears == \A i \in Item, d \in Ref : link[i][d].fresh = "stale" => link[i][d].bears

ChangeBatches ==
    \A b \in DOMAIN queue, d \in Ref : queue[b].cls[d] = "semantics" => queue[b].pop = "refresh"

StaleAsked ==
    \A i \in Item, d \in Ref : StaleActive(i, d) /\ ~EverRetired(i) => Asked(i, d)

StaleInv == StaleBears /\ ChangeBatches /\ StaleAsked

\* A terminal revision stays in its chain.
LEMMA RetiredStays ==
    ASSUME Inv, StepKinds, NEW i \in Item, EverRetired(i)
    PROVE  EverRetired(i)'
<1>1. CASE item'[i].chain = item[i].chain
  BY <1>1 DEF EverRetired
<1>2. ASSUME NEW rev \in Revision, Extends(i, rev)
      PROVE  EverRetired(i)'
  <2>1. /\ DOMAIN item[i].chain = 1 .. HeadOf(i) /\ HeadOf(i) \in Nat
        /\ DOMAIN item'[i].chain = 1 .. HeadOf(i) + 1
        /\ \A n \in 1 .. HeadOf(i) : item'[i].chain[n] = item[i].chain[n]
    BY <1>2, ExtendedChain
  <2>2. PICK n \in 1 .. HeadOf(i) : item[i].chain[n].text = Reason
    BY <2>1 DEF EverRetired
  <2>3. n \in DOMAIN item'[i].chain /\ item'[i].chain[n].text = Reason
    BY <2>1, <2>2
  <2> QED
    BY <2>3 DEF EverRetired
<1>3. ASSUME NEW k \in Item, NEW rev, Extends(k, rev), k # i
      PROVE  item'[i].chain = item[i].chain
  BY <1>3 DEF Extends
<1>4. ASSUME NEW k \in Item, Publishes(k)
      PROVE  EverRetired(i)'
  BY <1>1, <1>2, <1>3, <1>4 DEF Publishes
<1>5. ASSUME NEW b \in DOMAIN queue, NEW k \in Item, NEW d \in Disposition, Decides(b, k, d)
      PROVE  EverRetired(i)'
  BY <1>1, <1>2, <1>3, <1>5 DEF Decides
<1> QED
  BY <1>1, <1>4, <1>5 DEF StepKinds, Quiet, Opens, Disposes

\* What a batch asks it goes on asking while its entry is left as it is or
\* rejected, if the process that steps knows the cause.
LEMMA AsksStays ==
    ASSUME Inv, NEW b \in DOMAIN queue, NEW i \in Item, NEW d \in Ref, Asks(b, i, d),
           b \in DOMAIN queue', queue'[b].cls = queue[b].cls,
           queue'[b].disp[i] \in {queue[b].disp[i], "rejected"},
           NEW p \in Proc, NEW j, Goes(p, j), KnowsCause(j, b, i, d)
    PROVE  Asked(i, d)'
<1>1. \A q \in Proc : job'[q] = IF q = p THEN j ELSE job[q]
  BY DEF Goes, Inv, TypeOK
<1>2. \A q \in Proc : KnowsCause(job'[q], b, i, d)
  BY <1>1 DEF Asks
<1>3. Asks(b, i, d)'
  BY <1>2 DEF Asks
<1> QED
  BY <1>3 DEF Asked

\* A command that has done with an entry, or ended, knows no less.
LEMMA DoneKnowsCause ==
    ASSUME Inv, NEW p \in Proc, NEW k \in Item, Done(p, k), k \in Pending(p),
           job[p].at \in {"causes", "decide", "stamp"},
           NEW b, NEW i \in Item, NEW d \in Ref, KnowsCause(job[p], b, i, d)
    PROVE  \E j : Goes(p, j) /\ KnowsCause(j, b, i, d)
<1> DEFINE next == [job[p] EXCEPT !.seen[k] = None]
<1>1. job[p] \in ReviewJob
  BY JobKinds DEF Inv
<1>2. /\ next.at = job[p].at /\ next.verb = job[p].verb /\ next.batch = job[p].batch
      /\ next.affected = job[p].affected
      /\ next.seen[i] # None => job[p].seen[i] # None
  BY <1>1 DEF ReviewJob
<1>3. Goes(p, Idle) \/ Goes(p, next)
  BY DEF Done, Becomes
<1> HIDE DEF next
<1>4. KnowsCause(next, b, i, d)
  BY <1>2 DEF KnowsCause
<1>5. KnowsCause(Idle, b, i, d)
  BY DEF KnowsCause, Idle
<1> QED
  BY <1>3, <1>4, <1>5

\* A step that decides nothing keeps every question, if it makes no link stale.
LEMMA OthersStayAsked ==
    ASSUME Inv, StepKinds, StaleAsked, NEW p \in Proc, NEW j, Goes(p, j),
           \A b, i, d : KnowsCause(j, b, i, d),
           \A i \in Item, d \in Ref : StaleActive(i, d)' => StaleActive(i, d),
           \A b \in DOMAIN queue : b \in DOMAIN queue' /\ queue'[b] = queue[b]
    PROVE  StaleAsked'
<1> SUFFICES ASSUME NEW i \in Item, NEW d \in Ref, StaleActive(i, d)', ~EverRetired(i)'
             PROVE  Asked(i, d)'
  BY DEF StaleAsked
<1>1. StaleActive(i, d) /\ ~EverRetired(i)
  BY RetiredStays
<1>2. PICK b \in DOMAIN queue : Asks(b, i, d)
  BY <1>1 DEF StaleAsked, Asked
<1>3. KnowsCause(j, b, i, d)
  OBVIOUS
<1> QED
  BY <1>2, <1>3, AsksStays

\* An entry that is decided takes its own question away, and no other; a
\* rejection not even that.
LEMMA DecisionAsks ==
    ASSUME Inv, NEW p \in Proc, NEW k \in Item, k \in Pending(p),
           job[p].at \in {"decide", "stamp"}, Done(p, k),
           NEW out \in Disposition, Stamp(job[p].batch, k, out),
           NEW i \in Item, NEW d \in Ref, NEW b \in DOMAIN queue, Asks(b, i, d),
           b # job[p].batch \/ i # k \/ out = "rejected"
    PROVE  Asked(i, d)'
<1>1. job[p].batch \in DOMAIN queue /\ k \in Members(job[p].batch)
  BY DecidingKnows
<1>2. /\ DOMAIN queue' = DOMAIN queue
      /\ queue'[b].cls = queue[b].cls
  <2>1. CASE b = job[p].batch
    BY <1>1, <2>1, StampKeeps DEF Inv, TypeOK
  <2>2. CASE b # job[p].batch
    BY <1>1, <2>2, StampKeeps DEF Inv, TypeOK
  <2> QED
    BY <2>1, <2>2
<1>3. queue'[b].disp[i] \in {queue[b].disp[i], "rejected"}
  BY <1>1, StampedDispositions
<1>4. KnowsCause(job[p], b, i, d)
  BY DEF Asks
<1>5. PICK j : Goes(p, j) /\ KnowsCause(j, b, i, d)
  BY <1>4, DoneKnowsCause
<1> QED
  BY <1>2, <1>3, <1>5, AsksStays

\* So does a decision that clears the item's stale links of the change, or
\* retires it, or is of a batch that asks nothing.
LEMMA DecidedAsked ==
    ASSUME Inv, StepKinds, StaleAsked, NEW p \in Proc, NEW k \in Item, k \in Pending(p),
           job[p].at \in {"decide", "stamp"}, Done(p, k),
           NEW out \in Disposition, Stamp(job[p].batch, k, out),
           \A i \in Item, d \in Ref : StaleActive(i, d)' => StaleActive(i, d),
           \/ out = "rejected"
           \/ EverRetired(k)'
           \/ \A d \in Ref : Asks(job[p].batch, k, d) => ~StaleActive(k, d)'
    PROVE  StaleAsked'
<1> SUFFICES ASSUME NEW i \in Item, NEW d \in Ref, StaleActive(i, d)', ~EverRetired(i)'
             PROVE  Asked(i, d)'
  BY DEF StaleAsked
<1>1. StaleActive(i, d) /\ ~EverRetired(i)
  BY RetiredStays
<1>2. PICK b \in DOMAIN queue : Asks(b, i, d)
  BY <1>1 DEF StaleAsked, Asked
<1>3. b # job[p].batch \/ i # k \/ out = "rejected"
  BY <1>2
<1> QED
  BY <1>2, <1>3, DecisionAsks

-----------------------------------------------------------------------------

\* Steps that write neither links nor decisions.
LEMMA QuietAsked ==
    ASSUME Inv, StepKinds, StaleAsked, NEW p \in Proc, NEW j, Goes(p, j),
           \A b, i, d : KnowsCause(j, b, i, d),
           UNCHANGED <<link, queue>>
    PROVE  StaleAsked'
<1>1. \A i \in Item, d \in Ref : StaleActive(i, d)' => StaleActive(i, d)
  BY DEF StaleActive
<1> QED
  BY <1>1, OthersStayAsked

\* A command that ended, or one that is not about to decide, need know nothing.
LEMMA OtherPhases ==
    ASSUME NEW j, j.at # "decide" \/ j.verb \notin ChangeActions
    PROVE  \A b, i, d : KnowsCause(j, b, i, d)
BY DEF KnowsCause

LEMMA ReadsAsked ==
    ASSUME Inv, StepKinds, StaleAsked, NEW p \in Proc,
           Abandon(p) \/ IngestStart(p) \/ BindStart(p) \/ ListQueue(p)
                      \/ RefreshStart(p) \/ MapObserve(p) \/ MapMoves(p)
    PROVE  StaleAsked'
<1>1. CASE Abandon(p)
  <2>1. Goes(p, Idle) /\ UNCHANGED <<link, queue>>
    BY <1>1 DEF Abandon, Becomes, storeVars
  <2>2. Idle.at # "decide"
    BY DEF Idle
  <2> QED
    BY <2>1, <2>2, OtherPhases, QuietAsked
<1>2. CASE IngestStart(p)
  <2>1. (\E j : Goes(p, j) /\ j.at = "document") /\ UNCHANGED <<link, queue>>
    BY <1>2 DEF IngestStart, Issue, storeVars
  <2> QED
    BY <2>1, OtherPhases, QuietAsked
<1>3. CASE BindStart(p)
  <2>1. (\E j : Goes(p, j) /\ j.at = "bind") /\ UNCHANGED <<link, queue>>
    BY <1>3 DEF BindStart, Issue, storeVars
  <2> QED
    BY <2>1, OtherPhases, QuietAsked
<1>4. CASE ListQueue(p)
  <2>1. /\ \E j : Goes(p, j) /\ (j.at = "causes" \/ j.verb \notin ChangeActions)
        /\ UNCHANGED <<link, queue>>
    BY <1>4 DEF ListQueue, Issue, storeVars
  <2> QED
    BY <2>1, OtherPhases, QuietAsked
<1>5. CASE RefreshStart(p)
  <2>1. (\E j : Goes(p, j) /\ j.at = "observe") /\ UNCHANGED <<link, queue>>
    BY <1>5 DEF RefreshStart, Concluded, Issue, storeVars
  <2> QED
    BY <2>1, OtherPhases, QuietAsked
<1>6. CASE MapObserve(p) \/ MapMoves(p)
  <2>1. job[p] \in RefreshJob
    BY <1>6, JobKinds DEF MapObserve, MapMoves, At, Inv
  <2>2. PICK phase \in {"moves", "record"} :
           Goes(p, [job[p] EXCEPT !.at = phase]) /\ UNCHANGED <<link, queue>>
    BY <1>6 DEF MapObserve, MapMoves, Becomes
  <2>3. [job[p] EXCEPT !.at = phase].at # "decide"
    BY <2>1 DEF RefreshJob
  <2> QED
    BY <2>2, <2>3, OtherPhases, QuietAsked
<1> QED
  BY <1>1, <1>2, <1>3, <1>4, <1>5, <1>6

\* An action reads its causes: any stale link of an item it lists is one.
LEMMA ReadCausesAsked ==
    ASSUME Inv, StepKinds, StaleAsked, NEW p \in Proc, ReadCauses(p)
    PROVE  StaleAsked'
<1> SUFFICES ASSUME NEW i \in Item, NEW d \in Ref, StaleActive(i, d)', ~EverRetired(i)'
             PROVE  Asked(i, d)'
  BY DEF StaleAsked
<1>1. UNCHANGED <<link, queue>>
  BY DEF ReadCauses, storeVars
<1>2. StaleActive(i, d) /\ ~EverRetired(i)
  BY <1>1, RetiredStays DEF StaleActive
<1>3. PICK b \in DOMAIN queue : Asks(b, i, d)
  BY <1>2 DEF StaleAsked, Asked
<1> DEFINE affected == {e \in Ref : /\ queue[job[p].batch].cls[e] # "none"
                                    /\ \E k \in Pending(p) : link[k][e].status = "active"}
<1>4. job[p] \in ReviewJob
  BY JobKinds DEF ReadCauses, At, Inv
<1>5. PICK t \in Ref \cup {None} :
         Goes(p, [job[p] EXCEPT !.at = "decide", !.affected = affected, !.target = t])
  BY DEF ReadCauses, RebindTargets, Becomes
<1> DEFINE next == [job[p] EXCEPT !.at = "decide", !.affected = affected, !.target = t]
<1>6. job[p].batch = b /\ job[p].seen[i] # None => d \in affected
  BY <1>2, <1>3 DEF Asks, StaleActive, Pending
<1>7. Goes(p, next)
  BY <1>5
<1> HIDE DEF affected
<1>8. next.batch = job[p].batch /\ next.seen = job[p].seen /\ next.affected = affected
  BY <1>4, Zenon DEF ReviewJob
<1> HIDE DEF next
<1>9. KnowsCause(next, b, i, d)
  BY <1>6, <1>8 DEF KnowsCause
<1> QED
  BY <1>1, <1>3, <1>7, <1>9, AsksStays

\* A new binding is not stale, and no other link of the item changes.
LEMMA BindStales ==
    ASSUME Inv, NEW k \in Item, NEW S, NEW bears \in BOOLEAN, Bind(k, S, bears)
    PROVE  \A i \in Item, d \in Ref : StaleActive(i, d)' => StaleActive(i, d)
<1>1. /\ \A i \in Item \ {k} : link'[i] = link[i]
      /\ \A d \in Ref : link'[k][d] = IF d \in S THEN NewLink(bears) ELSE link[k][d]
  BY BindRelinks DEF Inv, TypeOK, Relinks
<1>2. NewLink(bears).fresh = "unverified"
  BY DEF NewLink
<1> QED
  BY <1>1, <1>2 DEF StaleActive

\* Ingesting a document and binding a pair ask nothing and stale nothing.
LEMMA BindsAsked ==
    ASSUME Inv, StepKinds, StaleAsked, NEW p \in Proc, IngestDocument(p) \/ BindPair(p)
    PROVE  StaleAsked'
<1>1. CASE IngestDocument(p)
  <2>1. PICK k \in Item, S \in SUBSET Ref : Bind(k, S, TRUE)
    BY <1>1 DEF IngestDocument, StructuralMatches, Refs
  <2>2. job[p] \in IngestJob /\ UNCHANGED queue
    BY <1>1, JobKinds DEF IngestDocument, At, Inv
  <2>3. PICK todo, verify, suggest :
           Goes(p, [job[p] EXCEPT !.todo = todo, !.verify = verify, !.suggest = suggest])
    BY <1>1 DEF IngestDocument, Becomes
  <2>4. [job[p] EXCEPT !.todo = todo, !.verify = verify, !.suggest = suggest].at = job[p].at
    BY <2>2 DEF IngestJob
  <2>5. job[p].at = "document"
    BY <1>1 DEF IngestDocument, At
  <2>6. \E j : Goes(p, j) /\ j.at # "decide"
    BY <2>3, <2>4, <2>5
  <2>7. \A i \in Item, d \in Ref : StaleActive(i, d)' => StaleActive(i, d)
    BY <2>1, BindStales
  <2> QED
    BY <2>2, <2>6, <2>7, OtherPhases, OthersStayAsked
<1>2. CASE BindPair(p)
  <2>1. job[p] \in BindJob /\ UNCHANGED queue
    BY <1>2, JobKinds DEF BindPair, At, Inv
  <2>2. job[p].item \in Item /\ job[p].ref \in Ref /\ job[p].bears \in BOOLEAN
    BY <2>1 DEF BindJob
  <2>3. \A i \in Item, d \in Ref : StaleActive(i, d)' => StaleActive(i, d)
    <3>1. CASE Bind(job[p].item, {job[p].ref}, job[p].bears)
      BY <2>2, <3>1, BindStales
    <3>2. CASE Revive(job[p].item, job[p].ref, job[p].was)
      <4>1. \A i \in Item, d \in Ref : \/ link'[i][d] = link[i][d]
                                       \/ link'[i][d] = Reactivated(link[i][d])
        BY <2>2, <3>2 DEF Revive, Inv, TypeOK, StoreTypeOK
      <4>2. \A row \in LinkRow : Reactivated(row).fresh = "unverified"
        BY DEF Reactivated, LinkRow
      <4> QED
        BY <4>1, <4>2 DEF StaleActive, Inv, TypeOK, StoreTypeOK
    <3> QED
      BY <1>2, <3>1, <3>2 DEF BindPair
  <2>4. Goes(p, Idle) /\ Idle.at # "decide"
    BY <1>2 DEF BindPair, Becomes, Idle
  <2> QED
    BY <2>1, <2>3, <2>4, OtherPhases, OthersStayAsked
<1> QED
  BY <1>1, <1>2

\* Nor do the two batches of an ingest.
LEMMA QueueingAsked ==
    ASSUME Inv, StepKinds, StaleAsked, NEW p \in Proc, QueueVerification(p) \/ QueueSuggestions(p)
    PROVE  StaleAsked'
<1>1. job[p] \in IngestJob /\ UNCHANGED <<item, link>>
  BY JobKinds DEF QueueVerification, QueueSuggestions, At, Inv
<1>2. \E j : Goes(p, j) /\ j.at # "decide"
  <2>1. [job[p] EXCEPT !.at = "queue"].at # "decide" /\ Idle.at # "decide"
    BY <1>1 DEF IngestJob, Idle
  <2> QED
    BY <2>1 DEF QueueVerification, QueueSuggestions, Becomes
<1>3. \A b \in DOMAIN queue : b \in DOMAIN queue' /\ queue'[b] = queue[b]
  <2>1. CASE UNCHANGED queue
    BY <2>1
  <2>2. CASE Opens
    <3>1. \A b \in DOMAIN queue : b \in 1 .. Len(queue) + 1
      <4>1. Len(queue) \in Nat /\ DOMAIN queue = 1 .. Len(queue)
        BY DEF Inv, TypeOK, StoreTypeOK
      <4> QED
        BY <4>1
    <3> QED
      BY <2>2, <3>1 DEF Opens
  <2> QED
    BY <2>1, <2>2, QueueingKind DEF Quiet
<1>4. \A i \in Item, d \in Ref : StaleActive(i, d)' => StaleActive(i, d)
  BY <1>1 DEF StaleActive
<1> QED
  BY <1>2, <1>3, <1>4, OtherPhases, OthersStayAsked

-----------------------------------------------------------------------------

\* The verbs of the suggestions meet no change entry; a rejection keeps its
\* entry's question.
LEMMA AnswersAsked ==
    ASSUME Inv, StepKinds, StaleAsked, ChangeBatches, ChangesAnsweredByActions,
           NEW p \in Proc, NEW k \in Item,
           ConfirmCandidate(p, k) \/ ConfirmSuggestions(p, k) \/ EditEntry(p, k)
    PROVE  StaleAsked'
<1>1. /\ k \in Pending(p) /\ job[p].at = "decide" /\ Done(p, k)
      /\ job[p].verb \in {"confirm", "confirm-batch", "edit"}
  BY DEF ConfirmCandidate, ConfirmSuggestions, EditEntry, Deciding, At
<1>2. PICK out \in Disposition : Stamp(job[p].batch, k, out)
  BY DEF ConfirmCandidate, ConfirmSuggestions, EditEntry, Resolve, Disposition
<1>3. job[p].batch \in DOMAIN queue /\ queue[job[p].batch].pop # "refresh"
  BY <1>1, DecidingKnows DEF ChangesAnsweredByActions, At
<1>4. \A d \in Ref : ~Asks(job[p].batch, k, d)
  BY <1>3 DEF ChangeBatches, Asks
<1>5. \A i \in Item, d \in Ref : StaleActive(i, d)' => StaleActive(i, d)
  <2>1. CASE UNCHANGED link
    BY <2>1 DEF StaleActive
  <2>2. CASE \E S : Bind(k, S, TRUE)
    BY <2>2, BindStales
  <2> QED
    BY <2>1, <2>2 DEF ConfirmCandidate, ConfirmSuggestions, EditEntry
<1> QED
  BY <1>1, <1>2, <1>4, <1>5, DecidedAsked

LEMMA RejectsAsked ==
    ASSUME Inv, StepKinds, StaleAsked, NEW p \in Proc, NEW k \in Item,
           RejectRead(p, k) \/ RejectStamp(p, k)
    PROVE  StaleAsked'
<1>1. CASE RejectRead(p, k)
  <2>1. job[p] \in ReviewJob
    BY <1>1, JobKinds DEF RejectRead, Deciding, At, Inv
  <2>2. Goes(p, [job[p] EXCEPT !.at = "stamp"]) /\ UNCHANGED <<link, queue>>
    BY <1>1 DEF RejectRead, Becomes, storeVars
  <2>3. [job[p] EXCEPT !.at = "stamp"].at # "decide"
    BY <2>1 DEF ReviewJob
  <2> QED
    BY <2>2, <2>3, OtherPhases, QuietAsked
<1>2. CASE RejectStamp(p, k)
  <2>1. /\ k \in Pending(p) /\ job[p].at = "stamp" /\ Done(p, k)
        /\ Stamp(job[p].batch, k, "rejected") /\ "rejected" \in Disposition
    BY <1>2 DEF RejectStamp, At, Disposition
  <2>2. \A i \in Item, d \in Ref : StaleActive(i, d)' => StaleActive(i, d)
    BY <1>2 DEF RejectStamp, StaleActive
  <2> QED
    BY <2>1, <2>2, DecidedAsked
<1> QED
  BY <1>1, <1>2

\* Retiring an item ends its questions.
LEMMA RetireAsked ==
    ASSUME Inv, StepKinds, StaleAsked, NEW p \in Proc, NEW k \in Item, RetireEntry(p, k)
    PROVE  StaleAsked'
<1>1. /\ k \in Pending(p) /\ job[p].at = "decide" /\ Done(p, k)
      /\ Stamp(job[p].batch, k, "corrected") /\ "corrected" \in Disposition
  BY DEF RetireEntry, Deciding, At, Resolve, Disposition
<1>2. \A i \in Item, d \in Ref : StaleActive(i, d)' => StaleActive(i, d)
  BY DEF RetireEntry, StaleActive
<1>3. EverRetired(k)'
  <2> DEFINE rev == TerminalRevision(job[p].batch, job[p].seen[k].head)
  <2>1. /\ job[p].seen[k].head \in Nat /\ job[p].batch \in Nat
        /\ job[p].seen[k].head \in 1 .. HeadOf(k)
    BY <1>1, DecidingKnows DEF Listing
  <2>2. rev \in Revision /\ rev.text = Reason
    BY <2>1 DEF TerminalRevision, Revision
  <2>3. HeadOf(k) \in Nat /\ StoreTypeOK
    BY ItemColumns DEF Inv, TypeOK
  <2>4. Extends(k, rev)
    BY <2>1, <2>3, RetireExtends DEF RetireEntry
  <2> HIDE DEF rev
  <2>5. /\ DOMAIN item'[k].chain = 1 .. HeadOf(k) + 1
        /\ item'[k].chain[HeadOf(k) + 1] = rev
    BY <2>2, <2>4, ExtendedChain
  <2>6. HeadOf(k) + 1 \in DOMAIN item'[k].chain
    BY <2>3, <2>5
  <2> QED
    BY <2>2, <2>5, <2>6 DEF EverRetired
<1> QED
  BY <1>1, <1>2, <1>3, DecidedAsked

\* Rebinding replaces the causes or freshens them.
LEMMA RebindAsked ==
    ASSUME Inv, StepKinds, BearsMeansBound, StaleBears, StaleAsked,
           NEW p \in Proc, NEW k \in Item, RebindEntry(p, k)
    PROVE  StaleAsked'
<1>1. /\ k \in Pending(p) /\ job[p].at = "decide" /\ job[p].verb = "rebind" /\ Done(p, k)
      /\ Stamp(job[p].batch, k, "corrected") /\ "corrected" \in Disposition
  BY DEF RebindEntry, Deciding, At, Resolve, Disposition
<1>2. job[p].affected \subseteq Ref /\ job[p].seen[k] # None
  BY <1>1, JobKinds DEF Inv, ReviewJob, Pending
<1>3. PICK replaced \in SUBSET Mine(p, k) :
         Rebind(k, replaced, Mine(p, k) \ replaced, job[p].target)
  BY DEF RebindEntry
<1>4. link \in [Item -> [Ref -> LinkRow]]
  BY DEF Inv, TypeOK, StoreTypeOK
<1>5. \A i \in Item \ {k} : link'[i] = link[i]
  BY <1>3, <1>4 DEF Rebind
<1>6. \A d \in Ref : link'[k][d] = IF d \in replaced THEN Superseded(link[k][d])
                                   ELSE IF d = job[p].target THEN NewLink(TRUE)
                                   ELSE IF d \in Mine(p, k) \ replaced THEN Freshened(link[k][d])
                                   ELSE link[k][d]
  BY <1>3, <1>4 DEF Rebind
<1>7. \A row \in LinkRow : Superseded(row).status = "moved" /\ Freshened(row).fresh = "fresh"
  BY DEF Superseded, Freshened, LinkRow
<1>8. NewLink(TRUE).fresh = "unverified"
  BY DEF NewLink
<1>9. \A d \in Ref : link[k][d] \in LinkRow
  BY <1>4
<1>10. \A d \in Ref : StaleActive(k, d)' => StaleActive(k, d) /\ d \notin Mine(p, k)
  BY <1>6, <1>7, <1>8, <1>9 DEF StaleActive
<1>11. \A i \in Item, d \in Ref : StaleActive(i, d)' => StaleActive(i, d)
  BY <1>5, <1>10 DEF StaleActive
<1>12. \A d \in Ref : Asks(job[p].batch, k, d) => ~StaleActive(k, d)'
  <2> SUFFICES ASSUME NEW d \in Ref, Asks(job[p].batch, k, d), StaleActive(k, d)'
               PROVE  FALSE
    OBVIOUS
  <2>1. KnowsCause(job[p], job[p].batch, k, d)
    BY DEF Asks
  <2>2. d \in job[p].affected
    BY <1>1, <1>2, <2>1 DEF KnowsCause, ChangeActions
  <2>3. link[k][d].bears
    BY <1>10 DEF StaleBears, StaleActive
  <2> QED
    BY <1>10, <2>2, <2>3 DEF Mine
<1> QED
  BY <1>1, <1>11, <1>12, DecidedAsked

\* Confirming that a note is still current freshens the causes.
LEMMA ConfirmCurrentAsked ==
    ASSUME Inv, StepKinds, StaleBears, StaleAsked,
           NEW p \in Proc, NEW k \in Item, ConfirmCurrentEntry(p, k)
    PROVE  StaleAsked'
<1>1. /\ k \in Pending(p) /\ job[p].at = "decide" /\ job[p].verb = "confirm-current" /\ Done(p, k)
      /\ Stamp(job[p].batch, k, "confirmed") /\ "confirmed" \in Disposition
  BY DEF ConfirmCurrentEntry, Deciding, At, Resolve, Disposition
<1>2. job[p].seen[k] # None
  BY <1>1 DEF Pending
<1>3. link \in [Item -> [Ref -> LinkRow]]
  BY DEF Inv, TypeOK, StoreTypeOK
<1>4. /\ \A i \in Item \ {k} : link'[i] = link[i]
      /\ \A d \in Ref : link'[k][d] = IF d \in Mine(p, k) /\ ClassOf(p, d) = "semantics"
                                      THEN Freshened(link[k][d]) ELSE link[k][d]
  BY <1>3 DEF ConfirmCurrentEntry, Reaffirm
<1>5. \A d \in Ref : Freshened(link[k][d]).fresh = "fresh"
  BY <1>3 DEF Freshened, LinkRow
<1>6. \A d \in Ref : StaleActive(k, d)' =>
          StaleActive(k, d) /\ ~(d \in Mine(p, k) /\ ClassOf(p, d) = "semantics")
  BY <1>4, <1>5 DEF StaleActive
<1>7. \A i \in Item, d \in Ref : StaleActive(i, d)' => StaleActive(i, d)
  BY <1>4, <1>6 DEF StaleActive
<1>8. \A d \in Ref : Asks(job[p].batch, k, d) => ~StaleActive(k, d)'
  <2> SUFFICES ASSUME NEW d \in Ref, Asks(job[p].batch, k, d), StaleActive(k, d)'
               PROVE  FALSE
    OBVIOUS
  <2>1. KnowsCause(job[p], job[p].batch, k, d) /\ ClassOf(p, d) = "semantics"
    BY DEF Asks, ClassOf
  <2>2. d \in job[p].affected
    BY <1>1, <1>2, <2>1 DEF KnowsCause, ChangeActions
  <2>3. link[k][d].bears
    BY <1>6 DEF StaleBears, StaleActive
  <2> QED
    BY <1>6, <2>1, <2>2, <2>3 DEF Mine
<1> QED
  BY <1>1, <1>7, <1>8, DecidedAsked

\* A refresh that stales a load-bearing link opens a batch that asks about it;
\* no running command has listed that batch.
LEMMA RecordAsked ==
    ASSUME Inv, StepKinds, BearsMeansBound, StaleAsked, NEW p \in Proc, RecordRefresh(p)
    PROVE  StaleAsked'
<1> SUFFICES ASSUME NEW i \in Item, NEW d \in Ref, StaleActive(i, d)', ~EverRetired(i)'
             PROVE  Asked(i, d)'
  BY DEF StaleAsked
<1> DEFINE cls == job[p].cls
           queued == Queued(cls)
           props == [k \in queued |-> 0]
<1>0. PICK new : new = Len(queue) + 1
  OBVIOUS
<1>1. cls \in [Ref -> Class]
  BY JobKinds DEF RecordRefresh, At, Inv, RefreshJob
<1>2. /\ Goes(p, Idle) /\ KnowsCause(Idle, new, i, d)
      /\ \A b : KnowsCause(Idle, b, i, d)
  BY DEF RecordRefresh, Becomes, KnowsCause, Idle
<1>3. link'[i][d] = IF cls[d] = "semantics" /\ Bound(i, d) /\ link[i][d].bears
                    THEN Staled(link[i][d]) ELSE link[i][d]
  BY DEF RecordRefresh
<1>4. ~EverRetired(i)
  BY RetiredStays
<1>5. CASE cls[d] = "semantics" /\ Bound(i, d) /\ link[i][d].bears
  <2>1. i \in queued
    BY <1>5 DEF Queued, Actionable
  <2>2. OpenBatch("refresh", cls, props)
    <3>1. IF queued = {} THEN UNCHANGED queue ELSE OpenBatch("refresh", cls, props)
      BY Zenon DEF RecordRefresh
    <3> QED
      BY <2>1, <3>1
  <2>3. "refresh" \in Population /\ \A k \in DOMAIN props : props[k] \in Nat
    <3>1. \A k \in DOMAIN props : props[k] \in Nat
      BY DEF Queued
    <3> QED
      BY <3>1 DEF Population
  <2>4. i \in DOMAIN props
    BY <2>1
  <2> HIDE DEF props, cls
  <2>5. /\ DOMAIN queue' = 1 .. new
        /\ queue'[new].cls = cls
        /\ queue'[new].disp[i] = "open"
    BY <1>0, <1>1, <2>2, <2>3, <2>4, OpenBatchKeeps DEF Inv, TypeOK
  <2>6. Len(queue) \in Nat /\ DOMAIN queue = 1 .. Len(queue)
    BY DEF Inv, TypeOK, StoreTypeOK
  <2>7. new \in DOMAIN queue' /\ new \notin DOMAIN queue
    BY <1>0, <2>5, <2>6
  <2>8. \A q \in Proc : KnowsCause(job'[q], new, i, d)
    <3> SUFFICES ASSUME NEW q \in Proc
                 PROVE  KnowsCause(job'[q], new, i, d)
      OBVIOUS
    <3>1. CASE q = p
      BY <1>2, <3>1 DEF Goes, Inv, TypeOK
    <3>2. CASE q # p
      <4>1. job'[q] = job[q]
        BY <1>2, <3>2 DEF Goes, Inv, TypeOK
      <4>2. job[q].at = "decide" => job[q].batch \in DOMAIN queue
        BY DEF Inv, ReferencesHold, JobKnows, ReviewKnows
      <4> QED
        BY <2>7, <4>1, <4>2 DEF KnowsCause
    <3> QED
      BY <3>1, <3>2
  <2>9. Asks(new, i, d)'
    BY <1>5, <2>5, <2>8 DEF Asks
  <2> QED
    BY <2>7, <2>9 DEF Asked
<1>6. CASE ~(cls[d] = "semantics" /\ Bound(i, d) /\ link[i][d].bears)
  <2>1. StaleActive(i, d)
    BY <1>3, <1>6 DEF StaleActive
  <2>2. PICK b \in DOMAIN queue : Asks(b, i, d)
    BY <1>4, <2>1 DEF StaleAsked, Asked
  <2>3. b \in DOMAIN queue' /\ queue'[b] = queue[b]
    <3>1. CASE UNCHANGED queue
      BY <3>1
    <3>2. CASE Opens
      <4>1. Len(queue) \in Nat /\ b \in 1 .. Len(queue)
        BY DEF Inv, TypeOK, StoreTypeOK
      <4> QED
        BY <3>2, <4>1 DEF Opens
    <3> QED
      BY <3>1, <3>2, QueueingKind DEF Quiet
  <2>4. KnowsCause(Idle, b, i, d)
    BY <1>2
  <2> QED
    BY <1>2, <2>2, <2>3, <2>4, AsksStays
<1> QED
  BY <1>5, <1>6

\* Every step keeps every stale link asked about.
LEMMA StaleAskedStep ==
    ASSUME Inv, BearsMeansBound, StaleInv, ChangesAnsweredByActions, [Next]_vars
    PROVE  StaleAsked'
<1>0. StepKinds
  BY EveryStepKind
<1>1. CASE UNCHANGED vars
  BY <1>1 DEF vars, StaleInv, StaleAsked, StaleActive, EverRetired, Asked, Asks
<1>2. ASSUME NEW p \in Proc, Ingest(p)
      PROVE  StaleAsked'
  BY <1>0, <1>2, ReadsAsked, BindsAsked, QueueingAsked DEF Ingest, StaleInv
<1>3. ASSUME NEW p \in Proc, Decide(p)
      PROVE  StaleAsked'
  <2>1. PICK k \in Item :
           \/ ConfirmCandidate(p, k) \/ ConfirmSuggestions(p, k) \/ EditEntry(p, k)
           \/ RejectRead(p, k) \/ RejectStamp(p, k)
           \/ RetireEntry(p, k)
           \/ RebindEntry(p, k)
           \/ ConfirmCurrentEntry(p, k)
    BY <1>3 DEF Decide
  <2> QED
    BY <1>0, <2>1, AnswersAsked, RejectsAsked, RetireAsked, RebindAsked, ConfirmCurrentAsked DEF StaleInv
<1>4. ASSUME NEW p \in Proc, Refresh(p)
      PROVE  StaleAsked'
  BY <1>0, <1>4, ReadsAsked, RecordAsked DEF Refresh, StaleInv
<1>5. ASSUME NEW p \in Proc, Abandon(p) \/ BindStart(p) \/ BindPair(p) \/ ListQueue(p) \/ ReadCauses(p)
      PROVE  StaleAsked'
  BY <1>0, <1>5, ReadsAsked, BindsAsked, ReadCausesAsked DEF StaleInv
<1> QED
  BY <1>1, <1>2, <1>3, <1>4, <1>5 DEF Next
\* Only a refresh makes a link stale, and only one that bears.
LEMMA StaleBearsStep ==
    ASSUME Inv, BearsMeansBound, StaleBears, [Next]_vars
    PROVE  StaleBears'
<1>1. link \in [Item -> [Ref -> LinkRow]]
  BY DEF Inv, TypeOK, StoreTypeOK
<1> SUFFICES ASSUME NEW i \in Item, NEW d \in Ref, link'[i][d].fresh = "stale"
             PROVE  link'[i][d].bears
  BY DEF StaleBears
<1> SUFFICES ASSUME NEW row \in LinkRow, row = link[i][d],
                    row.fresh = "stale" => row.bears
             PROVE  link'[i][d].bears
  BY <1>1 DEF StaleBears
<1>2. Superseded(row).fresh = row.fresh /\ Superseded(row).bears = row.bears
  BY DEF Superseded, LinkRow
<1>3. Freshened(row).fresh = "fresh" /\ Staled(row).bears = row.bears
  BY DEF Freshened, Staled, LinkRow
<1>4. Reactivated(row).fresh = "unverified"
  BY DEF Reactivated, LinkRow
<1>5. \A bears \in BOOLEAN : NewLink(bears).fresh = "unverified"
  BY DEF NewLink
<1>6. LinkRows(i, d)
  BY LinkSteps
<1> QED
  BY <1>2, <1>3, <1>4, <1>5, <1>6 DEF LinkRows

\* No batch's classes or population change once it is open.
LEMMA ChangeBatchesStep ==
    ASSUME Inv, ChangeBatches, StepKinds
    PROVE  ChangeBatches'
<1>1. CASE UNCHANGED queue
  BY <1>1 DEF ChangeBatches
<1>2. CASE Opens
  <2>1. Len(queue) \in Nat /\ DOMAIN queue = 1 .. Len(queue)
    BY DEF Inv, TypeOK, StoreTypeOK
  <2>2. \A b \in 1 .. Len(queue) + 1 : b \in DOMAIN queue \/ b = Len(queue) + 1
    BY <2>1
  <2>3. \A d \in Ref : NoClass[d] # "semantics"
    BY DEF NoClass
  <2> QED
    BY <1>2, <2>2, <2>3 DEF Opens, ChangeBatches
<1>3. ASSUME NEW c \in DOMAIN queue, NEW k \in Members(c), NEW d \in Disposition, Stamp(c, k, d)
      PROVE  ChangeBatches'
  <2>1. /\ DOMAIN queue' = DOMAIN queue
        /\ \A b \in DOMAIN queue : queue'[b].cls = queue[b].cls /\ queue'[b].pop = queue[b].pop
    BY <1>3, StampKeeps DEF Inv, TypeOK
  <2> QED
    BY <2>1 DEF ChangeBatches
<1> QED
  BY <1>1, <1>2, <1>3 DEF StepKinds, Quiet, Publishes, Disposes, Decides

\* A stale link never outlives the question that can clear it, as long as
\* change entries are answered with the actions made for them.
THEOREM StaleLinksAreAsked ==
    Spec /\ []ChangesAnsweredByActions => []StaleLinkHasAQuestion
<1>1. Init => BearsMeansBound /\ MovedMeansReplaced /\ StaleInv
  BY DEF Init, StoreInit, NoLink, BearsMeansBound, MovedMeansReplaced,
         StaleInv, StaleBears, ChangeBatches, StaleAsked, StaleActive
<1>2. (/\ Inv /\ BearsMeansBound /\ MovedMeansReplaced /\ StaleInv
       /\ ChangesAnsweredByActions /\ [Next]_vars)
         => BearsMeansBound' /\ MovedMeansReplaced' /\ StaleInv'
  <2> SUFFICES ASSUME Inv, BearsMeansBound, MovedMeansReplaced, StaleInv,
                      ChangesAnsweredByActions, [Next]_vars
               PROVE  BearsMeansBound' /\ MovedMeansReplaced' /\ StaleInv'
    OBVIOUS
  <2>1. StepKinds
    BY EveryStepKind
  <2>2. BearsMeansBound' /\ MovedMeansReplaced'
    BY MovedMeansReplacedStep
  <2>3. StaleBears'
    BY StaleBearsStep DEF StaleInv
  <2>4. ChangeBatches'
    BY <2>1, ChangeBatchesStep DEF StaleInv
  <2>5. StaleAsked'
    BY StaleAskedStep
  <2> QED
    BY <2>2, <2>3, <2>4, <2>5 DEF StaleInv
<1>3. StaleInv => StaleLinkHasAQuestion
  BY DEF StaleInv, StaleAsked, StaleActive, Asked, Asks, StaleLinkHasAQuestion
<1> QED
  BY <1>1, <1>2, <1>3, ReviewInv, PTL DEF Spec

-----------------------------------------------------------------------------
(* Harvest: the same store with any number of miners beside the commands.    *)
(* HarvestInv adds what a running miner has read and written: the commits    *)
(* it takes up are commits, the items it knows of or has created exist.      *)

CandidateJob ==
    [at      : {"candidates"},
     range   : SUBSET DOMAIN History,
     todo    : SUBSET DOMAIN History,
     known   : [DOMAIN Commit -> Item \cup {0}],
     active  : SUBSET Ref,
     pairs   : SUBSET (Item \X Ref),
     pending : SUBSET Item]

MiningType == mining \in [Miner -> {Idle} \cup CandidateJob]

\* What miner job j refers to is there.
MiningKnows(j) ==
    j.at = "candidates" =>
        /\ \A c \in DOMAIN Commit : j.known[c] # 0 => Created(j.known[c])
        /\ \A i \in j.pending : Created(i)

HarvestInv ==
    /\ Inv
    /\ MiningType
    /\ \A m \in Miner : MiningKnows(mining[m])

\* What a miner knows stays true of a store that only grows.
LEMMA MiningKept ==
    ASSUME StoreTypeOK, StoreTypeOK', Grows, NEW j \in {Idle} \cup CandidateJob, MiningKnows(j)
    PROVE  MiningKnows(j)'
<1>1. \A i \in Item : Created(i) => Created(i)'
  BY ItemColumns DEF Grows, StoreTypeOK, ItemRow, HeadOf, Created
<1>2. CASE j \in CandidateJob
  <2>1. (\A c \in DOMAIN Commit : j.known[c] \in Item \cup {0}) /\ j.pending \subseteq Item
    BY <1>2 DEF CandidateJob
  <2> QED
    BY <1>1, <2>1 DEF MiningKnows
<1>3. CASE j = Idle
  BY <1>3 DEF MiningKnows, Idle
<1> QED
  BY <1>2, <1>3

\* Every command's step only lengthens chains.
LEMMA StepGrows ==
    ASSUME Inv, StepKinds
    PROVE  Grows
<1>1. StoreTypeOK
  BY DEF Inv, TypeOK
<1>2. CASE UNCHANGED item
  BY <1>1, <1>2, SameItemGrows
<1>3. ASSUME NEW i \in Item, NEW rev, Extends(i, rev)
      PROVE  Grows
  BY <1>1, <1>3, ExtendsGrows
<1> QED
  BY <1>2, <1>3 DEF StepKinds, Quiet, Publishes, Opens, Disposes, Decides

\* What it takes for a miner's step to keep Inv.
LEMMA MinerKeepsInv ==
    ASSUME Inv, UNCHANGED <<job, issued>>, StoreTypeOK', Grows, KeepsEntries,
           \A i \in Item, d \in Ref : Bound(i, d)' => Bound(i, d) \/ Created(i)',
           \A b \in DOMAIN queue' \ DOMAIN queue : \A i \in Members(b)' :
              Created(i)' /\ queue'[b].prop[i] <= HeadOf(i)'
    PROVE  Inv'
<1>1. TypeOK'
  BY DEF Inv, TypeOK
<1>2. /\ LinksToItems' /\ EntriesToRevisions'
      /\ \A l \in Job : JobKnows(l) => JobKnows(l)'
  BY ReferencesKept
<1>3. \A q \in Proc : JobKnows(job[q])'
  <2> TAKE q \in Proc
  <2> DEFINE k == job[q]
  <2>1. JobKnows(k) /\ k \in Job /\ job'[q] = k
    BY DEF Inv, ReferencesHold, TypeOK
  <2> QED
    BY <1>2, <2>1
<1> QED
  BY <1>1, <1>2, <1>3 DEF Inv, ReferencesHold

\* A miner step that gives m the job j keeps what miners know.
LEMMA MinerKnows ==
    ASSUME HarvestInv, Inv', Grows, NEW m \in Miner, NEW j \in {Idle} \cup CandidateJob,
           mining' = [mining EXCEPT ![m] = j], MiningKnows(j)'
    PROVE  HarvestInv'
<1>1. mining' \in [Miner -> {Idle} \cup CandidateJob] /\ mining'[m] = j
      /\ \A n \in Miner \ {m} : mining'[n] = mining[n]
  BY DEF HarvestInv, MiningType
<1>2. StoreTypeOK /\ StoreTypeOK'
  BY DEF HarvestInv, Inv, TypeOK
<1>3. \A n \in Miner : MiningKnows(mining[n])'
  <2> TAKE n \in Miner
  <2>1. CASE n = m
    BY <1>1, <2>1 DEF MiningKnows
  <2>2. CASE n # m
    <3> DEFINE k == mining[n]
    <3>1. k \in {Idle} \cup CandidateJob /\ MiningKnows(k) /\ mining'[n] = k
      BY <1>1, <2>2 DEF HarvestInv, MiningType
    <3>2. \A l \in {Idle} \cup CandidateJob : MiningKnows(l) => MiningKnows(l)'
      BY <1>2, MiningKept
    <3> QED
      BY <3>1, <3>2
  <2> QED
    BY <2>1, <2>2
<1> QED
  BY <1>1, <1>3 DEF HarvestInv, MiningType

\* A miner reads the history and what the store knows of it.
LEMMA HarvestedAsType ==
    ASSUME NEW c
    PROVE  /\ HarvestedAs(c) \in Item \cup {0}
           /\ HarvestedAs(c) # 0 => Created(HarvestedAs(c)) /\ item[HarvestedAs(c)].doc = c
           /\ HarvestedAs(c) = 0 => \A i \in Item : Created(i) => item[i].doc # c
<1> DEFINE mine == {i \in Item : Created(i) /\ item[i].doc = c}
           oldest == CHOOSE i \in mine : \A j \in mine : i <= j
<1>1. CASE mine = {}
  BY <1>1 DEF HarvestedAs
<1>2. CASE mine # {}
  <2>1. mine \subseteq Nat
    BY DEF Item
  <2>2. \E k \in mine : \A j \in mine : k <= j
    BY <1>2, <2>1, Least
  <2>3. oldest \in mine
    BY <2>2
  <2> HIDE DEF oldest
  <2>4. oldest \in Item /\ oldest # 0 /\ Created(oldest) /\ item[oldest].doc = c
    BY <2>3 DEF Item
  <2>5. HarvestedAs(c) = oldest
    BY <1>2 DEF HarvestedAs, oldest
  <2> QED
    BY <2>4, <2>5
<1> QED
  BY <1>1, <1>2

\* Every position of a set of them has a newest.
LEMMA NewestPosition ==
    ASSUME NEW S, S \subseteq DOMAIN History, S # {}
    PROVE  Newest(S) \in S
<1>1. Len(History) \in Nat /\ DOMAIN History = 1 .. Len(History)
  BY HistoryAssumption
<1>2. S \subseteq Nat /\ \A n \in S : n <= Len(History)
  BY <1>1
<1>3. \E n \in S : \A k \in S : n >= k
  BY <1>1, <1>2, Greatest
<1> QED
  BY <1>2, <1>3 DEF Newest

\* Starting a harvest reads and writes nothing.
LEMMA HarvestStartInv ==
    ASSUME HarvestInv, NEW m \in Miner, HarvestStart(m)
    PROVE  HarvestInv'
<1>1. PICK since \in 0 .. Len(History), head \in 0 .. Len(History) :
         mining' = [mining EXCEPT ![m] =
               [at      |-> "candidates",
                range   |-> CandidatesIn(since, head),
                todo    |-> CandidatesIn(since, head),
                known   |-> [c \in DOMAIN Commit |-> HarvestedAs(c)],
                active  |-> {d \in Ref : ident[d].status = "active"},
                pairs   |-> {e \in Item \X Ref : Bound(e[1], e[2])},
                pending |-> {}]]
  BY DEF HarvestStart
<1> DEFINE j == [at      |-> "candidates",
                 range   |-> CandidatesIn(since, head),
                 todo    |-> CandidatesIn(since, head),
                 known   |-> [c \in DOMAIN Commit |-> HarvestedAs(c)],
                 active  |-> {d \in Ref : ident[d].status = "active"},
                 pairs   |-> {e \in Item \X Ref : Bound(e[1], e[2])},
                 pending |-> {}]
<1>2. CandidatesIn(since, head) \subseteq DOMAIN History
  <2>1. Len(History) \in Nat /\ DOMAIN History = 1 .. Len(History)
    BY HistoryAssumption
  <2> QED
    BY <2>1 DEF CandidatesIn
<1>3. [c \in DOMAIN Commit |-> HarvestedAs(c)] \in [DOMAIN Commit -> Item \cup {0}]
  BY HarvestedAsType
<1>4. j \in CandidateJob
  BY <1>2, <1>3 DEF CandidateJob
<1>5. UNCHANGED storeVars /\ UNCHANGED <<job, issued>>
  BY DEF HarvestStart
<1>6. UNCHANGED item /\ UNCHANGED queue /\ UNCHANGED link /\ UNCHANGED ident
  BY <1>5 DEF storeVars
<1>7. StoreTypeOK /\ StoreTypeOK'
  BY <1>6 DEF HarvestInv, Inv, TypeOK, StoreTypeOK
<1>8. Grows /\ KeepsEntries
  BY <1>6, <1>7, SameItemGrows, SameQueueKeeps
<1>9. Inv'
  BY <1>5, <1>6, <1>7, <1>8, MinerKeepsInv DEF HarvestInv, Bound
<1>10. PICK k : k = j
  OBVIOUS
<1>11. k \in CandidateJob /\ MiningKnows(k)
  BY <1>4, <1>10, HarvestedAsType DEF MiningKnows
<1>12. mining' = [mining EXCEPT ![m] = k]
  BY <1>1, <1>10
<1>13. MiningKnows(k)'
  BY <1>7, <1>8, <1>11, MiningKept
<1> QED
  BY <1>8, <1>9, <1>11, <1>12, <1>13, MinerKnows

\* What the transaction of one candidate writes: the commit's item, if it is
\* not known, and bindings of it.
CandidateStores(j, c, i) ==
    /\ \/ /\ j.known[c] = 0
          /\ Extends(i, CandidateRevision(c))
          /\ HeadOf(i) = 0
          /\ item'[i].doc = c
       \/ /\ j.known[c] = i
          /\ Created(i)
          /\ UNCHANGED item
    /\ Relinks(i)

\* The transaction of the newest candidate, commit c, which item i is for.
CandidateRun(m, j, c, i) ==
    /\ CandidateStores(j, c, i)
    /\ mining' = [mining EXCEPT ![m].todo = @ \ {Newest(j.todo)},
                                ![m].pending = PendingNow(j, c, i)]

LEMMA CandidateWritten ==
    ASSUME HarvestInv, NEW m \in Miner, HarvestCandidate(m),
           NEW j, j = mining[m], NEW c, c = History[Newest(j.todo)]
    PROVE  /\ j \in CandidateJob /\ MiningKnows(j)
           /\ Newest(j.todo) \in j.todo
           /\ c \in DOMAIN Commit
           /\ UNCHANGED <<ident, queue, job, issued>>
           /\ \E i \in Item : CandidateRun(m, j, c, i)
           /\ CandidateRevision(c) \in Revision
<1>1. StoreTypeOK
  BY DEF HarvestInv, Inv, TypeOK
<1>2. j \in CandidateJob /\ MiningKnows(j)
  BY DEF HarvestInv, MiningType, HarvestCandidate, Mining, Idle
<1>3. Newest(j.todo) \in j.todo /\ Newest(j.todo) \in DOMAIN History
  <2>1. j.todo # {} /\ j.todo \subseteq DOMAIN History
    BY <1>2 DEF HarvestCandidate, CandidateJob
  <2> QED
    BY <2>1, NewestPosition
<1>4. c \in DOMAIN Commit /\ c \in Doc /\ Commit[c].message \in Text
  BY <1>3, HistoryAssumption DEF CommitLine
<1>5. CandidateRevision(c) \in Revision
  BY <1>4 DEF CandidateRevision, Revision
<1>6. PICK i \in Item :
         /\ \/ j.known[c] = 0 /\ IsNextItem(i) /\ CreateItem(i, c, CandidateRevision(c))
            \/ j.known[c] = i /\ UNCHANGED item
         /\ Bind(i, {d \in PathMatches(Commit[c].files, j.active) : <<i, d>> \notin j.pairs}, TRUE)
         /\ mining' = [mining EXCEPT ![m].todo = @ \ {Newest(j.todo)},
                                     ![m].pending = PendingNow(j, c, i)]
  BY DEF HarvestCandidate
<1>7. Relinks(i)
  BY <1>1, <1>6, BindRelinks
<1>8. CandidateStores(j, c, i)
  <2>1. CASE j.known[c] = 0 /\ IsNextItem(i) /\ CreateItem(i, c, CandidateRevision(c))
    BY <1>1, <1>4, <1>5, <1>7, <2>1, CreateExtends DEF CandidateStores
  <2>2. CASE j.known[c] = i /\ UNCHANGED item
    <3>1. i # 0 /\ j.at = "candidates"
      BY <1>2 DEF Item, CandidateJob
    <3> QED
      BY <1>2, <1>4, <1>7, <2>2, <3>1 DEF MiningKnows, CandidateStores
  <2> QED
    BY <1>6, <2>1, <2>2
<1>9. UNCHANGED <<ident, queue, job, issued>>
  BY DEF HarvestCandidate
<1>10. CandidateRun(m, j, c, i)
  BY <1>6, <1>8 DEF CandidateRun
<1> QED
  BY <1>2, <1>3, <1>4, <1>5, <1>9, <1>10

\* One candidate, written and bound, keeps the invariant.
LEMMA HarvestCandidateInv ==
    ASSUME HarvestInv, NEW m \in Miner, HarvestCandidate(m)
    PROVE  HarvestInv'
<1> SUFFICES ASSUME NEW j, j = mining[m], NEW c, c = History[Newest(j.todo)]
             PROVE  HarvestInv'
  OBVIOUS
<1>1. /\ j \in CandidateJob /\ MiningKnows(j) /\ Newest(j.todo) \in j.todo
      /\ c \in DOMAIN Commit /\ UNCHANGED <<ident, queue, job, issued>>
      /\ CandidateRevision(c) \in Revision
  BY CandidateWritten
<1>p. PICK i \in Item : CandidateRun(m, j, c, i)
  BY CandidateWritten
<1>2. /\ CandidateStores(j, c, i)
      /\ mining' = [mining EXCEPT ![m].todo = @ \ {Newest(j.todo)},
                                  ![m].pending = PendingNow(j, c, i)]
  BY <1>p DEF CandidateRun
<1> USE DEF CandidateStores
<1>3. StoreTypeOK /\ Inv
  BY DEF HarvestInv, Inv, TypeOK
<1>4. Grows /\ KeepsEntries /\ item' \in [Item -> ItemRow]
  <2>1. KeepsEntries
    BY <1>1, <1>3, SameQueueKeeps
  <2>2. CASE UNCHANGED item
    BY <1>3, <2>1, <2>2, SameItemGrows DEF StoreTypeOK
  <2>3. CASE Extends(i, CandidateRevision(c))
    BY <1>3, <2>1, <2>3, ExtendsGrows DEF Extends
  <2> QED
    BY <1>2, <2>2, <2>3
<1>5. StoreTypeOK'
  BY <1>1, <1>2, <1>3, <1>4 DEF StoreTypeOK, Relinks, LinkTable
<1>6. Created(i)'
  <2>1. CASE UNCHANGED item
    BY <1>2, <1>3, <2>1, ItemColumns DEF Created, Extends, HeadOf
  <2>2. CASE Extends(i, CandidateRevision(c)) /\ HeadOf(i) = 0
    <3>1. HeadOf(i)' = 1
      BY <2>2 DEF Extends
    <3>2. item'[i].chain \in Seq(Revision) /\ HeadOf(i)' = Len(item'[i].chain)
      BY <1>4 DEF ItemRow, HeadOf
    <3>3. ASSUME NEW x \in Seq(Revision), Len(x) = 1
          PROVE  x # << >>
      <4>1. Len(x) > 0
        BY <3>3
      <4> QED
        BY <4>1, EmptyChain
    <3> QED
      BY <3>1, <3>2, <3>3 DEF Created
  <2> QED
    BY <1>2, <2>1, <2>2 DEF Created
<1>7. \A k \in Item, d \in Ref : Bound(k, d)' => Bound(k, d) \/ Created(k)'
  BY <1>2, <1>6 DEF Relinks, Bound
<1>8. Inv'
  BY <1>1, <1>3, <1>4, <1>5, <1>7, MinerKeepsInv
<1> DEFINE todo == j.todo \ {Newest(j.todo)}
           pending == PendingNow(j, c, i)
           next == [j EXCEPT !.todo = todo, !.pending = pending]
<1>9. pending \in SUBSET Item /\ todo \in SUBSET DOMAIN History /\ pending \subseteq j.pending \cup {i}
  BY <1>1 DEF PendingNow, CandidateJob
<1>10. mining' = [mining EXCEPT ![m] = next]
  BY <1>1, <1>2 DEF HarvestInv, MiningType, CandidateJob
<1> HIDE DEF todo, pending
<1>11. next \in CandidateJob /\ next.pending = pending /\ next.known = j.known /\ next.at = j.at
  BY <1>1, <1>9 DEF CandidateJob
<1> HIDE DEF next
<1>12. MiningKnows(next)'
  <2>1. MiningKnows(j)'
    BY <1>1, <1>3, <1>4, <1>5, MiningKept
  <2> QED
    BY <1>1, <1>6, <1>9, <1>11, <2>1 DEF MiningKnows, CandidateJob
<1> QED
  BY <1>4, <1>8, <1>10, <1>11, <1>12, MinerKnows

\* The batch of a run names what the run created.
LEMMA HarvestQueueInv ==
    ASSUME HarvestInv, NEW m \in Miner, HarvestQueue(m)
    PROVE  HarvestInv' /\ (Quiet \/ Opens)
<1> SUFFICES ASSUME NEW j, j = mining[m]
             PROVE  HarvestInv' /\ (Quiet \/ Opens)
  OBVIOUS
<1>1. j \in CandidateJob /\ MiningKnows(j)
  BY DEF HarvestInv, MiningType, HarvestQueue, Mining, Idle
<1>2. StoreTypeOK /\ Inv
  BY DEF HarvestInv, Inv, TypeOK
<1>3. UNCHANGED <<item, link, ident, job, issued>> /\ mining' = [mining EXCEPT ![m] = Idle]
  BY DEF HarvestQueue
<1>4. \A i \in j.pending : i \in Item /\ Created(i) /\ 1 <= HeadOf(i)
  <2>1. \A i \in j.pending : i \in Item /\ Created(i)
    BY <1>1 DEF CandidateJob, MiningKnows
  <2> QED
    BY <1>2, <2>1, ItemColumns
<1>5. Grows
  BY <1>2, <1>3, SameItemGrows
<1>6. CASE UNCHANGED queue
  <2>1. KeepsEntries /\ StoreTypeOK'
    BY <1>2, <1>3, <1>6, SameQueueKeeps DEF StoreTypeOK
  <2>2. Inv'
    BY <1>2, <1>3, <1>5, <1>6, <2>1, MinerKeepsInv DEF Bound
  <2>3. MiningKnows(Idle)'
    BY DEF MiningKnows, Idle
  <2> QED
    BY <1>3, <1>5, <1>6, <2>2, <2>3, MinerKnows DEF Quiet
<1>7. CASE OpenBatch("ingest-unverified", NoClass, [i \in j.pending |-> 1])
  <2> DEFINE props == [i \in j.pending |-> 1]
  <2>1. \A i \in DOMAIN props : props[i] \in Nat /\ i \in Item /\ Created(i) /\ props[i] <= HeadOf(i)
    BY <1>4
  <2>2. "ingest-unverified" \in Population /\ NoClass \in [Ref -> Class]
    BY DEF Population, NoClass, Class
  <2> HIDE DEF props
  <2>3. OpenBatch("ingest-unverified", NoClass, props)
    BY <1>7 DEF props
  <2>4. /\ KeepsEntries
        /\ DOMAIN queue' = 1 .. Len(queue) + 1
        /\ \A i \in Item :
              /\ queue'[Len(queue) + 1].disp[i] = IF i \in DOMAIN props THEN "open" ELSE "absent"
              /\ queue'[Len(queue) + 1].prop[i] = IF i \in DOMAIN props THEN props[i] ELSE 0
    BY <1>2, <2>1, <2>2, <2>3, OpenBatchKeeps
  <2>5. StoreTypeOK'
    BY <1>2, <1>3, <2>4 DEF StoreTypeOK, KeepsEntries
  <2>6. ASSUME NEW b \in DOMAIN queue' \ DOMAIN queue, NEW i \in Members(b)'
        PROVE  Created(i)' /\ queue'[b].prop[i] <= HeadOf(i)'
    <3>1. Len(queue) \in Nat /\ DOMAIN queue = 1 .. Len(queue)
      BY <1>2 DEF StoreTypeOK
    <3>2. b = Len(queue) + 1
      BY <2>4, <3>1
    <3>3. i \in Item /\ queue'[b].disp[i] # "absent"
      BY DEF Members
    <3>4. i \in DOMAIN props /\ queue'[b].prop[i] = props[i]
      BY <2>4, <3>2, <3>3
    <3> QED
      BY <1>3, <2>1, <3>4 DEF Created, HeadOf
  <2>7. Inv'
    BY <1>2, <1>3, <1>5, <2>4, <2>5, <2>6, MinerKeepsInv DEF Bound
  <2>8. MiningKnows(Idle)'
    BY DEF MiningKnows, Idle
  <2>9. Opens
    BY <1>2, <1>3, <2>1, <2>2, <2>3, OpensKind
  <2> QED
    BY <1>3, <1>5, <2>7, <2>8, <2>9, MinerKnows
<1> QED
  BY <1>6, <1>7 DEF HarvestQueue, BatchOf

\* A run that ends early leaves the store as it is.
LEMMA HarvestAbandonInv ==
    ASSUME HarvestInv, NEW m \in Miner, HarvestAbandon(m)
    PROVE  HarvestInv'
<1>1. /\ UNCHANGED item /\ UNCHANGED link /\ UNCHANGED ident /\ UNCHANGED queue
      /\ UNCHANGED <<job, issued>>
      /\ mining' = [mining EXCEPT ![m] = Idle]
  BY DEF HarvestAbandon, storeVars
<1>2. StoreTypeOK /\ StoreTypeOK' /\ Inv
  BY <1>1 DEF HarvestInv, Inv, TypeOK, StoreTypeOK
<1>3. Grows /\ KeepsEntries
  BY <1>1, <1>2, SameItemGrows, SameQueueKeeps
<1>4. Inv'
  BY <1>1, <1>2, <1>3, MinerKeepsInv DEF Bound
<1>5. MiningKnows(Idle)'
  BY DEF MiningKnows, Idle
<1> QED
  BY <1>1, <1>3, <1>4, <1>5, MinerKnows

\* A miner's step is of one of the kinds the commands' are.
LEMMA MinerStepKind ==
    ASSUME HarvestInv, NEW m \in Miner,
           HarvestStart(m) \/ HarvestCandidate(m) \/ HarvestQueue(m) \/ HarvestAbandon(m)
    PROVE  StepKinds
<1>1. CASE HarvestStart(m) \/ HarvestAbandon(m)
  BY <1>1 DEF HarvestStart, HarvestAbandon, storeVars, StepKinds, Quiet
<1>2. CASE HarvestQueue(m)
  BY <1>2, HarvestQueueInv DEF StepKinds
<1>3. CASE HarvestCandidate(m)
  <2> SUFFICES ASSUME NEW j, j = mining[m], NEW c, c = History[Newest(j.todo)]
               PROVE  StepKinds
    OBVIOUS
  <2> DEFINE rev == CandidateRevision(c)
  <2>1. c \in DOMAIN Commit /\ UNCHANGED <<ident, queue, job, issued>> /\ rev \in Revision
    BY <1>3, CandidateWritten
  <2>2. PICK i \in Item : (Extends(i, rev) /\ HeadOf(i) = 0) \/ UNCHANGED item
    <3>1. PICK i \in Item : CandidateStores(j, c, i)
      BY <1>3, CandidateWritten DEF CandidateRun
    <3> QED
      BY <3>1 DEF CandidateStores
  <2>3. rev.by = 0 /\ rev.read = 0 /\ ~rev.verified /\ rev.text \in Text
    BY <2>1, HistoryAssumption DEF CandidateRevision, CommitLine
  <2> HIDE DEF rev
  <2>4. ASSUME Extends(i, rev), HeadOf(i) = 0
        PROVE  Publishes(i)
    BY <2>1, <2>3, <2>4 DEF Publishes
  <2> QED
    BY <2>1, <2>2, <2>4 DEF StepKinds, Quiet
<1> QED
  BY <1>1, <1>2, <1>3

\* A command's step leaves what the miners know.
LEMMA CommandKeepsHarvest ==
    ASSUME HarvestInv, [Next]_vars, UNCHANGED mining
    PROVE  HarvestInv'
<1>1. Inv /\ Inv'
  BY NextInv DEF HarvestInv
<1>2. Grows
  BY <1>1, EveryStepKind, StepGrows
<1>3. StoreTypeOK /\ StoreTypeOK'
  BY <1>1 DEF Inv, TypeOK
<1>4. MiningType'
  BY DEF HarvestInv, MiningType
<1>5. \A m \in Miner : MiningKnows(mining[m])'
  <2> TAKE m \in Miner
  <2> DEFINE j == mining[m]
  <2>1. j \in {Idle} \cup CandidateJob /\ MiningKnows(j) /\ mining'[m] = j
    BY DEF HarvestInv, MiningType
  <2>2. \A l \in {Idle} \cup CandidateJob : MiningKnows(l) => MiningKnows(l)'
    BY <1>2, <1>3, MiningKept
  <2> QED
    BY <2>1, <2>2
<1> QED
  BY <1>1, <1>4, <1>5 DEF HarvestInv

\* Every step of the two together is of one of the kinds and keeps HarvestInv.
LEMMA HarvestStep ==
    ASSUME HarvestInv, [HarvestNext]_allVars
    PROVE  HarvestInv' /\ StepKinds
<1>1. CASE UNCHANGED allVars
  <2>1. UNCHANGED vars /\ UNCHANGED mining
    BY <1>1 DEF allVars, vars
  <2> QED
    BY <2>1, CommandKeepsHarvest, EveryStepKind DEF HarvestInv
<1>2. CASE Next /\ UNCHANGED harvestVars
  BY <1>2, CommandKeepsHarvest, EveryStepKind DEF HarvestInv, harvestVars
<1>3. ASSUME NEW m \in Miner,
             HarvestStart(m) \/ HarvestCandidate(m) \/ HarvestQueue(m) \/ HarvestAbandon(m)
      PROVE  HarvestInv' /\ StepKinds
  BY <1>3, MinerStepKind, HarvestStartInv, HarvestCandidateInv, HarvestQueueInv, HarvestAbandonInv
<1> QED
  BY <1>1, <1>2, <1>3 DEF HarvestNext

LEMMA HarvestInitInv == HarvestInit => HarvestInv
<1> SUFFICES ASSUME HarvestInit
             PROVE  HarvestInv
  OBVIOUS
<1>1. Inv
  BY InitInv DEF HarvestInit
<1>2. MiningType
  BY DEF HarvestInit, MiningType
<1>3. \A m \in Miner : MiningKnows(mining[m])
  BY DEF HarvestInit, MiningKnows, Idle
<1> QED
  BY <1>1, <1>2, <1>3 DEF HarvestInv

\* With any number of miners beside the commands, every row stays well typed
\* and every reference good.
THEOREM HarvestReferencesCorrect == HarvestSpec => [](TypeOK /\ ReferencesHold)
<1>1. HarvestInv /\ [HarvestNext]_allVars => HarvestInv'
  BY HarvestStep
<1>2. HarvestInv => TypeOK /\ ReferencesHold
  BY DEF HarvestInv, Inv
<1> QED
  BY <1>1, <1>2, HarvestInitInv, PTL DEF HarvestSpec

\* Nor do miners break what the queue promises the people who answer it.
THEOREM HarvestBesideReview ==
    HarvestSpec => []( /\ NoLostUpdate
                       /\ OneWritePerDecision
                       /\ HeadGovernsFreshness
                       /\ BatchClosesWithLastEntry )
<1>1. HarvestInv /\ [HarvestNext]_allVars => HarvestInv' /\ StepKinds
  BY HarvestStep
<1>2. HarvestInit => NoLostUpdate /\ OneWritePerDecision /\ HeadGovernsFreshness
                        /\ BatchClosesWithLastEntry
  BY DEF HarvestInit, Init, StoreInit, NoItem, NoLostUpdate, OneWritePerDecision,
         HeadGovernsFreshness, Created, BatchClosesWithLastEntry
<1>3. HarvestInv /\ NoLostUpdate /\ StepKinds => NoLostUpdate'
  BY NoLostUpdateStep DEF HarvestInv
<1>4. HarvestInv /\ OneWritePerDecision /\ StepKinds => OneWritePerDecision'
  BY OneWritePerDecisionStep DEF HarvestInv
<1>5. HarvestInv /\ HeadGovernsFreshness /\ StepKinds => HeadGovernsFreshness'
  BY HeadGovernsFreshnessStep DEF HarvestInv
<1>6. HarvestInv /\ BatchClosesWithLastEntry /\ StepKinds => BatchClosesWithLastEntry'
  BY BatchClosesStep DEF HarvestInv
<1> QED
  BY <1>1, <1>2, <1>3, <1>4, <1>5, <1>6, HarvestInitInv, PTL DEF HarvestSpec

-----------------------------------------------------------------------------
(* What no step takes back: the making of an item, a revision once written,  *)
(* an entry of the queue.  Only two kinds of steps make an item.            *)

\* No row forgets what it was made from, and no revision changes.
HistoryKept ==
    /\ \A i \in Item : Created(i) => Created(i)' /\ item'[i].doc = item[i].doc
    /\ \A i \in Item : \A n \in 1 .. HeadOf(i) : item'[i].chain[n] = item[i].chain[n]

\* A row has a chain when it has a head.
LEMMA CreatedHead ==
    ASSUME NEW i \in Item
    PROVE  /\ item \in [Item -> ItemRow] =>
                 HeadOf(i) \in Nat /\ (Created(i) <=> HeadOf(i) # 0)
           /\ item' \in [Item -> ItemRow] =>
                 HeadOf(i)' \in Nat /\ (Created(i)' <=> HeadOf(i)' # 0)
<1>1. ASSUME NEW r \in ItemRow
      PROVE  Len(r.chain) \in Nat /\ (r.chain # << >> <=> Len(r.chain) # 0)
  <2>1. r.chain \in Seq(Revision)
    BY DEF ItemRow
  <2> QED
    BY <2>1, EmptyChain
<1> QED
  BY <1>1 DEF HeadOf, Created

LEMMA KindsKeepHistory ==
    ASSUME Inv, StepKinds
    PROVE  HistoryKept
<1>1. CASE UNCHANGED item
  BY <1>1 DEF HistoryKept, Created
<1>2. ASSUME NEW i \in Item, NEW rev \in Revision, Extends(i, rev),
             HeadOf(i) # 0 => item'[i].doc = item[i].doc
      PROVE  HistoryKept
  <2>1. item \in [Item -> ItemRow] /\ item' \in [Item -> ItemRow]
    BY <1>2 DEF Inv, TypeOK, StoreTypeOK, Extends
  <2>2. HeadOf(i) \in Nat /\ (Created(i) <=> HeadOf(i) # 0)
    BY <2>1, CreatedHead
  <2>3. Created(i)'
    <3>1. HeadOf(i)' # 0
      BY <1>2, <2>2 DEF Extends
    <3>2. Created(i)' <=> HeadOf(i)' # 0
      BY <2>1, CreatedHead
    <3> QED
      BY <3>1, <3>2
  <2>4. \A n \in 1 .. HeadOf(i) : item'[i].chain[n] = item[i].chain[n]
    BY <1>2, ExtendedChain
  <2>5. \A k \in Item \ {i} : item'[k] = item[k]
    BY <1>2 DEF Extends
  <2> QED
    BY <1>2, <2>2, <2>3, <2>4, <2>5 DEF HistoryKept, Created, HeadOf
<1>3. ASSUME NEW i \in Item, Publishes(i)
      PROVE  HistoryKept
  BY <1>2, <1>3 DEF Publishes
<1>4. ASSUME NEW b \in DOMAIN queue, NEW i \in Item, NEW d \in Disposition, Decides(b, i, d)
      PROVE  HistoryKept
  BY <1>2, <1>4 DEF Decides
<1> QED
  BY <1>1, <1>3, <1>4 DEF StepKinds, Quiet, Opens, Disposes

LEMMA KindsKeepItems ==
    ASSUME Inv, StepKinds
    PROVE  item' \in [Item -> ItemRow]
BY DEF Inv, TypeOK, StoreTypeOK, StepKinds, Quiet, Publishes, Opens, Disposes, Decides, Extends

\* An entry keeps its batch, its population and its proposal.
LEMMA EntriesKept ==
    ASSUME Inv, StepKinds
    PROVE  \A b \in DOMAIN queue :
              /\ b \in DOMAIN queue'
              /\ Members(b)' = Members(b)
              /\ queue'[b].prop = queue[b].prop
              /\ queue'[b].pop = queue[b].pop
<1>1. StoreTypeOK /\ DOMAIN queue = 1 .. Len(queue) /\ Len(queue) \in Nat
  BY DEF Inv, TypeOK, StoreTypeOK
<1>2. CASE UNCHANGED queue
  BY <1>2 DEF Members
<1>3. CASE Opens
  BY <1>1, <1>3 DEF Opens, KeepsEntries
<1>4. ASSUME NEW b \in DOMAIN queue, NEW i \in Members(b), NEW d \in Disposition, Stamp(b, i, d)
      PROVE  \A c \in DOMAIN queue :
                /\ c \in DOMAIN queue'
                /\ Members(c)' = Members(c)
                /\ queue'[c].prop = queue[c].prop
                /\ queue'[c].pop = queue[c].pop
  BY <1>1, <1>4, StampKeeps DEF KeepsEntries
<1> QED
  BY <1>2, <1>3, <1>4 DEF StepKinds, Quiet, Publishes, Disposes, Decides

\* The step makes no item, and no item changes what it was made from.
SameMaking == \A i \in Item : (Created(i)' <=> Created(i)) /\ item'[i].doc = item[i].doc

\* The step makes one item, from d.
Makes(i, d) ==
    /\ ~Created(i)
    /\ Created(i)'
    /\ item'[i].doc = d
    /\ \A k \in Item \ {i} : item'[k] = item[k]

\* The commands other than a document's transaction make nothing.
LEMMA OthersMakeNothing ==
    ASSUME Inv, NEW p \in Proc,
           \/ Abandon(p) \/ IngestStart(p) \/ QueueVerification(p) \/ QueueSuggestions(p)
           \/ BindStart(p) \/ BindPair(p) \/ ListQueue(p) \/ ReadCauses(p)
           \/ Decide(p) \/ Refresh(p)
    PROVE  SameMaking
<1>1. CASE UNCHANGED item
  BY <1>1 DEF SameMaking, Created
<1>2. ASSUME NEW i \in Item, NEW b \in DOMAIN queue, NEW d \in Disposition,
             i \in Members(b), Decides(b, i, d)
      PROVE  SameMaking
  <2>1. /\ item \in [Item -> ItemRow] /\ item' \in [Item -> ItemRow]
        /\ HeadOf(i)' = HeadOf(i) + 1
        /\ \A k \in Item \ {i} : item'[k] = item[k]
        /\ item'[i].doc = item[i].doc
    BY <1>2 DEF Inv, TypeOK, StoreTypeOK, Decides, Extends
  <2>2. Created(i)
    BY <1>2 DEF Inv, ReferencesHold, EntriesToRevisions
  <2>3. HeadOf(i) \in Nat
    BY <2>1, CreatedHead
  <2>4. HeadOf(i)' \in Nat /\ (Created(i)' <=> HeadOf(i)' # 0)
    BY <2>1, CreatedHead
  <2>5. Created(i)'
    BY <2>1, <2>3, <2>4
  <2> QED
    BY <2>1, <2>2, <2>5 DEF SameMaking, Created
<1>3. ASSUME NEW i \in Item,
             ConfirmCandidate(p, i) \/ EditEntry(p, i) \/ RetireEntry(p, i)
                \/ ConfirmCurrentEntry(p, i)
      PROVE  SameMaking
  BY <1>2, <1>3, DecidesKind
<1>4. ASSUME NEW i \in Item,
             ConfirmSuggestions(p, i) \/ RejectRead(p, i) \/ RejectStamp(p, i) \/ RebindEntry(p, i)
      PROVE  UNCHANGED item
  BY <1>4 DEF ConfirmSuggestions, RejectRead, RejectStamp, RebindEntry, storeVars
<1>5. CASE Abandon(p) \/ IngestStart(p) \/ QueueVerification(p) \/ QueueSuggestions(p)
           \/ BindStart(p) \/ BindPair(p) \/ ListQueue(p) \/ ReadCauses(p) \/ Refresh(p)
  BY <1>1, <1>5 DEF Abandon, IngestStart, QueueVerification, QueueSuggestions, BindStart, BindPair,
        ListQueue, ReadCauses, Refresh, RefreshStart, MapObserve, MapMoves, RecordRefresh, storeVars
<1> QED
  BY <1>1, <1>3, <1>4, <1>5 DEF Decide

\* A document's transaction makes an item only for a document that had none.
LEMMA DocumentMade ==
    ASSUME Inv, NEW p \in Proc, IngestDocument(p), NEW j, j = job[p]
    PROVE  /\ j \in IngestJob /\ IngestKnows(j)
           /\ j.todo \in Seq(Doc) /\ j.todo # << >>
           /\ \/ SameMaking
              \/ /\ j.stored[Head(j.todo)].item = 0
                 /\ \E i \in Item : Makes(i, Head(j.todo))
<1> DEFINE d == Head(j.todo)
           rev == DocumentRevision(j, d)
<1>1. j \in IngestJob /\ IngestKnows(j) /\ j.todo # << >> /\ StoreTypeOK /\ j.todo \in Seq(Doc)
  BY JobKinds DEF IngestDocument, At, Inv, ReferencesHold, TypeOK, JobKnows, IngestJob
<1>2. d \in Doc
  BY <1>1
<1>3. PICK i \in Item : WriteDocument(j, d, i)
  BY DEF IngestDocument
<1>4. rev \in Revision
  BY <1>1, <1>2, DocumentRevisionType
<1>5. item \in [Item -> ItemRow] /\ HeadOf(i) \in Nat /\ (Created(i) <=> HeadOf(i) # 0)
  BY <1>1, CreatedHead DEF StoreTypeOK
<1> HIDE DEF d, rev
<1>6. CASE UNCHANGED item
  BY <1>1, <1>6 DEF SameMaking, Created
<1>7. CASE j.stored[d].item = 0 /\ IsNextItem(i) /\ CreateItem(i, d, rev)
  <2>1. Extends(i, rev) /\ HeadOf(i) = 0 /\ item'[i].doc = d
    BY <1>1, <1>2, <1>4, <1>7, CreateExtends
  <2>2. item' \in [Item -> ItemRow] /\ HeadOf(i)' = 1
    BY <2>1 DEF Extends
  <2>3. HeadOf(i)' \in Nat /\ (Created(i)' <=> HeadOf(i)' # 0)
    BY <2>2, CreatedHead
  <2>4. Makes(i, d)
    BY <1>5, <2>1, <2>2, <2>3 DEF Makes, Extends
  <2> QED
    BY <1>1, <1>7, <2>4 DEF d
<1>8. CASE i = j.stored[d].item /\ AppendRevision(i, j.stored[d].head, rev)
  <2>1. /\ Extends(i, rev) /\ item'[i].doc = item[i].doc /\ HeadOf(i) = j.stored[d].head
    BY <1>1, <1>4, <1>8, AppendExtends
  <2>2. j.stored[d].head # 0
    <3>1. i # 0
      BY DEF Item
    <3> QED
      BY <1>1, <1>2, <1>5, <1>8, <2>1, <3>1 DEF IngestKnows
  <2>3. /\ item' \in [Item -> ItemRow] /\ HeadOf(i)' = HeadOf(i) + 1
        /\ \A k \in Item \ {i} : item'[k] = item[k]
    BY <2>1 DEF Extends
  <2>4. HeadOf(i)' \in Nat /\ (Created(i)' <=> HeadOf(i)' # 0)
    BY <2>3, CreatedHead
  <2>5. SameMaking
    BY <1>5, <2>1, <2>2, <2>3, <2>4 DEF SameMaking, Created
  <2> QED
    BY <1>1, <2>5
<1> QED
  BY <1>3, <1>6, <1>7, <1>8 DEF WriteDocument, rev

\* The commit at position n was no item when the miner read the store.
NotKnown(j, n) == j.known[History[n]] = 0

\* A candidate's transaction makes an item only for a commit that was not known.
LEMMA CandidateMade ==
    ASSUME HarvestInv, NEW m \in Miner, HarvestCandidate(m),
           NEW j, j = mining[m], NEW n, n = Newest(j.todo)
    PROVE  /\ j \in CandidateJob
           /\ n \in j.todo
           /\ UNCHANGED <<queue, job>>
           /\ \/ SameMaking /\ mining' = [mining EXCEPT ![m] = [j EXCEPT !.todo = @ \ {n}]]
              \/ /\ NotKnown(j, n)
                 /\ \E i \in Item :
                       /\ Makes(i, History[n])
                       /\ mining' = [mining EXCEPT ![m] = [j EXCEPT !.todo = @ \ {n},
                                                                    !.pending = @ \cup {i}]]
<1> SUFFICES ASSUME NEW c, c = History[n]
             PROVE  /\ j \in CandidateJob
                    /\ n \in j.todo
                    /\ UNCHANGED <<queue, job>>
                    /\ \/ SameMaking /\ mining' = [mining EXCEPT ![m] = [j EXCEPT !.todo = @ \ {n}]]
                       \/ /\ NotKnown(j, n)
                          /\ \E i \in Item :
                                /\ Makes(i, c)
                                /\ mining' = [mining EXCEPT ![m] = [j EXCEPT !.todo = @ \ {n},
                                                                             !.pending = @ \cup {i}]]
  OBVIOUS
<1>c. c = History[Newest(j.todo)]
  OBVIOUS
<1>1. /\ j \in CandidateJob /\ n \in j.todo /\ UNCHANGED <<queue, job>>
      /\ CandidateRevision(c) \in Revision
  BY <1>c, CandidateWritten
<1>p. PICK i \in Item : CandidateRun(m, j, c, i)
  BY <1>c, CandidateWritten
<1>2. /\ CandidateStores(j, c, i)
      /\ mining' = [mining EXCEPT ![m].todo = @ \ {Newest(j.todo)},
                                  ![m].pending = PendingNow(j, c, i)]
  BY <1>p DEF CandidateRun
<1>3. mining' = [mining EXCEPT ![m] = [j EXCEPT !.todo = @ \ {n}, !.pending = PendingNow(j, c, i)]]
  BY <1>1, <1>2 DEF HarvestInv, MiningType, CandidateJob
<1>4. item \in [Item -> ItemRow]
  BY DEF HarvestInv, Inv, TypeOK, StoreTypeOK
<1>5. CASE j.known[c] = 0 /\ Extends(i, CandidateRevision(c)) /\ HeadOf(i) = 0 /\ item'[i].doc = c
  <2>1. /\ item' \in [Item -> ItemRow] /\ HeadOf(i)' = 1
        /\ \A k \in Item \ {i} : item'[k] = item[k]
    BY <1>5 DEF Extends
  <2>2. ~Created(i) /\ Created(i)'
    BY <1>4, <1>5, <2>1, CreatedHead
  <2>3. Makes(i, c)
    BY <1>5, <2>1, <2>2 DEF Makes
  <2> QED
    BY <1>1, <1>3, <1>5, <2>3 DEF PendingNow, NotKnown
<1>6. CASE j.known[c] = i /\ UNCHANGED item
  <2>1. SameMaking /\ j.known[c] # 0
    BY <1>6 DEF SameMaking, Created, Item
  <2>2. [j EXCEPT !.todo = @ \ {n}, !.pending = PendingNow(j, c, i)] = [j EXCEPT !.todo = @ \ {n}]
    BY <1>1, <2>1 DEF PendingNow, CandidateJob
  <2> QED
    BY <1>1, <1>3, <2>1, <2>2
<1> QED
  BY <1>2, <1>5, <1>6 DEF CandidateStores

\* The step of q leaves q with nothing of an ingest.
Elsewhere(q) == \E j : Goes(q, j) /\ j.at \notin {"document", "queue"}

LEMMA OtherCommands ==
    ASSUME Inv, NEW q \in Proc,
           \/ Abandon(q) \/ QueueSuggestions(q) \/ BindStart(q) \/ BindPair(q)
           \/ ListQueue(q) \/ ReadCauses(q) \/ Decide(q) \/ Refresh(q)
    PROVE  Elsewhere(q)
<1>1. Idle.at \notin {"document", "queue"}
  BY DEF Idle
<1>2. CASE Abandon(q) \/ QueueSuggestions(q) \/ BindPair(q) \/ RecordRefresh(q)
  BY <1>1, <1>2 DEF Abandon, QueueSuggestions, BindPair, RecordRefresh, Becomes, Elsewhere
<1>3. CASE BindStart(q)
  <2>1. \E j : Goes(q, j) /\ j.at = "bind"
    BY <1>3 DEF BindStart, Issue
  <2> QED
    BY <2>1 DEF Elsewhere
<1>4. CASE ListQueue(q)
  <2>1. \E j : Goes(q, j) /\ j.at \in {"causes", "decide"}
    BY <1>4 DEF ListQueue, Issue
  <2> QED
    BY <2>1 DEF Elsewhere
<1>5. CASE RefreshStart(q)
  <2>1. \E j : Goes(q, j) /\ j.at = "observe"
    BY <1>5 DEF RefreshStart, Concluded, Issue
  <2> QED
    BY <2>1 DEF Elsewhere
<1>6. CASE MapObserve(q) \/ MapMoves(q)
  <2>1. job[q] \in RefreshJob
    BY <1>6, JobKinds DEF MapObserve, MapMoves, At, Inv
  <2>2. PICK phase \in {"moves", "record"} : Goes(q, [job[q] EXCEPT !.at = phase])
    BY <1>6 DEF MapObserve, MapMoves, Becomes
  <2>3. [job[q] EXCEPT !.at = phase].at = phase
    BY <2>1 DEF RefreshJob
  <2> QED
    BY <2>2, <2>3 DEF Elsewhere
<1>7. CASE ReadCauses(q)
  <2>1. job[q] \in ReviewJob
    BY <1>7, JobKinds DEF ReadCauses, At, Inv
  <2>2. PICK S, t : Goes(q, [job[q] EXCEPT !.at = "decide", !.affected = S, !.target = t])
    BY <1>7 DEF ReadCauses, Becomes
  <2>3. [job[q] EXCEPT !.at = "decide", !.affected = S, !.target = t].at = "decide"
    BY <2>1 DEF ReviewJob
  <2> QED
    BY <2>2, <2>3 DEF Elsewhere
<1>8. CASE Decide(q)
  <2>1. PICK i \in Item : /\ job[q].at \in {"decide", "stamp"}
                          /\ Done(q, i) \/ Becomes(q, [job[q] EXCEPT !.at = "stamp"])
    BY <1>8 DEF Decide, ConfirmCandidate, ConfirmSuggestions, EditEntry, RejectRead, RejectStamp,
       RetireEntry, RebindEntry, ConfirmCurrentEntry, Deciding, At
  <2>2. job[q] \in ReviewJob
    BY <2>1, JobKinds DEF Inv
  <2>3. /\ [job[q] EXCEPT !.at = "stamp"].at = "stamp"
        /\ [job[q] EXCEPT !.seen[i] = None].at = job[q].at
    BY <2>2 DEF ReviewJob
  <2> QED
    BY <1>1, <2>1, <2>3 DEF Done, Becomes, Elsewhere
<1> QED
  BY <1>2, <1>3, <1>4, <1>5, <1>6, <1>7, <1>8 DEF Refresh

\* A process that is ingesting was, or starts, or takes an ingest's next step.
Ingesting(p) == job[p].at \in {"document", "queue"}

LEMMA IngestPhases ==
    ASSUME Inv, [Next]_vars, NEW p \in Proc, Ingesting(p)'
    PROVE  job'[p] = job[p] \/ IngestStart(p) \/ IngestDocument(p) \/ QueueVerification(p)
<1>1. job \in [Proc -> Job]
  BY DEF Inv, TypeOK
<1>2. CASE UNCHANGED vars
  BY <1>2 DEF vars
<1>3. ASSUME NEW q \in Proc, Elsewhere(q)
      PROVE  job'[p] = job[p]
  BY <1>1, <1>3 DEF Elsewhere, Goes, Ingesting
<1>4. ASSUME NEW q \in Proc, IngestStart(q) \/ IngestDocument(q) \/ QueueVerification(q)
      PROVE  q = p \/ job'[p] = job[p]
  <2>1. \E j : Goes(q, j)
    BY <1>4 DEF IngestStart, IngestDocument, QueueVerification, Issue, Becomes
  <2> QED
    BY <1>1, <2>1 DEF Goes
<1> QED
  BY <1>2, <1>3, <1>4, OtherCommands DEF Next, Ingest

-----------------------------------------------------------------------------
(* Every candidate reaches review, or its run did not end                    *)

\* What is left of a run's documents: discovered ones, each once.
DocumentsLeft(todo) ==
    /\ \A a \in DOMAIN todo : \E n \in DOMAIN Docs : todo[a] = Docs[n]
    /\ \A a, b \in DOMAIN todo : todo[a] = todo[b] => a = b

TodoInv == \A p \in Proc : job[p].at = "document" => DocumentsLeft(job[p].todo)

\* The rest of the documents, after the first of them.
LEMMA TailLeft ==
    ASSUME NEW todo \in Seq(Doc), todo # << >>, DocumentsLeft(todo)
    PROVE  /\ DocumentsLeft(Tail(todo))
           /\ \E n \in DOMAIN Docs : Head(todo) = Docs[n]
           /\ \A a \in DOMAIN Tail(todo) :
                 Tail(todo)[a] # Head(todo) /\ \E b \in DOMAIN todo : Tail(todo)[a] = todo[b]
<1>1. /\ Len(todo) \in Nat /\ Len(todo) > 0 /\ DOMAIN todo = 1 .. Len(todo)
      /\ Head(todo) = todo[1]
      /\ DOMAIN Tail(todo) = 1 .. Len(todo) - 1
      /\ \A a \in DOMAIN Tail(todo) : Tail(todo)[a] = todo[a + 1]
  OBVIOUS
<1>2. \A a \in DOMAIN Tail(todo) : a \in Nat /\ a # 0 /\ a + 1 \in DOMAIN todo /\ a + 1 # 1
  BY <1>1
<1>3. 1 \in DOMAIN todo
  BY <1>1
<1>4. \A a, b \in DOMAIN Tail(todo) : Tail(todo)[a] = Tail(todo)[b] => a = b
  BY <1>1, <1>2 DEF DocumentsLeft
<1> QED
  BY <1>1, <1>2, <1>3, <1>4 DEF DocumentsLeft

LEMMA TailShorter ==
    ASSUME NEW s \in Seq(Doc), s # << >>
    PROVE  Tail(s) # s
<1>1. \A t \in Seq(Doc) : t = Tail(s) => Len(t) = Len(s) - 1
  OBVIOUS
<1>2. Len(s) \in Nat
  OBVIOUS
<1>3. ASSUME Tail(s) = s
      PROVE  Len(s) = Len(s) - 1
  BY <1>1, <1>3
<1> QED
  BY <1>2, <1>3

\* The revision that holds a document's text once it is written.
RevisionOf(j, d) ==
    IF j.stored[d].item = 0 \/ j.stored[d].digest # j.body[d]
    THEN j.stored[d].head + 1 ELSE j.stored[d].head

\* What an ingest holds after a document's transaction.
LEMMA DocumentTaken ==
    ASSUME Inv, NEW p \in Proc, IngestDocument(p),
           NEW j, j = job[p], NEW d, d = Head(j.todo)
    PROVE  /\ job'[p] \in IngestJob
           /\ job'[p].at = "document"
           /\ job'[p].todo = Tail(j.todo)
           /\ job'[p].stored = j.stored
           /\ job'[p].shownTexts = j.shownTexts
           /\ \E i \in Item :
                 /\ WriteDocument(j, d, i)
                 /\ \/ job'[p].suggest = j.suggest
                    \/ /\ <<i, j.body[d]>> \notin j.shownTexts
                       /\ job'[p].suggest = j.suggest \cup {<<i, RevisionOf(j, d)>>}
<1>1. j \in IngestJob /\ job \in [Proc -> Job] /\ j.at = "document" /\ job'[p] \in Job
  BY DocumentMade, IngestDocumentInv DEF Inv, TypeOK, IngestDocument, At
<1> DEFINE wrote == j.stored[d].item = 0 \/ j.stored[d].digest # j.body[d]
           rev   == RevisionOf(j, d)
<1>2. PICK i \in Item :
        /\ WriteDocument(j, d, i)
        /\ Becomes(p,
             [j EXCEPT
                !.todo    = Tail(@),
                !.verify  = IF wrote /\ j.unverified THEN @ \cup {<<i, rev>>} ELSE @,
                !.suggest = IF /\ SuggestedMatches(j, d, i) # {}
                               /\ ~(wrote /\ j.unverified)
                               /\ NotYetPresented(j, d, i, rev)
                            THEN @ \cup {<<i, rev>>} ELSE @])
  BY DEF IngestDocument, RevisionOf
<1> DEFINE verify  == IF wrote /\ j.unverified THEN j.verify \cup {<<i, rev>>} ELSE j.verify
           suggest == IF /\ SuggestedMatches(j, d, i) # {}
                         /\ ~(wrote /\ j.unverified)
                         /\ NotYetPresented(j, d, i, rev)
                      THEN j.suggest \cup {<<i, rev>>} ELSE j.suggest
           next == [j EXCEPT !.todo = Tail(@), !.verify = verify, !.suggest = suggest]
<1>3. job'[p] = next
  <2>1. Becomes(p, next)
    BY <1>2
  <2> HIDE DEF next
  <2> QED
    BY <1>1, <2>1 DEF Becomes, Goes
<1>4. \/ suggest = j.suggest
      \/ /\ <<i, j.body[d]>> \notin j.shownTexts
         /\ suggest = j.suggest \cup {<<i, RevisionOf(j, d)>>}
  BY DEF NotYetPresented
<1> HIDE DEF verify, suggest
<1>5. /\ job'[p].at = "document"
      /\ job'[p].todo = Tail(j.todo)
      /\ job'[p].stored = j.stored
      /\ job'[p].shownTexts = j.shownTexts
      /\ job'[p].suggest = suggest
  BY <1>1, <1>3 DEF IngestJob
<1>6. job'[p] \in IngestJob
  BY <1>1, <1>5 DEF Job, Idle, ReviewJob, IngestJob, BindJob, RefreshJob
<1> QED
  BY <1>2, <1>4, <1>5, <1>6

\* An ingest takes up the discovered documents, each once.
LEMMA TodoStep ==
    ASSUME Inv, TodoInv, [Next]_vars
    PROVE  TodoInv'
<1> SUFFICES ASSUME NEW p \in Proc, job'[p].at = "document"
             PROVE  DocumentsLeft(job'[p].todo)
  BY DEF TodoInv, DocumentsLeft
<1>1. job \in [Proc -> Job]
  BY DEF Inv, TypeOK
<1>2. CASE job'[p] = job[p]
  BY <1>2 DEF TodoInv
<1>3. CASE IngestStart(p)
  <2>1. job'[p].todo = Docs
    BY <1>1, <1>3 DEF IngestStart, Issue, Goes
  <2> QED
    BY <2>1, DocsAssumption DEF DocumentsLeft
<1>4. CASE IngestDocument(p)
  <2> SUFFICES ASSUME NEW j, j = job[p]
               PROVE  DocumentsLeft(job'[p].todo)
    OBVIOUS
  <2>1. j.todo \in Seq(Doc) /\ j.todo # << >> /\ job'[p].todo = Tail(j.todo)
    BY <1>4, DocumentMade, DocumentTaken
  <2>2. DocumentsLeft(j.todo)
    BY <1>4 DEF TodoInv, IngestDocument, At
  <2> QED
    BY <2>1, <2>2, TailLeft
<1>5. CASE QueueVerification(p)
  <2>1. job[p] \in IngestJob
    BY <1>5, JobKinds DEF QueueVerification, At, Inv
  <2>2. job'[p].at = "queue"
    BY <1>1, <1>5, <2>1 DEF QueueVerification, Becomes, Goes, IngestJob
  <2> QED
    BY <2>2
<1> QED
  BY <1>2, <1>3, <1>4, <1>5, IngestPhases DEF Ingesting

LEMMA HarvestTodoStep ==
    ASSUME HarvestInv, TodoInv, [HarvestNext]_allVars
    PROVE  TodoInv'
<1>1. CASE [Next]_vars
  BY <1>1, TodoStep DEF HarvestInv
<1>2. CASE UNCHANGED job
  BY <1>2 DEF TodoInv, DocumentsLeft
<1>3. ASSUME NEW m \in Miner,
             HarvestStart(m) \/ HarvestCandidate(m) \/ HarvestQueue(m) \/ HarvestAbandon(m)
      PROVE  UNCHANGED job
  BY <1>3 DEF HarvestStart, HarvestCandidate, HarvestQueue, HarvestAbandon
<1> QED
  BY <1>1, <1>2, <1>3 DEF HarvestNext, allVars

\* A command's step makes no candidate.
LEMMA CommandsMineNothing ==
    ASSUME Inv, TodoInv, [Next]_vars, NEW i \in Item, Mined(i)'
    PROVE  Mined(i)
<1>1. CASE SameMaking
  BY <1>1 DEF SameMaking, Mined
<1>2. CASE UNCHANGED vars
  BY <1>2 DEF vars, Mined, Created
<1>3. ASSUME NEW p \in Proc, IngestDocument(p)
      PROVE  Mined(i)
  <2> SUFFICES ASSUME NEW j, j = job[p]
               PROVE  Mined(i)
    OBVIOUS
  <2>1. j.todo \in Seq(Doc) /\ j.todo # << >> /\ DocumentsLeft(j.todo)
    BY <1>3, DocumentMade DEF TodoInv, IngestDocument, At
  <2>2. PICK n \in DOMAIN Docs : Head(j.todo) = Docs[n]
    BY <2>1, TailLeft
  <2>3. Head(j.todo) \notin DOMAIN Commit
    BY <2>2, HistoryAssumption
  <2>4. CASE \E k \in Item : Makes(k, Head(j.todo))
    BY <2>3, <2>4 DEF Makes, Mined, Created
  <2> QED
    BY <1>1, <1>3, <2>4, DocumentMade
<1> QED
  BY <1>1, <1>2, <1>3, OthersMakeNothing DEF Next, Ingest

\* What keeps a candidate in front of a reviewer, whatever the step.
LEMMA EntryStays ==
    ASSUME Inv, StepKinds, NEW i \in Item, \E b \in DOMAIN queue : i \in Members(b)
    PROVE  \E b \in DOMAIN queue' : i \in Members(b)'
BY EntriesKept

LEMMA ReachStep ==
    ASSUME HarvestInv, TodoInv, CandidatesReachReview, [HarvestNext]_allVars
    PROVE  CandidatesReachReview'
<1> SUFFICES ASSUME NEW i \in Item, Mined(i)'
             PROVE  \/ \E b \in DOMAIN queue' : i \in Members(b)'
                    \/ \E m \in Miner : mining'[m].at # "idle" /\ i \in mining'[m].pending
                    \/ i \in lost'
  BY DEF CandidatesReachReview, Mining
<1> DEFINE Reached == \/ \E b \in DOMAIN queue' : i \in Members(b)'
                      \/ \E m \in Miner : mining'[m].at # "idle" /\ i \in mining'[m].pending
                      \/ i \in lost'
<1>1. Inv /\ StepKinds /\ mining \in [Miner -> {Idle} \cup CandidateJob]
  BY HarvestStep DEF HarvestInv, MiningType
<1>2. Mined(i) => \/ \E b \in DOMAIN queue : i \in Members(b)
                  \/ \E m \in Miner : mining[m].at # "idle" /\ i \in mining[m].pending
                  \/ i \in lost
  BY DEF CandidatesReachReview, Mining
<1>3. (\E b \in DOMAIN queue : i \in Members(b)) => Reached
  BY <1>1, EntryStays
<1>4. CASE UNCHANGED allVars
  BY <1>2, <1>3, <1>4 DEF allVars, Mined, Created
<1>5. CASE Next /\ UNCHANGED harvestVars
  <2>1. Mined(i)
    BY <1>1, <1>5, CommandsMineNothing
  <2> QED
    BY <1>2, <1>3, <1>5, <2>1 DEF harvestVars
<1>6. ASSUME NEW m \in Miner, HarvestStart(m)
      PROVE  Reached
  <2>1. Mined(i) /\ UNCHANGED lost
    BY <1>6 DEF HarvestStart, storeVars, Mined, Created
  <2>2. mining[m].at = "idle" /\ \A n \in Miner \ {m} : mining'[n] = mining[n]
    BY <1>1, <1>6 DEF HarvestStart, Mining
  <2> QED
    BY <1>2, <1>3, <2>1, <2>2
<1>7. ASSUME NEW m \in Miner, HarvestCandidate(m)
      PROVE  Reached
  <2> SUFFICES ASSUME NEW j, j = mining[m], NEW n, n = Newest(j.todo)
               PROVE  Reached
    OBVIOUS
  <2>1. j \in CandidateJob /\ UNCHANGED lost
    <3>1. UNCHANGED lost
      BY <1>7 DEF HarvestCandidate
    <3> QED
      BY <1>7, <3>1, CandidateMade
  <2>2. PICK S : /\ mining' = [mining EXCEPT ![m] = [j EXCEPT !.todo = @ \ {n}, !.pending = @ \cup S]]
                 /\ Mined(i) \/ i \in S
    <3>1. CASE SameMaking /\ mining' = [mining EXCEPT ![m] = [j EXCEPT !.todo = @ \ {n}]]
      <4>1. [j EXCEPT !.todo = @ \ {n}] = [j EXCEPT !.todo = @ \ {n}, !.pending = @ \cup {}]
        BY <2>1 DEF CandidateJob
      <4> QED
        BY <3>1, <4>1 DEF SameMaking, Mined
    <3>2. ASSUME NEW k \in Item, Makes(k, History[n]),
                 mining' = [mining EXCEPT ![m] = [j EXCEPT !.todo = @ \ {n}, !.pending = @ \cup {k}]]
          PROVE  \E T : /\ mining' = [mining EXCEPT ![m] = [j EXCEPT !.todo = @ \ {n}, !.pending = @ \cup T]]
                        /\ Mined(i) \/ i \in T
      BY <3>2 DEF Makes, Mined, Created
    <3> QED
      BY <1>7, <3>1, <3>2, CandidateMade
  <2>3. /\ mining'[m].at = "candidates" /\ mining'[m].pending = j.pending \cup S
        /\ \A l \in Miner \ {m} : mining'[l] = mining[l]
    BY <1>1, <2>1, <2>2 DEF CandidateJob
  <2> QED
    BY <1>2, <1>3, <2>1, <2>2, <2>3
<1>8. ASSUME NEW m \in Miner, HarvestQueue(m)
      PROVE  Reached
  <2>1. Mined(i) /\ UNCHANGED lost /\ \A n \in Miner \ {m} : mining'[n] = mining[n]
    BY <1>1, <1>8 DEF HarvestQueue, Mined, Created
  <2>2. CASE i \in mining[m].pending
    <3> DEFINE props == [k \in mining[m].pending |-> 1]
    <3>1. OpenBatch("ingest-unverified", NoClass, props)
      BY <1>8, <2>2 DEF HarvestQueue, BatchOf
    <3>2. i \in DOMAIN props /\ (\A k \in DOMAIN props : props[k] \in Nat)
      BY <2>2
    <3>3. "ingest-unverified" \in Population /\ NoClass \in [Ref -> Class] /\ StoreTypeOK
      BY <1>1 DEF Population, NoClass, Class, Inv, TypeOK
    <3> HIDE DEF props
    <3>4. /\ DOMAIN queue' = 1 .. Len(queue) + 1 /\ Len(queue) \in Nat
          /\ queue'[Len(queue) + 1].disp[i] = "open"
      BY <3>1, <3>2, <3>3, OpenBatchKeeps DEF StoreTypeOK
    <3> QED
      BY <3>4 DEF Members
  <2> QED
    BY <1>2, <1>3, <2>1, <2>2
<1>9. ASSUME NEW m \in Miner, HarvestAbandon(m)
      PROVE  Reached
  <2>1. Mined(i) /\ lost' = lost \cup mining[m].pending
    BY <1>9 DEF HarvestAbandon, storeVars, Mined, Created
  <2>2. \A n \in Miner \ {m} : mining'[n] = mining[n]
    BY <1>1, <1>9 DEF HarvestAbandon
  <2> QED
    BY <1>2, <1>3, <2>1, <2>2
<1> QED
  BY <1>4, <1>5, <1>6, <1>7, <1>8, <1>9 DEF HarvestNext

\* With any number of miners and commands, every candidate is in the queue, or
\* its run is still going, or was cut short.
THEOREM CandidatesReach == HarvestSpec => []CandidatesReachReview
<1>1. HarvestInit => TodoInv /\ CandidatesReachReview
  BY DEF HarvestInit, Init, StoreInit, NoItem, Idle, TodoInv, CandidatesReachReview, Mined, Created
<1>2. HarvestInv /\ [HarvestNext]_allVars => HarvestInv'
  BY HarvestStep
<1>3. HarvestInv /\ TodoInv /\ [HarvestNext]_allVars => TodoInv'
  BY HarvestTodoStep
<1>4. HarvestInv /\ TodoInv /\ CandidatesReachReview /\ [HarvestNext]_allVars
         => CandidatesReachReview'
  BY ReachStep
<1> QED
  BY <1>1, <1>2, <1>3, <1>4, HarvestInitInv, PTL DEF HarvestSpec

-----------------------------------------------------------------------------
(* One item per document and per commit                                      *)
(*                                                                         *)
(* The promise is to one ingest and one harvest at a time: two first ingests *)
(* of a file both find no item, and each makes one.  A document that had no  *)
(* item when the run read the store has none until the run itself makes it.  *)

OneIngestAtATime  == \A p, q \in Proc : Ingesting(p) /\ Ingesting(q) => p = q
OneHarvestAtATime == \A m, n \in Miner : ~Mining(m, "idle") /\ ~Mining(n, "idle") => m = n

MadeFrom(i, d) == Created(i) /\ item[i].doc = d
Unmade(d)      == \A i \in Item : ~MadeFrom(i, d)

DocumentsAreNew(j) ==
    \A a \in DOMAIN j.todo : j.stored[j.todo[a]].item = 0 => Unmade(j.todo[a])

CommitsAreNew(j) ==
    \A n \in j.todo : j.known[History[n]] = 0 => Unmade(History[n])

RowsOnce ==
    /\ \A i \in Item : Created(i) => item[i].doc \in Doc
    /\ \A i \in Item : ~Created(i) => item[i].doc = None
    /\ \A i, k \in Item : Created(i) /\ Created(k) /\ item[i].doc = item[k].doc => i = k

MadeOnce ==
    /\ RowsOnce
    /\ \A p \in Proc : job[p].at = "document" => DocumentsAreNew(job[p])
    /\ \A m \in Miner : mining[m].at = "candidates" => CommitsAreNew(mining[m])

\* Making one item leaves everything else unmade.
LEMMA UnmadeStays ==
    ASSUME NEW e, SameMaking \/ \E k \in Item : Makes(k, e),
           NEW d, Unmade(d), d # e \/ SameMaking
    PROVE  Unmade(d)'
<1>1. CASE SameMaking
  BY <1>1 DEF SameMaking, Unmade, MadeFrom
<1>2. ASSUME NEW k \in Item, Makes(k, e), d # e
      PROVE  Unmade(d)'
  BY <1>2 DEF Makes, Unmade, MadeFrom, Created
<1> QED
  BY <1>1, <1>2

\* An item made from what was unmade is the only one of it.
LEMMA RowsOnceKept ==
    ASSUME RowsOnce, SameMaking \/ \E d \in Doc : Unmade(d) /\ \E k \in Item : Makes(k, d)
    PROVE  RowsOnce'
<1>1. CASE SameMaking
  BY <1>1 DEF SameMaking, RowsOnce
<1>2. ASSUME NEW d \in Doc, Unmade(d), NEW k \in Item, Makes(k, d)
      PROVE  RowsOnce'
  <2>1. /\ Created(k)' /\ item'[k].doc = d
        /\ \A i \in Item \ {k} : item'[i].doc = item[i].doc /\ (Created(i)' <=> Created(i))
    BY <1>2 DEF Makes, Created
  <2>2. \A i \in Item \ {k} : Created(i) => item[i].doc # d
    BY <1>2 DEF Unmade, MadeFrom
  <2>3. (\A i \in Item : Created(i) => item[i].doc \in Doc)'
    <3>1. \A i \in Item : Created(i)' => item'[i].doc \in Doc
      BY <2>1 DEF RowsOnce
    <3> QED
      BY <3>1
  <2>4. \A i \in Item : ~Created(i)' => item'[i].doc = None
    BY <2>1 DEF RowsOnce
  <2>5. \A i, l \in Item : Created(i)' /\ Created(l)' /\ item'[i].doc = item'[l].doc => i = l
    BY <2>1, <2>2 DEF RowsOnce
  <2> QED
    BY <2>3, <2>4, <2>5 DEF RowsOnce
<1> QED
  BY <1>1, <1>2

\* A document is stored as an item made from it, if there is one, with the
\* digest of its head.
LEMMA StoredAsMeans ==
    ASSUME Inv, NEW d \in Doc
    PROVE  LET s == StoredAs(d)
           IN  /\ s.item = 0 => Unmade(d)
               /\ s.item # 0 => item[s.item].chain[s.head].src = s.digest
<1> DEFINE mine == {i \in Item : Created(i) /\ item[i].doc = d}
           newest == CHOOSE k \in mine : \A j \in mine : j <= k
<1>1. CASE mine = {}
  <2>1. StoredAs(d) = [item |-> 0, head |-> 0, digest |-> None]
    BY <1>1 DEF StoredAs
  <2> QED
    BY <1>1, <2>1 DEF Unmade, MadeFrom
<1>2. CASE mine # {}
  <2>1. newest \in mine
    BY <1>2, NewestItem
  <2>2. newest \in Item /\ newest # 0
    <3> HIDE DEF newest
    <3>1. newest \in Item
      BY <2>1
    <3> QED
      BY <3>1 DEF Item
  <2>3. StoredAs(d) = [item |-> newest, head |-> HeadOf(newest), digest |-> HeadRow(newest).src]
    BY <1>2 DEF StoredAs
  <2> HIDE DEF newest
  <2> QED
    BY <2>2, <2>3 DEF HeadRow
<1> QED
  BY <1>1, <1>2

\* Every step makes at most one item, from a document of its run or from the
\* commit it takes up, neither made before.
LEMMA StepMakes ==
    ASSUME HarvestInv, TodoInv, MadeOnce, [HarvestNext]_allVars
    PROVE  \/ SameMaking
           \/ \E p \in Proc : /\ IngestDocument(p)
                              /\ UNCHANGED mining
                              /\ LET d == Head(job[p].todo)
                                 IN  /\ \E n \in DOMAIN Docs : d = Docs[n]
                                     /\ Unmade(d)
                                     /\ \E k \in Item : Makes(k, d)
           \/ \E m \in Miner : /\ HarvestCandidate(m)
                               /\ LET c == History[Newest(mining[m].todo)]
                                  IN  /\ Unmade(c)
                                      /\ \E k \in Item : Makes(k, c)
<1>1. CASE UNCHANGED item
  BY <1>1 DEF SameMaking, Created
<1>2. ASSUME NEW p \in Proc, IngestDocument(p), UNCHANGED mining, NEW d, d = Head(job[p].todo)
      PROVE  \/ SameMaking
             \/ /\ \E n \in DOMAIN Docs : d = Docs[n]
                /\ Unmade(d)
                /\ \E k \in Item : Makes(k, d)
  <2> SUFFICES ASSUME NEW j, j = job[p]
               PROVE  \/ SameMaking
                      \/ /\ \E n \in DOMAIN Docs : d = Docs[n]
                         /\ Unmade(d)
                         /\ \E k \in Item : Makes(k, d)
    OBVIOUS
  <2>1. /\ j.todo \in Seq(Doc) /\ j.todo # << >>
        /\ SameMaking \/ (j.stored[d].item = 0 /\ \E k \in Item : Makes(k, d))
    BY <1>2, DocumentMade DEF HarvestInv
  <2>2. DocumentsLeft(j.todo) /\ DocumentsAreNew(j)
    BY <1>2 DEF TodoInv, MadeOnce, IngestDocument, At
  <2>3. \E n \in DOMAIN Docs : d = Docs[n]
    BY <1>2, <2>1, <2>2, TailLeft
  <2>4. 1 \in DOMAIN j.todo /\ d = j.todo[1]
    BY <1>2, <2>1
  <2> QED
    BY <2>1, <2>2, <2>3, <2>4 DEF DocumentsAreNew
<1>3. ASSUME NEW m \in Miner, HarvestCandidate(m)
      PROVE  LET c == History[Newest(mining[m].todo)]
             IN  SameMaking \/ (Unmade(c) /\ \E k \in Item : Makes(k, c))
  <2> SUFFICES ASSUME NEW j, j = mining[m], NEW n, n = Newest(j.todo)
               PROVE  SameMaking \/ (Unmade(History[n]) /\ \E k \in Item : Makes(k, History[n]))
    OBVIOUS
  <2>1. /\ n \in j.todo
        /\ SameMaking \/ \E k \in Item : Makes(k, History[n])
        /\ SameMaking \/ NotKnown(j, n)
    <3>1. n \in j.todo /\ (SameMaking \/ \E k \in Item : Makes(k, History[n]))
      BY <1>3, CandidateMade
    <3>2. SameMaking \/ NotKnown(j, n)
      BY <1>3, CandidateMade
    <3> QED
      BY <3>1, <3>2
  <2>2. CommitsAreNew(j)
    BY <1>3 DEF MadeOnce, HarvestCandidate, Mining
  <2> QED
    BY <2>1, <2>2 DEF CommitsAreNew, NotKnown
<1>4. ASSUME NEW m \in Miner, HarvestStart(m) \/ HarvestQueue(m) \/ HarvestAbandon(m)
      PROVE  UNCHANGED item
  BY <1>4 DEF HarvestStart, HarvestQueue, HarvestAbandon, storeVars
<1>5. CASE Next /\ UNCHANGED harvestVars
  <2>1. ASSUME NEW p \in Proc,
               \/ Abandon(p) \/ IngestStart(p) \/ QueueVerification(p) \/ QueueSuggestions(p)
               \/ BindStart(p) \/ BindPair(p) \/ ListQueue(p) \/ ReadCauses(p)
               \/ Decide(p) \/ Refresh(p)
        PROVE  SameMaking
    BY <2>1, OthersMakeNothing DEF HarvestInv
  <2> QED
    BY <1>2, <1>5, <2>1 DEF Next, Ingest, harvestVars
<1> QED
  BY <1>1, <1>3, <1>4, <1>5 DEF HarvestNext, allVars

\* A running ingest finds its documents still unmade.
LEMMA DocumentsStayNew ==
    ASSUME HarvestInv, TodoInv, MadeOnce, OneIngestAtATime, [HarvestNext]_allVars,
           NEW p \in Proc, job'[p].at = "document"
    PROVE  DocumentsAreNew(job[p])'
<1>1. Inv /\ job \in [Proc -> Job]
  BY DEF HarvestInv, Inv, TypeOK
<1>2. CASE IngestStart(p)
  <2>1. /\ job'[p].todo = Docs
        /\ job'[p].stored = [d \in Doc |-> StoredAs(d)]
        /\ UNCHANGED item
    BY <1>1, <1>2 DEF IngestStart, Issue, Goes, storeVars
  <2>2. \A a \in DOMAIN Docs : Docs[a] \in Doc
    BY DocsAssumption
  <2>3. \A a \in DOMAIN Docs : StoredAs(Docs[a]).item = 0 => Unmade(Docs[a])
    BY <1>1, <2>2, StoredAsMeans
  <2>4. \A d : Unmade(d) => Unmade(d)'
    BY <2>1 DEF Unmade, MadeFrom, Created
  <2> QED
    BY <2>1, <2>2, <2>3, <2>4 DEF DocumentsAreNew
<1>3. CASE IngestDocument(p) /\ UNCHANGED mining
  <2> SUFFICES ASSUME NEW j, j = job[p], NEW e, e = Head(j.todo)
               PROVE  DocumentsAreNew(job[p])'
    OBVIOUS
  <2>1. /\ j.todo \in Seq(Doc) /\ j.todo # << >>
        /\ SameMaking \/ \E k \in Item : Makes(k, e)
    BY <1>1, <1>3, DocumentMade
  <2>2. job'[p].todo = Tail(j.todo) /\ job'[p].stored = j.stored
    BY <1>1, <1>3, DocumentTaken
  <2>3. DocumentsLeft(j.todo) /\ DocumentsAreNew(j)
    BY <1>3 DEF TodoInv, MadeOnce, IngestDocument, At
  <2>4. \A a \in DOMAIN Tail(j.todo) :
           /\ Tail(j.todo)[a] # e
           /\ \E b \in DOMAIN j.todo : Tail(j.todo)[a] = j.todo[b]
    BY <2>1, <2>3, TailLeft
  <2>5. \A d : d # e /\ Unmade(d) => Unmade(d)'
    BY <2>1, UnmadeStays
  <2> QED
    BY <2>2, <2>3, <2>4, <2>5 DEF DocumentsAreNew
<1>4. CASE job'[p] = job[p] /\ ~IngestDocument(p)
  <2> SUFFICES ASSUME NEW j, j = job[p]
               PROVE  DocumentsAreNew(j)'
    BY <1>4 DEF DocumentsAreNew
  <2>1. DocumentsLeft(j.todo) /\ DocumentsAreNew(j)
    BY <1>4 DEF TodoInv, MadeOnce
  <2>2. ASSUME NEW q \in Proc, IngestDocument(q)
        PROVE  FALSE
    BY <1>4, <2>2 DEF OneIngestAtATime, Ingesting, IngestDocument, At
  <2>3. CASE SameMaking
    BY <2>1, <2>3 DEF DocumentsAreNew, SameMaking, Unmade, MadeFrom
  <2>4. ASSUME NEW m \in Miner, HarvestCandidate(m), NEW c, c = History[Newest(mining[m].todo)],
               \E k \in Item : Makes(k, c)
        PROVE  DocumentsAreNew(j)'
    <3>1. c \in DOMAIN Commit
      <4> SUFFICES ASSUME NEW k, k = mining[m]
                   PROVE  c \in DOMAIN Commit
        OBVIOUS
      <4> QED
        BY <2>4, CandidateWritten
    <3>2. \A a \in DOMAIN j.todo : j.todo[a] # c
      BY <2>1, <3>1, HistoryAssumption DEF DocumentsLeft
    <3>3. \A d : d # c /\ Unmade(d) => Unmade(d)'
      BY <2>4, UnmadeStays
    <3> QED
      BY <2>1, <3>2, <3>3 DEF DocumentsAreNew
  <2> QED
    BY <2>2, <2>3, <2>4, StepMakes
<1>5. CASE [Next]_vars /\ UNCHANGED mining
  <2>1. CASE QueueVerification(p)
    <3>1. job[p] \in IngestJob
      BY <1>1, <2>1, JobKinds DEF QueueVerification, At, Inv
    <3>2. job'[p].at = "queue"
      BY <1>1, <2>1, <3>1 DEF QueueVerification, Becomes, Goes, IngestJob
    <3> QED
      BY <3>2
  <2> QED
    BY <1>1, <1>2, <1>3, <1>4, <1>5, <2>1, IngestPhases DEF Ingesting
<1>6. CASE UNCHANGED job
  <2>1. ~IngestDocument(p)
    <3>1. ASSUME IngestDocument(p)
          PROVE  FALSE
      <4> SUFFICES ASSUME NEW j, j = job[p]
                   PROVE  FALSE
        OBVIOUS
      <4>1. j.todo \in Seq(Doc) /\ j.todo # << >> /\ job'[p].todo = Tail(j.todo)
        BY <1>1, <3>1, DocumentMade, DocumentTaken
      <4>2. Tail(j.todo) = j.todo
        BY <1>6, <4>1
      <4> QED
        BY <4>1, <4>2, TailShorter
    <3> QED
      BY <3>1
  <2> QED
    BY <1>4, <1>6, <2>1
<1>7. ASSUME NEW m \in Miner,
             HarvestStart(m) \/ HarvestCandidate(m) \/ HarvestQueue(m) \/ HarvestAbandon(m)
      PROVE  UNCHANGED job
  BY <1>7 DEF HarvestStart, HarvestCandidate, HarvestQueue, HarvestAbandon
<1> QED
  BY <1>5, <1>6, <1>7 DEF HarvestNext, harvestVars, allVars

\* A running miner finds its commits still unmade.
LEMMA CommitsStayNew ==
    ASSUME HarvestInv, TodoInv, MadeOnce, OneHarvestAtATime, [HarvestNext]_allVars,
           NEW m \in Miner, mining'[m].at = "candidates"
    PROVE  CommitsAreNew(mining[m])'
<1>1. Inv /\ mining \in [Miner -> {Idle} \cup CandidateJob]
  BY DEF HarvestInv, MiningType
<1>2. CASE HarvestStart(m)
  <2>1. /\ mining'[m].known = [c \in DOMAIN Commit |-> HarvestedAs(c)]
        /\ mining'[m].todo \subseteq DOMAIN History
        /\ UNCHANGED item
    BY <1>1, <1>2 DEF HarvestStart, CandidatesIn, storeVars
  <2>2. \A n \in DOMAIN History : History[n] \in DOMAIN Commit
    BY HistoryAssumption
  <2>3. \A c : HarvestedAs(c) = 0 => Unmade(c)
    BY HarvestedAsType DEF Unmade, MadeFrom
  <2>4. \A c : Unmade(c) => Unmade(c)'
    BY <2>1 DEF Unmade, MadeFrom, Created
  <2> QED
    BY <2>1, <2>2, <2>3, <2>4 DEF CommitsAreNew
<1>3. CASE HarvestCandidate(m)
  <2> SUFFICES ASSUME NEW j, j = mining[m], NEW n, n = Newest(j.todo)
               PROVE  CommitsAreNew(mining[m])'
    OBVIOUS
  <2>1. /\ j \in CandidateJob /\ n \in j.todo
        /\ SameMaking \/ \E k \in Item : Makes(k, History[n])
    BY <1>3, CandidateMade
  <2>2. mining'[m].todo = j.todo \ {n} /\ mining'[m].known = j.known
    BY <1>1, <1>3, <2>1 DEF HarvestCandidate, CandidateJob
  <2>3. \A a \in j.todo \ {n} : History[a] # History[n]
    BY <2>1, HistoryAssumption DEF CandidateJob
  <2>4. CommitsAreNew(j)
    BY <1>3 DEF MadeOnce, HarvestCandidate, Mining
  <2>5. \A d : d # History[n] /\ Unmade(d) => Unmade(d)'
    BY <2>1, UnmadeStays
  <2> QED
    BY <2>2, <2>3, <2>4, <2>5 DEF CommitsAreNew
<1>4. CASE mining'[m] = mining[m] /\ ~HarvestCandidate(m)
  <2> SUFFICES ASSUME NEW j, j = mining[m]
               PROVE  CommitsAreNew(j)'
    BY <1>4 DEF CommitsAreNew
  <2>1. CommitsAreNew(j) /\ \A n \in j.todo : History[n] \in DOMAIN Commit
    BY <1>1, <1>4, HistoryAssumption DEF MadeOnce, CandidateJob, Idle
  <2>2. ASSUME NEW l \in Miner, HarvestCandidate(l)
        PROVE  FALSE
    BY <1>4, <2>2 DEF OneHarvestAtATime, HarvestCandidate, Mining
  <2>3. CASE SameMaking
    BY <2>1, <2>3 DEF CommitsAreNew, SameMaking, Unmade, MadeFrom
  <2>4. ASSUME NEW d, \E n \in DOMAIN Docs : d = Docs[n], \E k \in Item : Makes(k, d)
        PROVE  CommitsAreNew(j)'
    <3>1. \A n \in j.todo : History[n] # d
      BY <2>1, <2>4, HistoryAssumption
    <3>2. \A e : e # d /\ Unmade(e) => Unmade(e)'
      BY <2>4, UnmadeStays
    <3> QED
      BY <2>1, <3>1, <3>2 DEF CommitsAreNew
  <2> QED
    BY <2>2, <2>3, <2>4, StepMakes
<1>5. CASE UNCHANGED mining
  <2>1. ~HarvestCandidate(m)
    <3>1. ASSUME HarvestCandidate(m)
          PROVE  FALSE
      <4> SUFFICES ASSUME NEW j, j = mining[m], NEW n, n = Newest(j.todo)
                   PROVE  FALSE
        OBVIOUS
      <4>1. j \in CandidateJob /\ n \in j.todo
        BY <3>1, CandidateMade
      <4>2. mining'[m].todo = j.todo \ {n}
        BY <1>1, <3>1, <4>1 DEF HarvestCandidate, CandidateJob
      <4> QED
        BY <1>5, <4>1, <4>2
    <3> QED
      BY <3>1
  <2> QED
    BY <1>4, <1>5, <2>1
<1>6. ASSUME NEW l \in Miner, HarvestStart(l) \/ HarvestCandidate(l), l # m
      PROVE  CommitsAreNew(mining[m])'
  <2>1. mining'[m] = mining[m]
    BY <1>1, <1>6 DEF HarvestStart, HarvestCandidate
  <2>2. CASE HarvestCandidate(l)
    BY <1>6, <2>1, <2>2 DEF OneHarvestAtATime, HarvestCandidate, Mining
  <2>3. CASE HarvestStart(l)
    <3>1. \A d : Unmade(d) => Unmade(d)'
      BY <2>3 DEF HarvestStart, storeVars, Unmade, MadeFrom, Created
    <3> QED
      BY <2>1, <3>1 DEF MadeOnce, CommitsAreNew
  <2> QED
    BY <1>6, <2>2, <2>3
<1>7. ASSUME NEW l \in Miner, HarvestQueue(l) \/ HarvestAbandon(l)
      PROVE  CommitsAreNew(mining[m])'
  <2>1. mining' = [mining EXCEPT ![l] = Idle] /\ UNCHANGED item
    BY <1>7 DEF HarvestQueue, HarvestAbandon, storeVars
  <2>2. mining'[m] = mining[m]
    BY <1>1, <2>1 DEF Idle
  <2>3. \A d : Unmade(d) => Unmade(d)'
    BY <2>1 DEF Unmade, MadeFrom, Created
  <2> QED
    BY <2>2, <2>3 DEF MadeOnce, CommitsAreNew
<1> QED
  BY <1>2, <1>3, <1>5, <1>6, <1>7 DEF HarvestNext, harvestVars, allVars

LEMMA MadeOnceStep ==
    ASSUME HarvestInv, TodoInv, MadeOnce, OneIngestAtATime, OneHarvestAtATime,
           [HarvestNext]_allVars
    PROVE  MadeOnce'
<1>1. RowsOnce'
  <2>1. ASSUME NEW d, \E n \in DOMAIN Docs : d = Docs[n]
        PROVE  d \in Doc
    BY <2>1, DocsAssumption
  <2>2. ASSUME NEW m \in Miner, HarvestCandidate(m), NEW c, c = History[Newest(mining[m].todo)]
        PROVE  c \in Doc
    <3> SUFFICES ASSUME NEW j, j = mining[m]
                 PROVE  c \in Doc
      OBVIOUS
    <3>1. c \in DOMAIN Commit
      BY <2>2, CandidateWritten
    <3> QED
      BY <3>1, HistoryAssumption
  <2> QED
    BY <2>1, <2>2, StepMakes, RowsOnceKept DEF MadeOnce
<1>2. \A p \in Proc : job'[p].at = "document" => DocumentsAreNew(job[p])'
  BY DocumentsStayNew
<1>3. \A m \in Miner : mining'[m].at = "candidates" => CommitsAreNew(mining[m])'
  BY CommitsStayNew
<1> QED
  BY <1>1, <1>2, <1>3 DEF MadeOnce

\* Documents and commits taken up one run at a time have one item each, over
\* interrupted runs, overlapping ranges, and whatever review wrote in between.
THEOREM OneItemEach ==
    HarvestSpec /\ []OneIngestAtATime /\ []OneHarvestAtATime => []OneItemPerDocument
<1>1. HarvestInit => HarvestInv /\ TodoInv /\ MadeOnce
  <2>1. HarvestInit => TodoInv /\ MadeOnce
    BY DEF HarvestInit, Init, StoreInit, NoItem, Idle, TodoInv, MadeOnce, RowsOnce, Created
  <2> QED
    BY <2>1, HarvestInitInv
<1>2. HarvestInv /\ TodoInv /\ [HarvestNext]_allVars => HarvestInv' /\ TodoInv'
  BY HarvestStep, HarvestTodoStep
<1>3. /\ HarvestInv /\ TodoInv /\ MadeOnce
      /\ OneIngestAtATime /\ OneHarvestAtATime
      /\ [HarvestNext]_allVars
      => MadeOnce'
  BY MadeOnceStep
<1>4. MadeOnce => OneItemPerDocument
  <2> SUFFICES ASSUME MadeOnce, NEW i \in Item, NEW k \in Item,
                      Created(i), item[i].doc = item[k].doc
               PROVE  i = k
    BY DEF OneItemPerDocument
  <2>1. Created(k)
    BY ValuesAssumption DEF MadeOnce, RowsOnce
  <2> QED
    BY <2>1 DEF MadeOnce, RowsOnce
<1> QED
  BY <1>1, <1>2, <1>3, <1>4, PTL DEF HarvestSpec

-----------------------------------------------------------------------------
(* Every suggestion asked once                                               *)
(*                                                                         *)
(* Again for one ingest at a time.  The digests a run read as presented are  *)
(* those of every suggestion batch there is until it opens its own, and what *)
(* it collected is of none of them.                                          *)

\* The digest an entry's proposal was made with.
Proposed(b, i) == item[i].chain[queue[b].prop[i]].src

SuggestsNew(j) ==
    /\ \A b \in DOMAIN queue : \A i \in Members(b) :
          queue[b].pop = "ingest" => <<i, Proposed(b, i)>> \in j.shownTexts
    /\ \A d \in Doc : j.stored[d].item # 0 =>
          item[j.stored[d].item].chain[j.stored[d].head].src = j.stored[d].digest
    /\ \A e \in j.suggest : <<e[1], item[e[1]].chain[e[2]].src>> \notin j.shownTexts

Suggestions ==
    \A b \in DOMAIN queue : \A i \in Members(b) :
        queue[b].pop = "ingest" => queue[b].prop[i] \in 1 .. HeadOf(i)

AskedOnce ==
    \A b, c \in DOMAIN queue : \A i \in Members(b) \cap Members(c) :
        /\ queue[b].pop = "ingest"
        /\ queue[c].pop = "ingest"
        /\ Proposed(b, i) = Proposed(c, i)
        => b = c

AskedInv ==
    /\ Suggestions
    /\ AskedOnce
    /\ \A p \in Proc : Ingesting(p) => SuggestsNew(job[p])

\* An entry there was proposes the digest it did.
LEMMA ProposedStays ==
    ASSUME Inv, StepKinds, Suggestions, NEW b \in DOMAIN queue, NEW i \in Members(b),
           queue[b].pop = "ingest"
    PROVE  /\ Proposed(b, i)' = Proposed(b, i)
           /\ queue'[b].prop[i] \in 1 .. HeadOf(i)'
<1>1. i \in Item /\ queue'[b].prop = queue[b].prop
  BY EntriesKept DEF Members
<1>2. queue[b].prop[i] \in 1 .. HeadOf(i)
  BY DEF Suggestions
<1>3. item'[i].chain[queue[b].prop[i]] = item[i].chain[queue[b].prop[i]]
  BY <1>1, <1>2, KindsKeepHistory DEF HistoryKept
<1>4. HeadOf(i)' >= HeadOf(i) /\ HeadOf(i) \in Nat /\ HeadOf(i)' \in Nat
  <2>1. item \in [Item -> ItemRow] /\ item' \in [Item -> ItemRow]
    BY KindsKeepItems DEF Inv, TypeOK, StoreTypeOK
  <2> QED
    BY <1>1, <2>1, CreatedHead, StepGrows DEF Grows
<1> QED
  BY <1>1, <1>2, <1>3, <1>4 DEF Proposed

\* What a run holds is as new as it was while no suggestion batch is opened.
LEMMA SuggestsStay ==
    ASSUME Inv, StepKinds, Suggestions,
           \A b \in DOMAIN queue' \ DOMAIN queue : queue'[b].pop # "ingest",
           NEW j \in IngestJob, IngestKnows(j), SuggestsNew(j)
    PROVE  SuggestsNew(j)'
<1>1. ASSUME NEW b \in DOMAIN queue', NEW i \in Members(b)', queue'[b].pop = "ingest"
      PROVE  <<i, Proposed(b, i)'>> \in j.shownTexts
  <2>1. b \in DOMAIN queue
    BY <1>1
  <2>2. i \in Members(b) /\ queue[b].pop = "ingest"
    BY <1>1, <2>1, EntriesKept
  <2> QED
    BY <2>1, <2>2, ProposedStays DEF SuggestsNew
<1>2. ASSUME NEW d \in Doc, j.stored[d].item # 0
      PROVE  item'[j.stored[d].item].chain[j.stored[d].head].src = j.stored[d].digest
  <2>1. j.stored[d].item \in Item /\ j.stored[d].head \in 1 .. HeadOf(j.stored[d].item)
    BY <1>2 DEF IngestJob, StoredDocument, IngestKnows
  <2> QED
    BY <1>2, <2>1, KindsKeepHistory DEF HistoryKept, SuggestsNew
<1>3. ASSUME NEW e \in j.suggest
      PROVE  <<e[1], item'[e[1]].chain[e[2]].src>> \notin j.shownTexts
  <2>1. e[1] \in Item /\ e[2] \in 1 .. HeadOf(e[1])
    BY DEF IngestJob, IngestKnows
  <2> QED
    BY <2>1, KindsKeepHistory DEF HistoryKept, SuggestsNew
<1> QED
  BY <1>1, <1>2, <1>3 DEF SuggestsNew

\* The batch a step opens is the last, and is what it was opened as.
LEMMA NewBatch ==
    ASSUME StoreTypeOK, NEW pop, NEW cls, NEW props, OpenBatch(pop, cls, props)
    PROVE  \A b \in DOMAIN queue' \ DOMAIN queue :
              /\ queue'[b].pop = pop
              /\ \A i \in Members(b)' : i \in DOMAIN props /\ queue'[b].prop[i] = props[i]
<1> DEFINE row == [pop  |-> pop,
                   cls  |-> cls,
                   prop |-> [i \in Item |-> IF i \in DOMAIN props THEN props[i] ELSE 0],
                   disp |-> [i \in Item |-> IF i \in DOMAIN props THEN "open" ELSE "absent"],
                   res  |-> "open"]
<1>1. queue' = Append(queue, row) /\ queue \in Seq(BatchRow)
  BY DEF OpenBatch, StoreTypeOK
<1>2. row.pop = pop /\ \A i \in Item : row.disp[i] # "absent" => i \in DOMAIN props /\ row.prop[i] = props[i]
  OBVIOUS
<1> HIDE DEF row
<1>3. \A b \in DOMAIN queue' \ DOMAIN queue : queue'[b] = row
  BY <1>1
<1> QED
  BY <1>2, <1>3 DEF Members

\* Answering an entry opens no batch.
LEMMA AnswersOpenNothing ==
    ASSUME Inv, NEW p \in Proc, Decide(p)
    PROVE  DOMAIN queue' = DOMAIN queue
<1>1. CASE \E i \in Item : RejectRead(p, i)
  BY <1>1 DEF RejectRead, storeVars
<1>2. ASSUME NEW i \in Item,
             \/ ConfirmCandidate(p, i) \/ ConfirmSuggestions(p, i) \/ EditEntry(p, i)
             \/ RejectStamp(p, i) \/ RetireEntry(p, i) \/ RebindEntry(p, i)
             \/ ConfirmCurrentEntry(p, i)
      PROVE  DOMAIN queue' = DOMAIN queue
  <2>1. /\ i \in Pending(p) /\ job[p].at \in {"causes", "decide", "stamp"}
        /\ \E d \in Disposition : Stamp(job[p].batch, i, d)
    BY <1>2 DEF ConfirmCandidate, ConfirmSuggestions, EditEntry, RejectStamp, RetireEntry,
       RebindEntry, ConfirmCurrentEntry, Deciding, At, Resolve, Disposition
  <2>2. job[p].batch \in DOMAIN queue /\ i \in Members(job[p].batch)
    BY <2>1, DecidingKnows
  <2> QED
    BY <2>1, <2>2, StampKeeps DEF Inv, TypeOK
<1> QED
  BY <1>1, <1>2 DEF Decide

\* Only an ingest's second batch asks about suggestions.
LEMMA OnlySuggestionsAsk ==
    ASSUME HarvestInv, [HarvestNext]_allVars
    PROVE  \/ \A b \in DOMAIN queue' \ DOMAIN queue : queue'[b].pop # "ingest"
           \/ \E p \in Proc : QueueSuggestions(p) /\ UNCHANGED mining
<1> DEFINE NoQuestion == \A b \in DOMAIN queue' \ DOMAIN queue : queue'[b].pop # "ingest"
<1>1. Inv /\ StoreTypeOK
  BY DEF HarvestInv, Inv, TypeOK
<1>2. CASE UNCHANGED queue
  BY <1>2
<1>3. ASSUME NEW pop, NEW cls, NEW props, OpenBatch(pop, cls, props), pop # "ingest"
      PROVE  NoQuestion
  BY <1>1, <1>3, NewBatch
<1>4. ASSUME NEW p \in Proc, Decide(p)
      PROVE  NoQuestion
  BY <1>1, <1>4, AnswersOpenNothing
<1>5. ASSUME NEW p \in Proc, QueueVerification(p)
      PROVE  NoQuestion
  BY <1>2, <1>3, <1>5 DEF QueueVerification
<1>6. ASSUME NEW p \in Proc, RecordRefresh(p)
      PROVE  NoQuestion
  BY <1>2, <1>3, <1>6 DEF RecordRefresh
<1>7. ASSUME NEW m \in Miner, HarvestQueue(m)
      PROVE  NoQuestion
  BY <1>2, <1>3, <1>7 DEF HarvestQueue
<1>8. ASSUME NEW m \in Miner, HarvestStart(m) \/ HarvestCandidate(m) \/ HarvestAbandon(m)
      PROVE  NoQuestion
  BY <1>2, <1>8 DEF HarvestStart, HarvestCandidate, HarvestAbandon, storeVars
<1>9. ASSUME NEW p \in Proc,
             \/ Abandon(p) \/ IngestStart(p) \/ IngestDocument(p) \/ BindStart(p) \/ BindPair(p)
             \/ ListQueue(p) \/ ReadCauses(p) \/ RefreshStart(p) \/ MapObserve(p) \/ MapMoves(p)
      PROVE  NoQuestion
  BY <1>2, <1>9 DEF Abandon, IngestStart, IngestDocument, BindStart, BindPair, ListQueue,
     ReadCauses, RefreshStart, MapObserve, MapMoves, storeVars
<1> HIDE DEF NoQuestion
<1>10. CASE Next /\ UNCHANGED harvestVars
  <2>1. NoQuestion \/ \E p \in Proc : QueueSuggestions(p)
    BY <1>4, <1>5, <1>6, <1>9, <1>10 DEF Next, Ingest, Refresh
  <2> QED
    BY <1>10, <2>1 DEF harvestVars, NoQuestion
<1>11. UNCHANGED allVars => NoQuestion
  BY <1>2 DEF allVars, NoQuestion
<1> QED
  BY <1>7, <1>8, <1>10, <1>11 DEF HarvestNext, NoQuestion

\* The suggestions there were are still asked once, whatever the step.
LEMMA OldSuggestionsOnce ==
    ASSUME Inv, StepKinds, Suggestions, AskedOnce
    PROVE  /\ \A b \in DOMAIN queue : \A i \in Members(b)' :
                 queue'[b].pop = "ingest" => queue'[b].prop[i] \in 1 .. HeadOf(i)'
           /\ \A b, c \in DOMAIN queue : \A i \in Members(b)' \cap Members(c)' :
                 /\ queue'[b].pop = "ingest"
                 /\ queue'[c].pop = "ingest"
                 /\ Proposed(b, i)' = Proposed(c, i)'
                 => b = c
<1>1. \A b \in DOMAIN queue : Members(b)' = Members(b) /\ queue'[b].pop = queue[b].pop
  BY EntriesKept
<1>2. \A b \in DOMAIN queue : \A i \in Members(b) :
         queue[b].pop = "ingest" =>
            /\ Proposed(b, i)' = Proposed(b, i)
            /\ queue'[b].prop[i] \in 1 .. HeadOf(i)'
  BY ProposedStays
<1> QED
  BY <1>1, <1>2 DEF AskedOnce

\* The revision a document's transaction leaves has the document's digest.
LEMMA DocumentDigest ==
    ASSUME Inv, NEW j \in IngestJob, IngestKnows(j), NEW d \in Doc, NEW i \in Item,
           WriteDocument(j, d, i),
           j.stored[d].item # 0 =>
              item[j.stored[d].item].chain[j.stored[d].head].src = j.stored[d].digest
    PROVE  item'[i].chain[RevisionOf(j, d)].src = j.body[d]
<1> DEFINE rev == DocumentRevision(j, d)
           doc == j.stored[d]
<1>1. rev \in Revision /\ doc \in StoredDocument /\ StoreTypeOK /\ rev.src = j.body[d]
  BY DocumentRevisionType DEF Inv, TypeOK, DocumentRevision
<1>2. (doc.item = 0 => doc.head = 0) /\ i # 0
  BY DEF IngestKnows, Item
<1>3. RevisionOf(j, d) = IF doc.item = 0 \/ doc.digest # j.body[d] THEN doc.head + 1 ELSE doc.head
  BY DEF RevisionOf
<1> HIDE DEF rev, doc
<1>4. CASE doc.item = 0 /\ IsNextItem(i) /\ CreateItem(i, d, rev)
  <2>1. Extends(i, rev) /\ HeadOf(i) = 0
    BY <1>1, <1>4, CreateExtends
  <2>2. item'[i].chain[HeadOf(i) + 1] = rev
    BY <1>1, <2>1, ExtendedChain
  <2> QED
    BY <1>1, <1>2, <1>3, <1>4, <2>1, <2>2
<1>5. CASE i = doc.item /\ doc.digest = j.body[d] /\ UNCHANGED item
  BY <1>2, <1>3, <1>5 DEF doc
<1>6. CASE i = doc.item /\ doc.digest # j.body[d] /\ AppendRevision(i, doc.head, rev)
  <2>1. Extends(i, rev) /\ HeadOf(i) = doc.head
    BY <1>1, <1>6, AppendExtends
  <2>2. item'[i].chain[HeadOf(i) + 1] = rev
    BY <1>1, <2>1, ExtendedChain
  <2> QED
    BY <1>1, <1>3, <1>6, <2>1, <2>2
<1> QED
  BY <1>4, <1>5, <1>6 DEF WriteDocument, doc, rev

\* A step that opens no suggestion batch leaves what every run holds new.
LEMMA NoQuestionAsked ==
    ASSUME HarvestInv, AskedInv, [HarvestNext]_allVars,
           \A b \in DOMAIN queue' \ DOMAIN queue : queue'[b].pop # "ingest"
    PROVE  AskedInv'
<1>1. Inv /\ Inv' /\ StepKinds /\ job \in [Proc -> Job]
  BY HarvestStep DEF HarvestInv, Inv, TypeOK
<1>2. Suggestions'
  BY <1>1, OldSuggestionsOnce DEF AskedInv, Suggestions
<1>3. AskedOnce'
  <2>1. \A b, c \in DOMAIN queue' : \A i \in Members(b)' \cap Members(c)' :
           /\ queue'[b].pop = "ingest"
           /\ queue'[c].pop = "ingest"
           /\ Proposed(b, i)' = Proposed(c, i)'
           => b = c
    BY <1>1, OldSuggestionsOnce DEF AskedInv
  <2> QED
    BY <2>1 DEF AskedOnce
<1>4. ASSUME NEW j \in IngestJob, IngestKnows(j), SuggestsNew(j)
      PROVE  SuggestsNew(j)'
  BY <1>1, <1>4, SuggestsStay DEF AskedInv
<1>5. ASSUME NEW p \in Proc, Ingesting(p)
      PROVE  job[p] \in IngestJob /\ IngestKnows(job[p]) /\ SuggestsNew(job[p])
  BY <1>1, <1>5, JobKinds DEF Ingesting, Inv, ReferencesHold, JobKnows, AskedInv
<1>6. ASSUME NEW p \in Proc, Ingesting(p)'
      PROVE  SuggestsNew(job[p])'
  <2>1. CASE job'[p] = job[p]
    <3> SUFFICES ASSUME NEW j, j = job[p]
                 PROVE  SuggestsNew(j)'
      BY <2>1 DEF SuggestsNew
    <3>1. Ingesting(p)
      BY <1>6, <2>1 DEF Ingesting
    <3> QED
      BY <1>4, <1>5, <3>1
  <2>2. CASE IngestStart(p)
    <3>1. /\ job'[p].shownTexts = PresentedTexts
          /\ job'[p].stored = [d \in Doc |-> StoredAs(d)]
          /\ job'[p].suggest = {}
          /\ UNCHANGED <<item, queue>>
      BY <1>1, <2>2 DEF IngestStart, Issue, Goes, storeVars
    <3>2. ASSUME NEW b \in DOMAIN queue, NEW i \in Members(b), queue[b].pop = "ingest"
          PROVE  <<i, Proposed(b, i)>> \in PresentedTexts
      <4> DEFINE e == <<b, i>>
      <4>1. e \in (DOMAIN queue) \X Item /\ e[1] = b /\ e[2] = i /\ queue[b].disp[i] # "absent"
        BY DEF Members
      <4>2. queue[b].prop[i] # 0
        BY <3>2 DEF AskedInv, Suggestions
      <4> HIDE DEF e
      <4>3. e \in {f \in Entries : queue[f[1]].pop = "ingest" /\ queue[f[1]].prop[f[2]] # 0}
        BY <3>2, <4>1, <4>2 DEF Entries
      <4> QED
        BY <4>1, <4>3 DEF PresentedTexts, Proposed
    <3>3. \A d \in Doc : StoredAs(d).item # 0 =>
             item[StoredAs(d).item].chain[StoredAs(d).head].src = StoredAs(d).digest
      BY <1>1, StoredAsMeans
    <3> QED
      BY <3>1, <3>2, <3>3 DEF SuggestsNew, Members, Proposed
  <2>3. CASE IngestDocument(p)
    <3> SUFFICES ASSUME NEW j, j = job[p], NEW d, d = Head(j.todo)
                 PROVE  SuggestsNew(job[p])'
      OBVIOUS
    <3>1. Ingesting(p)
      BY <2>3 DEF IngestDocument, At, Ingesting
    <3>2. j \in IngestJob /\ IngestKnows(j) /\ SuggestsNew(j) /\ SuggestsNew(j)'
      BY <1>4, <1>5, <3>1
    <3>3. d \in Doc
      BY <1>1, <2>3, DocumentMade
    <3>4. job'[p].stored = j.stored /\ job'[p].shownTexts = j.shownTexts
      BY <1>1, <2>3, DocumentTaken
    <3>5. PICK i \in Item :
             /\ WriteDocument(j, d, i)
             /\ \/ job'[p].suggest = j.suggest
                \/ /\ <<i, j.body[d]>> \notin j.shownTexts
                   /\ job'[p].suggest = j.suggest \cup {<<i, RevisionOf(j, d)>>}
      BY <1>1, <2>3, DocumentTaken
    <3>6. item'[i].chain[RevisionOf(j, d)].src = j.body[d]
      <4>1. j.stored[d].item # 0 =>
               item[j.stored[d].item].chain[j.stored[d].head].src = j.stored[d].digest
        BY <3>2, <3>3 DEF SuggestsNew
      <4>2. j \in IngestJob /\ IngestKnows(j) /\ WriteDocument(j, d, i) /\ Inv
        BY <1>1, <3>2, <3>5
      <4> QED
        BY <3>3, <4>1, <4>2, DocumentDigest
    <3>7. \A e \in job'[p].suggest : <<e[1], item'[e[1]].chain[e[2]].src>> \notin j.shownTexts
      <4>1. \A e \in j.suggest : <<e[1], item'[e[1]].chain[e[2]].src>> \notin j.shownTexts
        BY <3>2 DEF SuggestsNew
      <4>2. CASE job'[p].suggest = j.suggest
        BY <4>1, <4>2
      <4>3. CASE /\ <<i, j.body[d]>> \notin j.shownTexts
                 /\ job'[p].suggest = j.suggest \cup {<<i, RevisionOf(j, d)>>}
        <5> DEFINE new == <<i, RevisionOf(j, d)>>
        <5>1. new[1] = i /\ new[2] = RevisionOf(j, d)
          OBVIOUS
        <5> HIDE DEF new
        <5>2. <<new[1], item'[new[1]].chain[new[2]].src>> \notin j.shownTexts
          BY <3>6, <4>3, <5>1
        <5>3. job'[p].suggest = j.suggest \cup {new}
          BY <4>3 DEF new
        <5> QED
          BY <4>1, <5>2, <5>3
      <4> QED
        BY <3>5, <4>2, <4>3
    <3> QED
      BY <3>2, <3>4, <3>7 DEF SuggestsNew
  <2>4. CASE QueueVerification(p)
    <3> SUFFICES ASSUME NEW j, j = job[p]
                 PROVE  SuggestsNew(job[p])'
      OBVIOUS
    <3>1. Ingesting(p)
      BY <2>4 DEF QueueVerification, At, Ingesting
    <3>2. j \in IngestJob /\ SuggestsNew(j)'
      BY <1>4, <1>5, <3>1
    <3>3. /\ job'[p].stored = j.stored /\ job'[p].shownTexts = j.shownTexts
          /\ job'[p].suggest = j.suggest
      BY <1>1, <2>4, <3>2 DEF QueueVerification, Becomes, Goes, IngestJob
    <3> QED
      BY <3>2, <3>3 DEF SuggestsNew
  <2>5. CASE [Next]_vars
    BY <1>1, <1>6, <2>1, <2>2, <2>3, <2>4, <2>5, IngestPhases
  <2>6. ASSUME NEW m \in Miner,
               HarvestStart(m) \/ HarvestCandidate(m) \/ HarvestQueue(m) \/ HarvestAbandon(m)
        PROVE  UNCHANGED job
    BY <2>6 DEF HarvestStart, HarvestCandidate, HarvestQueue, HarvestAbandon
  <2> QED
    BY <2>1, <2>5, <2>6 DEF HarvestNext, allVars
<1> QED
  BY <1>2, <1>3, <1>6 DEF AskedInv

\* The suggestion batch asks of each item one thing, and nothing asked before.
LEMMA QuestionsAsked ==
    ASSUME HarvestInv, AskedInv, OneIngestAtATime, [HarvestNext]_allVars,
           NEW p \in Proc, QueueSuggestions(p)
    PROVE  AskedInv'
<1> SUFFICES ASSUME NEW j, j = job[p]
             PROVE  AskedInv'
  OBVIOUS
<1>1. Inv /\ StepKinds /\ job \in [Proc -> Job] /\ StoreTypeOK /\ Ingesting(p)
  BY HarvestStep DEF HarvestInv, Inv, TypeOK, QueueSuggestions, At, Ingesting
<1>2. j \in IngestJob /\ IngestKnows(j) /\ SuggestsNew(j)
  BY <1>1, JobKinds DEF Ingesting, Inv, ReferencesHold, JobKnows, AskedInv
<1>3. UNCHANGED item /\ job' = [job EXCEPT ![p] = Idle]
  BY DEF QueueSuggestions, Becomes, Goes
<1>4. ASSUME NEW b \in DOMAIN queue' \ DOMAIN queue, NEW i \in Members(b)'
      PROVE  /\ queue'[b].prop[i] \in 1 .. HeadOf(i)'
             /\ <<i, Proposed(b, i)'>> \notin j.shownTexts
  <2> DEFINE props == Proposals(j.suggest)
  <2>1. OpenBatch("ingest", NoClass, props)
    BY DEF QueueSuggestions
  <2> HIDE DEF props
  <2>2. i \in DOMAIN props /\ queue'[b].prop[i] = props[i]
    BY <1>1, <1>4, <2>1, NewBatch
  <2>3. j.suggest \subseteq Item \X Nat
    BY <1>2 DEF IngestJob
  <2>4. \E e \in j.suggest : e[1] = i
    BY <2>2 DEF props, Proposals
  <2>5. <<i, props[i]>> \in j.suggest
    BY <2>2, <2>3, <2>4, ProposalsPick DEF props
  <2>6. props[i] \in 1 .. HeadOf(i) /\ <<i, item[i].chain[props[i]].src>> \notin j.shownTexts
    <3>1. \A e \in j.suggest :
             /\ e[2] \in 1 .. HeadOf(e[1])
             /\ <<e[1], item[e[1]].chain[e[2]].src>> \notin j.shownTexts
      BY <1>2 DEF IngestKnows, SuggestsNew
    <3> QED
      BY <2>5, <3>1
  <2> QED
    BY <1>3, <2>2, <2>6 DEF HeadOf, Proposed
<1>5. ASSUME NEW b \in DOMAIN queue, NEW i \in Members(b)', queue'[b].pop = "ingest"
      PROVE  <<i, Proposed(b, i)'>> \in j.shownTexts
  <2>1. i \in Members(b) /\ queue[b].pop = "ingest"
    BY <1>1, <1>5, EntriesKept
  <2> QED
    BY <1>1, <1>2, <2>1, ProposedStays DEF AskedInv, SuggestsNew
<1>6. Suggestions'
  BY <1>1, <1>4, OldSuggestionsOnce DEF AskedInv, Suggestions
<1>7. AskedOnce'
  <2> SUFFICES ASSUME NEW b \in DOMAIN queue', NEW c \in DOMAIN queue',
                      NEW i \in Members(b)', i \in Members(c)',
                      queue'[b].pop = "ingest", queue'[c].pop = "ingest",
                      Proposed(b, i)' = Proposed(c, i)'
               PROVE  b = c
    BY DEF AskedOnce
  <2>1. CASE b \in DOMAIN queue /\ c \in DOMAIN queue
    BY <1>1, <2>1, OldSuggestionsOnce DEF AskedInv
  <2>2. CASE b \in DOMAIN queue /\ c \notin DOMAIN queue
    BY <1>4, <1>5, <2>2
  <2>3. CASE b \notin DOMAIN queue /\ c \in DOMAIN queue
    BY <1>4, <1>5, <2>3
  <2>4. CASE b \notin DOMAIN queue /\ c \notin DOMAIN queue
    <3>1. DOMAIN queue' \subseteq 1 .. Len(queue) + 1 /\ DOMAIN queue = 1 .. Len(queue) /\ Len(queue) \in Nat
      <4>1. queue' = queue \/ \E row : queue' = Append(queue, row)
        BY DEF QueueSuggestions, OpenBatch
      <4> QED
        BY <1>1, <4>1 DEF StoreTypeOK
    <3> QED
      BY <2>4, <3>1
  <2> QED
    BY <2>1, <2>2, <2>3, <2>4
<1>8. \A q \in Proc : ~Ingesting(q)'
  <2> SUFFICES ASSUME NEW q \in Proc, Ingesting(q)'
               PROVE  FALSE
    OBVIOUS
  <2>1. CASE q = p
    BY <1>1, <1>3, <2>1 DEF Ingesting, Idle
  <2>2. CASE q # p
    <3>1. Ingesting(q)
      BY <1>1, <1>3, <2>2 DEF Ingesting
    <3> QED
      BY <1>1, <2>2, <3>1 DEF OneIngestAtATime
  <2> QED
    BY <2>1, <2>2
<1> QED
  BY <1>6, <1>7, <1>8 DEF AskedInv

\* While one ingest runs at a time, the suggestions a text carries are queued
\* once, over interrupted runs, re-ingests and the revisions that repeat it.
THEOREM SuggestionsOnce == HarvestSpec /\ []OneIngestAtATime => []SuggestionsAskedOnce
<1>1. HarvestInit => AskedInv
  BY DEF HarvestInit, Init, StoreInit, Idle, Ingesting, AskedInv, Suggestions, AskedOnce
<1>2. HarvestInv /\ [HarvestNext]_allVars => HarvestInv'
  BY HarvestStep
<1>3. HarvestInv /\ AskedInv /\ OneIngestAtATime /\ [HarvestNext]_allVars => AskedInv'
  BY OnlySuggestionsAsk, NoQuestionAsked, QuestionsAsked
<1>4. AskedInv => SuggestionsAskedOnce
  <2> SUFFICES ASSUME AskedInv, NEW e \in Entries, NEW f \in Entries,
                      e[2] = f[2], queue[e[1]].pop = "ingest", queue[f[1]].pop = "ingest",
                      Proposed(e[1], e[2]) = Proposed(f[1], e[2])
               PROVE  e = f
    BY DEF SuggestionsAskedOnce, Proposed
  <2>1. /\ e = <<e[1], e[2]>> /\ e[1] \in DOMAIN queue /\ e[2] \in Members(e[1])
        /\ f = <<f[1], f[2]>> /\ f[1] \in DOMAIN queue /\ f[2] \in Members(f[1])
    BY DEF Entries, Members
  <2>2. e[1] = f[1]
    BY <2>1 DEF AskedInv, AskedOnce
  <2> QED
    BY <2>1, <2>2
<1> QED
  BY <1>1, <1>2, <1>3, <1>4, HarvestInitInv, PTL DEF HarvestSpec

-----------------------------------------------------------------------------
(* What a confirmation writes.  A verification proposes a revision there is, *)
(* which no step changes; a listing shows its text; confirming appends the   *)
(* text that was listed.                                                    *)

\* Every verification asked for proposes a revision of its item.
UnverifiedProposes ==
    \A b \in DOMAIN queue : \A i \in Members(b) :
        queue[b].pop = "ingest-unverified" => queue[b].prop[i] \in 1 .. HeadOf(i)

Reviewing(j) == j.at \in {"causes", "decide", "stamp"}

\* A review was shown the text of the revision each of its entries proposes.
ShowsProposed(j) ==
    \A i \in Item :
        LET prop == queue[j.batch].prop[i]
        IN  j.seen[i] # None /\ prop # 0 => j.seen[i].text = item[i].chain[prop].text

ListingsShowProposals == \A p \in Proc : Reviewing(job[p]) => ShowsProposed(job[p])

\* Only an ingest's first batch asks for a verification.
LEMMA OnlyVerificationsPropose ==
    ASSUME Inv, [Next]_vars
    PROVE  \/ \A b \in DOMAIN queue' \ DOMAIN queue : queue'[b].pop # "ingest-unverified"
           \/ \E p \in Proc : QueueVerification(p)
<1> DEFINE NoneAsked == \A b \in DOMAIN queue' \ DOMAIN queue : queue'[b].pop # "ingest-unverified"
<1>1. CASE UNCHANGED queue
  BY <1>1
<1>2. ASSUME NEW pop, NEW cls, NEW props, OpenBatch(pop, cls, props), pop # "ingest-unverified"
      PROVE  NoneAsked
  BY <1>2, NewBatch DEF Inv, TypeOK
<1>3. ASSUME NEW p \in Proc, Decide(p)
      PROVE  NoneAsked
  BY <1>3, AnswersOpenNothing
<1>4. ASSUME NEW p \in Proc, QueueSuggestions(p) \/ RecordRefresh(p)
      PROVE  NoneAsked
  BY <1>1, <1>2, <1>4 DEF QueueSuggestions, RecordRefresh
<1>5. ASSUME NEW p \in Proc,
             \/ Abandon(p) \/ IngestStart(p) \/ IngestDocument(p) \/ BindStart(p) \/ BindPair(p)
             \/ ListQueue(p) \/ ReadCauses(p) \/ RefreshStart(p) \/ MapObserve(p) \/ MapMoves(p)
      PROVE  NoneAsked
  BY <1>1, <1>5 DEF Abandon, IngestStart, IngestDocument, BindStart, BindPair, ListQueue,
     ReadCauses, RefreshStart, MapObserve, MapMoves, storeVars
<1>6. UNCHANGED vars => NoneAsked
  BY <1>1 DEF vars
<1> HIDE DEF NoneAsked
<1> QED
  BY <1>3, <1>4, <1>5, <1>6 DEF Next, Ingest, Refresh, NoneAsked

\* What is asked to be verified is, and stays, a revision there is.
LEMMA UnverifiedProposesStep ==
    ASSUME Inv, UnverifiedProposes, [Next]_vars
    PROVE  UnverifiedProposes'
<1>1. StepKinds
  BY EveryStepKind
<1>2. \A b \in DOMAIN queue : \A i \in Members(b)' :
         queue'[b].pop = "ingest-unverified" => queue'[b].prop[i] \in 1 .. HeadOf(i)'
  <2> SUFFICES ASSUME NEW b \in DOMAIN queue, NEW i \in Members(b)',
                      queue'[b].pop = "ingest-unverified"
               PROVE  queue'[b].prop[i] \in 1 .. HeadOf(i)'
    OBVIOUS
  <2>1. i \in Members(b) /\ i \in Item /\ queue'[b].prop = queue[b].prop
    BY <1>1, EntriesKept DEF Members
  <2>2. queue[b].prop[i] \in 1 .. HeadOf(i)
    BY <1>1, <2>1, EntriesKept DEF UnverifiedProposes
  <2>3. HeadOf(i)' >= HeadOf(i) /\ HeadOf(i) \in Nat /\ HeadOf(i)' \in Nat
    <3>1. item \in [Item -> ItemRow] /\ item' \in [Item -> ItemRow]
      BY <1>1, KindsKeepItems DEF Inv, TypeOK, StoreTypeOK
    <3> QED
      BY <1>1, <2>1, <3>1, CreatedHead, StepGrows DEF Grows
  <2> QED
    BY <2>1, <2>2, <2>3
<1>3. \A b \in DOMAIN queue' \ DOMAIN queue : \A i \in Members(b)' :
         queue'[b].pop = "ingest-unverified" => queue'[b].prop[i] \in 1 .. HeadOf(i)'
  <2>1. ASSUME NEW p \in Proc, QueueVerification(p)
        PROVE  \A b \in DOMAIN queue' \ DOMAIN queue : \A i \in Members(b)' :
                  queue'[b].prop[i] \in 1 .. HeadOf(i)'
    <3>1. job[p] \in IngestJob /\ IngestKnows(job[p]) /\ UNCHANGED item
      BY <2>1, JobKinds DEF QueueVerification, At, Inv, ReferencesHold, JobKnows
    <3>2. \/ UNCHANGED queue
          \/ OpenBatch("ingest-unverified", NoClass, Proposals(job[p].verify))
      BY <2>1 DEF QueueVerification
    <3>3. \A i \in DOMAIN Proposals(job[p].verify) : Proposals(job[p].verify)[i] \in 1 .. HeadOf(i)
      BY <3>1, ProposalsKnown
    <3>4. \A i : HeadOf(i)' = HeadOf(i)
      BY <3>1 DEF HeadOf
    <3> QED
      BY <3>2, <3>3, <3>4, NewBatch DEF Inv, TypeOK
  <2> QED
    BY <2>1, OnlyVerificationsPropose
<1> QED
  BY <1>2, <1>3 DEF UnverifiedProposes

\* j is the same review a step later, with some entries done perhaps.
GoesOn(j, was) ==
    /\ Reviewing(was)
    /\ j.batch = was.batch
    /\ \A i \in Item : j.seen[i] # None => j.seen[i] = was.seen[i]

\* A process that reviews was reviewing, or has just listed the queue.
LEMMA ReviewPhases ==
    ASSUME Inv, [Next]_vars, NEW p \in Proc, Reviewing(job[p])'
    PROVE  GoesOn(job'[p], job[p]) \/ ListQueue(p)
<1>1. job \in [Proc -> Job]
  BY DEF Inv, TypeOK
<1>2. job'[p] = job[p] => GoesOn(job'[p], job[p])
  BY DEF GoesOn, Reviewing
<1>3. ASSUME NEW q \in Proc, NEW j, Goes(q, j), ~Reviewing(j) \/ GoesOn(j, job[q])
      PROVE  GoesOn(job'[p], job[p])
  <2>1. CASE q = p
    <3>1. job'[p] = j
      BY <1>1, <1>3, <2>1 DEF Goes
    <3> QED
      BY <1>3, <2>1, <3>1 DEF Reviewing
  <2>2. CASE q # p
    BY <1>1, <1>2, <1>3, <2>2 DEF Goes
  <2> QED
    BY <2>1, <2>2
<1>4. ASSUME NEW q \in Proc, ListQueue(q)
      PROVE  GoesOn(job'[p], job[p]) \/ ListQueue(p)
  <2>1. CASE q # p
    BY <1>1, <1>2, <1>4, <2>1 DEF ListQueue, Issue, Goes
  <2> QED
    BY <1>4, <2>1
<1>5. ASSUME NEW q \in Proc,
             \/ Abandon(q) \/ BindStart(q) \/ BindPair(q) \/ Refresh(q) \/ Ingest(q)
      PROVE  GoesOn(job'[p], job[p])
  <2>1. CASE Abandon(q) \/ QueueSuggestions(q) \/ BindPair(q) \/ RecordRefresh(q)
    <3>1. ~Reviewing(Idle)
      BY DEF Idle, Reviewing
    <3>2. \E j : Goes(q, j) /\ ~Reviewing(j)
      BY <2>1, <3>1 DEF Abandon, QueueSuggestions, BindPair, RecordRefresh, Becomes
    <3> QED
      BY <1>3, <3>2
  <2>2. CASE BindStart(q) \/ RefreshStart(q) \/ IngestStart(q)
    <3>1. BindStart(q) => \E j : Goes(q, j) /\ j.at = "bind"
      BY DEF BindStart, Issue
    <3>2. RefreshStart(q) => \E j : Goes(q, j) /\ j.at = "observe"
      BY DEF RefreshStart, Concluded, Issue
    <3>3. IngestStart(q) => \E j : Goes(q, j) /\ j.at = "document"
      BY DEF IngestStart, Issue
    <3> QED
      BY <1>3, <2>2, <3>1, <3>2, <3>3 DEF Reviewing
  <2>3. CASE MapObserve(q) \/ MapMoves(q)
    <3>1. job[q] \in RefreshJob
      BY <2>3, JobKinds DEF MapObserve, MapMoves, At, Inv
    <3>2. PICK phase \in {"moves", "record"} : Goes(q, [job[q] EXCEPT !.at = phase])
      BY <2>3 DEF MapObserve, MapMoves, Becomes
    <3>3. [job[q] EXCEPT !.at = phase].at = phase
      BY <3>1 DEF RefreshJob
    <3> QED
      BY <1>3, <3>2, <3>3 DEF Reviewing
  <2>4. CASE IngestDocument(q)
    <3>1. PICK j : Goes(q, j)
      BY <2>4 DEF IngestDocument, Becomes
    <3>2. job'[q].at = "document"
      BY <2>4, DocumentTaken
    <3>3. j.at = "document"
      BY <1>1, <3>1, <3>2 DEF Goes
    <3> QED
      BY <1>3, <3>1, <3>3 DEF Reviewing
  <2>5. CASE QueueVerification(q)
    <3>1. job[q] \in IngestJob
      BY <2>5, JobKinds DEF QueueVerification, At, Inv
    <3>2. Goes(q, [job[q] EXCEPT !.at = "queue"]) /\ [job[q] EXCEPT !.at = "queue"].at = "queue"
      BY <2>5, <3>1 DEF QueueVerification, Becomes, IngestJob
    <3> QED
      BY <1>3, <3>2 DEF Reviewing
  <2> QED
    BY <1>5, <2>1, <2>2, <2>3, <2>4, <2>5 DEF Ingest, Refresh
<1>6. ASSUME NEW q \in Proc, ReadCauses(q)
      PROVE  GoesOn(job'[p], job[p])
  <2>1. job[q] \in ReviewJob
    BY <1>6, JobKinds DEF ReadCauses, At, Inv
  <2>2. PICK S, t : Goes(q, [job[q] EXCEPT !.at = "decide", !.affected = S, !.target = t])
    BY <1>6 DEF ReadCauses, Becomes
  <2> DEFINE j == [job[q] EXCEPT !.at = "decide", !.affected = S, !.target = t]
  <2>3. j.batch = job[q].batch /\ j.seen = job[q].seen
    BY <2>1, Zenon DEF ReviewJob
  <2>4. Goes(q, j) /\ Reviewing(job[q])
    BY <1>6, <2>2 DEF ReadCauses, At, Reviewing
  <2> HIDE DEF j
  <2>5. GoesOn(j, job[q])
    BY <2>3, <2>4 DEF GoesOn
  <2> QED
    BY <1>3, <2>4, <2>5
<1>7. ASSUME NEW q \in Proc, Decide(q)
      PROVE  GoesOn(job'[p], job[p])
  <2>1. PICK i \in Item : /\ Reviewing(job[q])
                          /\ Done(q, i) \/ Becomes(q, [job[q] EXCEPT !.at = "stamp"])
    BY <1>7 DEF Decide, ConfirmCandidate, ConfirmSuggestions, EditEntry, RejectRead, RejectStamp,
       RetireEntry, RebindEntry, ConfirmCurrentEntry, Deciding, At, Reviewing
  <2>2. job[q] \in ReviewJob
    BY <2>1, JobKinds DEF Inv, Reviewing
  <2>3. ~Reviewing(Idle)
    BY DEF Idle, Reviewing
  <2>4. GoesOn([job[q] EXCEPT !.at = "stamp"], job[q])
    BY <2>1, <2>2 DEF GoesOn, ReviewJob
  <2>5. GoesOn([job[q] EXCEPT !.seen[i] = None], job[q])
    <3> DEFINE j == [job[q] EXCEPT !.seen[i] = None]
    <3>1. j.batch = job[q].batch /\ \A k \in Item : j.seen[k] # None => j.seen[k] = job[q].seen[k]
      BY <2>2 DEF ReviewJob
    <3> HIDE DEF j
    <3>2. GoesOn(j, job[q])
      BY <2>1, <3>1 DEF GoesOn
    <3> QED
      BY <3>2 DEF j
  <2> QED
    BY <1>3, <2>1, <2>3, <2>4, <2>5 DEF Done, Becomes
<1>8. CASE UNCHANGED vars
  BY <1>2, <1>8 DEF vars
<1> QED
  BY <1>4, <1>5, <1>6, <1>7, <1>8 DEF Next

\* What a review was shown is still what its entries propose.
LEMMA ShownStays ==
    ASSUME Inv, StepKinds, NEW j, ReviewKnows(j), ShowsProposed(j)
    PROVE  ShowsProposed(j)'
<1> SUFFICES ASSUME NEW i \in Item, j.seen[i] # None, queue'[j.batch].prop[i] # 0
             PROVE  j.seen[i].text = item'[i].chain[queue'[j.batch].prop[i]].text
  BY DEF ShowsProposed
<1>1. j.batch \in DOMAIN queue /\ i \in Members(j.batch)
  BY DEF ReviewKnows
<1> DEFINE prop == queue[j.batch].prop[i]
<1>2. queue'[j.batch].prop[i] = prop
  BY <1>1, EntriesKept
<1>3. prop \in Nat /\ prop # 0 /\ prop <= HeadOf(i) /\ HeadOf(i) \in Nat
  <2>1. prop \in Nat
    BY <1>1, BatchColumns DEF Inv, TypeOK, BatchRow
  <2>2. prop <= HeadOf(i)
    BY <1>1 DEF Inv, ReferencesHold, EntriesToRevisions
  <2>3. HeadOf(i) \in Nat
    BY ItemColumns DEF Inv, TypeOK
  <2> QED
    BY <1>2, <2>1, <2>2, <2>3
<1>4. j.seen[i].text = item[i].chain[prop].text
  BY <1>3 DEF ShowsProposed
<1>5. prop \in 1 .. HeadOf(i)
  BY <1>3
<1>6. item'[i].chain[prop] = item[i].chain[prop]
  BY <1>5, KindsKeepHistory DEF HistoryKept
<1> QED
  BY <1>2, <1>4, <1>6

\* A listing shows what its entries propose, whatever others do meanwhile.
LEMMA ListingsShowProposalsStep ==
    ASSUME Inv, ListingsShowProposals, [Next]_vars
    PROVE  ListingsShowProposals'
<1> SUFFICES ASSUME NEW p \in Proc, NEW was, was = job[p], NEW next, next = job'[p],
                    Reviewing(next)
             PROVE  ShowsProposed(next)'
  BY DEF ListingsShowProposals, Reviewing, ShowsProposed
<1>1. StepKinds
  BY EveryStepKind
<1>2. CASE GoesOn(next, was)
  <2>1. ReviewKnows(was) /\ ShowsProposed(was)
    BY <1>2 DEF GoesOn, Reviewing, Inv, ReferencesHold, JobKnows, ListingsShowProposals
  <2>2. ShowsProposed(was)'
    BY <1>1, <2>1, ShownStays
  <2> QED
    BY <1>2, <2>2 DEF GoesOn, ShowsProposed
<1>3. CASE ListQueue(p)
  <2>1. PICK b \in DOMAIN queue, S \in SUBSET Item :
           \E verb, at :
              Goes(p, [at |-> at, verb |-> verb, batch |-> b,
                       seen |-> [i \in Item |-> IF i \in S THEN ListingOf(b, i) ELSE None],
                       affected |-> {}, target |-> None])
    BY <1>3 DEF ListQueue, Issue
  <2>2. /\ next.batch = b
        /\ next.seen = [i \in Item |-> IF i \in S THEN ListingOf(b, i) ELSE None]
    BY <2>1 DEF Inv, TypeOK, Goes
  <2>3. \A i \in Item : next.seen[i] # None => next.seen[i] = ListingOf(b, i)
    BY <2>2
  <2>4. \A i \in Item : queue[b].prop[i] # 0 =>
           ListingOf(b, i).text = item[i].chain[queue[b].prop[i]].text
    BY DEF ListingOf
  <2>5. UNCHANGED <<item, queue>>
    BY <1>3 DEF ListQueue, storeVars
  <2> QED
    BY <2>2, <2>3, <2>4, <2>5 DEF ShowsProposed
<1> QED
  BY <1>2, <1>3, ReviewPhases DEF Reviewing

\* A verification that stands confirmed was, or its text is being appended.
LEMMA ConfirmedNow ==
    ASSUME Inv, [Next]_vars, NEW b \in DOMAIN queue', NEW i \in Item,
           queue'[b].pop = "ingest-unverified", queue'[b].disp[i] = "confirmed"
    PROVE  /\ b \in DOMAIN queue
           /\ \/ queue[b].disp[i] = "confirmed"
              \/ \E p \in Proc : /\ Reviewing(job[p]) /\ job[p].batch = b
                                 /\ i \in Pending(p)
                                 /\ AppendHuman(p, i, job[p].seen[i].text)
<1> DEFINE Appended == \E p \in Proc : /\ Reviewing(job[p]) /\ job[p].batch = b
                                       /\ i \in Pending(p)
                                       /\ AppendHuman(p, i, job[p].seen[i].text)
           Stood == b \in DOMAIN queue /\ (queue[b].disp[i] = "confirmed" \/ Appended)
<1>1. StepKinds
  BY EveryStepKind
<1>2. CASE UNCHANGED queue
  BY <1>2
<1>3. CASE Opens
  <2>1. DOMAIN queue = 1 .. Len(queue) /\ Len(queue) \in Nat
    BY DEF Inv, TypeOK, StoreTypeOK
  <2>2. b # Len(queue) + 1
    BY <1>3 DEF Opens
  <2>3. b \in DOMAIN queue /\ queue'[b] = queue[b]
    BY <1>3, <2>1, <2>2 DEF Opens
  <2> QED
    BY <2>3
<1>4. ASSUME NEW p \in Proc, Decide(p)
      PROVE  Stood
  <2>1. ASSUME NEW k \in Item, k \in Pending(p), Reviewing(job[p]),
               NEW d \in Disposition, Stamp(job[p].batch, k, d),
               d = "confirmed" => \/ queue[job[p].batch].pop # "ingest-unverified"
                                  \/ AppendHuman(p, k, job[p].seen[k].text)
        PROVE  Stood
    <3>1. job[p].batch \in DOMAIN queue /\ k \in Members(job[p].batch)
      BY <2>1, DecidingKnows DEF Reviewing
    <3>2. /\ DOMAIN queue' = DOMAIN queue
          /\ queue'[b].disp[i] = IF b = job[p].batch /\ i = k THEN d ELSE queue[b].disp[i]
      BY <2>1, <3>1, StampedDispositions
    <3>3. queue'[b].pop = queue[b].pop
      BY <1>1, <3>2, EntriesKept
    <3> QED
      BY <2>1, <3>2, <3>3
  <2>2. ASSUME NEW k \in Item, RejectRead(p, k)
        PROVE  Stood
    BY <1>2, <2>2 DEF RejectRead, storeVars
  <2>3. ASSUME NEW k \in Item, ConfirmCandidate(p, k) \/ ConfirmCurrentEntry(p, k)
        PROVE  Stood
    <3>1. /\ k \in Pending(p) /\ Reviewing(job[p]) /\ Stamp(job[p].batch, k, "confirmed")
          /\ AppendHuman(p, k, job[p].seen[k].text) /\ "confirmed" \in Disposition
      BY <2>3 DEF ConfirmCandidate, ConfirmCurrentEntry, Deciding, At, Resolve, Reviewing, Disposition
    <3> QED
      BY <2>1, <3>1
  <2>4. ASSUME NEW k \in Item, ConfirmSuggestions(p, k)
        PROVE  Stood
    <3>1. /\ k \in Pending(p) /\ Reviewing(job[p]) /\ Stamp(job[p].batch, k, "confirmed")
          /\ queue[job[p].batch].pop # "ingest-unverified" /\ "confirmed" \in Disposition
      BY <2>4 DEF ConfirmSuggestions, Deciding, At, Resolve, Reviewing, Disposition
    <3> QED
      BY <2>1, <3>1
  <2>5. ASSUME NEW k \in Item,
               EditEntry(p, k) \/ RejectStamp(p, k) \/ RetireEntry(p, k) \/ RebindEntry(p, k)
        PROVE  Stood
    <3>1. PICK d \in {"corrected", "rejected"} :
             /\ k \in Pending(p) /\ Reviewing(job[p]) /\ Stamp(job[p].batch, k, d)
      BY <2>5 DEF EditEntry, RejectStamp, RetireEntry, RebindEntry, Deciding, At, Resolve, Reviewing
    <3>2. d \in Disposition /\ d # "confirmed"
      BY DEF Disposition
    <3> QED
      BY <2>1, <3>1, <3>2
  <2> QED
    BY <1>4, <2>2, <2>3, <2>4, <2>5 DEF Decide
<1>5. ASSUME NEW p \in Proc, QueueVerification(p) \/ QueueSuggestions(p) \/ RecordRefresh(p)
      PROVE  Stood
  BY <1>2, <1>3, <1>5, QueueingKind DEF Quiet
<1>6. ASSUME NEW p \in Proc,
             \/ Abandon(p) \/ IngestStart(p) \/ IngestDocument(p) \/ BindStart(p) \/ BindPair(p)
             \/ ListQueue(p) \/ ReadCauses(p) \/ RefreshStart(p) \/ MapObserve(p) \/ MapMoves(p)
      PROVE  Stood
  BY <1>2, <1>6 DEF Abandon, IngestStart, IngestDocument, BindStart, BindPair, ListQueue,
     ReadCauses, RefreshStart, MapObserve, MapMoves, storeVars
<1>7. UNCHANGED vars => Stood
  BY <1>2 DEF vars
<1> HIDE DEF Stood
<1>8. Stood
  BY <1>4, <1>5, <1>6, <1>7 DEF Next, Ingest, Refresh
<1> QED
  BY <1>8 DEF Stood

\* Revision n of the chain is what batch b confirmed, over the head it had read.
Confirms(chain, n, b, text) ==
    /\ n \in DOMAIN chain
    /\ chain[n].by = b
    /\ chain[n].verified
    /\ chain[n].read = n - 1
    /\ chain[n].text = text

LEMMA ConfirmedStep ==
    ASSUME Inv, UnverifiedProposes, ListingsShowProposals, ConfirmedIsWhatWasProposed,
           [Next]_vars
    PROVE  ConfirmedIsWhatWasProposed'
<1> SUFFICES ASSUME NEW e \in Entries', queue'[e[1]].pop = "ingest-unverified",
                    queue'[e[1]].disp[e[2]] = "confirmed"
             PROVE  \E n \in DOMAIN item'[e[2]].chain :
                       Confirms(item'[e[2]].chain, n, e[1],
                                item'[e[2]].chain[queue'[e[1]].prop[e[2]]].text)
  BY DEF ConfirmedIsWhatWasProposed, Confirms
<1>0. e[1] \in DOMAIN queue' /\ e[2] \in Item
  BY DEF Entries
<1> SUFFICES ASSUME NEW b \in DOMAIN queue', NEW i \in Item,
                    queue'[b].pop = "ingest-unverified", queue'[b].disp[i] = "confirmed"
             PROVE  \E n : Confirms(item'[i].chain, n, b, item'[i].chain[queue'[b].prop[i]].text)
  BY <1>0 DEF Confirms
<1> DEFINE prop == queue[b].prop[i]
<1>1. StepKinds
  BY EveryStepKind
<1>2. b \in DOMAIN queue
  BY ConfirmedNow
<1>3. i \in Members(b) /\ queue[b].pop = "ingest-unverified" /\ queue'[b].prop[i] = prop
  <2>1. i \in Members(b)'
    BY DEF Members
  <2> QED
    BY <1>1, <1>2, <2>1, EntriesKept
<1>4. prop \in 1 .. HeadOf(i)
  BY <1>2, <1>3 DEF UnverifiedProposes
<1>5. \A n \in 1 .. HeadOf(i) : item'[i].chain[n] = item[i].chain[n]
  BY <1>1, KindsKeepHistory DEF HistoryKept
<1>6. item'[i].chain[prop].text = item[i].chain[prop].text
  BY <1>4, <1>5
<1> HIDE DEF prop
<1>7. CASE queue[b].disp[i] = "confirmed"
  <2>1. <<b, i>> \in Entries
    BY <1>2, <1>7 DEF Entries
  <2>2. PICK n : Confirms(item[i].chain, n, b, item[i].chain[prop].text)
    BY <1>3, <1>7, <2>1 DEF ConfirmedIsWhatWasProposed, Confirms, prop
  <2>3. n \in 1 .. HeadOf(i)
    <3>1. item[i].chain \in Seq(Revision)
      BY ItemColumns DEF Inv, TypeOK
    <3> QED
      BY <2>2, <3>1 DEF Confirms, HeadOf
  <2>4. n \in DOMAIN item'[i].chain
    <3>1. item \in [Item -> ItemRow] /\ item' \in [Item -> ItemRow]
      BY <1>1, KindsKeepItems DEF Inv, TypeOK, StoreTypeOK
    <3>2. item'[i].chain \in Seq(Revision) /\ HeadOf(i)' = Len(item'[i].chain)
      BY <3>1 DEF ItemRow, HeadOf
    <3>3. HeadOf(i)' >= HeadOf(i) /\ HeadOf(i) \in Nat /\ HeadOf(i)' \in Nat
      BY <1>1, <3>1, CreatedHead, StepGrows DEF Grows
    <3> QED
      BY <2>3, <3>2, <3>3
  <2> QED
    BY <1>3, <1>5, <1>6, <2>2, <2>3, <2>4 DEF Confirms
<1>8. ASSUME NEW p \in Proc, Reviewing(job[p]), job[p].batch = b, i \in Pending(p),
             AppendHuman(p, i, job[p].seen[i].text)
      PROVE  \E n : Confirms(item'[i].chain, n, b, item'[i].chain[queue'[b].prop[i]].text)
  <2> DEFINE text == job[p].seen[i].text
             rev  == HumanRevision(p, i, text)
  <2>1. job[p].seen[i] \in Listing /\ text \in Text \cup {Reason}
    BY <1>8, DecidingKnows DEF Reviewing, Listing
  <2>2. text = item[i].chain[prop].text
    <3>1. ShowsProposed(job[p]) /\ job[p].seen[i] # None
      BY <1>8 DEF ListingsShowProposals, Pending
    <3>2. prop # 0
      BY <1>4
    <3> QED
      BY <1>8, <3>1, <3>2 DEF ShowsProposed, prop
  <2>3. rev \in Revision /\ Extends(i, rev) /\ HeadOf(i) = job[p].seen[i].head
    BY <1>8, <2>1, HumanExtends DEF Reviewing
  <2>4. rev.by = b /\ rev.verified /\ rev.read = HeadOf(i) /\ rev.text = text
    BY <1>8, <2>3 DEF HumanRevision
  <2> HIDE DEF text, rev
  <2>5. /\ HeadOf(i) \in Nat
        /\ DOMAIN item'[i].chain = 1 .. HeadOf(i) + 1
        /\ item'[i].chain[HeadOf(i) + 1] = rev
    BY <2>3, ExtendedChain
  <2>6. Confirms(item'[i].chain, HeadOf(i) + 1, b, text)
    BY <2>4, <2>5 DEF Confirms
  <2> QED
    BY <1>3, <1>6, <2>2, <2>6
<1> QED
  BY <1>7, <1>8, ConfirmedNow

\* A confirmed verification has its revision, and the revision states, verified,
\* the text the entry proposed, whatever was appended in between.
THEOREM ConfirmedIsWhatWasProposedHolds == Spec => []ConfirmedIsWhatWasProposed
<1> DEFINE All == UnverifiedProposes /\ ListingsShowProposals /\ ConfirmedIsWhatWasProposed
<1>1. Init => All
  BY DEF Init, StoreInit, Idle, Reviewing, Entries, UnverifiedProposes, ListingsShowProposals,
     ConfirmedIsWhatWasProposed
<1>2. Inv /\ All /\ [Next]_vars => All'
  BY UnverifiedProposesStep, ListingsShowProposalsStep, ConfirmedStep
<1> QED
  BY <1>1, <1>2, ReviewInv, PTL DEF Spec
=============================================================================
