--------------------------- MODULE StoreFile_proofs ---------------------------
(***************************************************************************)
(* The safety of one store path, for any systems, field work, plane and     *)
(* number of commands, each of which may be killed between any two of its   *)
(* effects, if no pull replaces a file whose log a killed command left in   *)
(* use.  What SQLite would make of a new file under an old log depends on   *)
(* which pages the log holds, and is beyond the module's one page.          *)
(*                                                                         *)
(* Inv is inductive: what the running command found out when it started is  *)
(* still so when it acts on it, and no log is in use when a pull runs.      *)
(***************************************************************************)
EXTENDS StoreFile, TLAPS

\* A part of a system's canon, from its first row on.
Prefix(s, n) == {s} \X (1 .. n)

\* Rows that were served or exported in one piece.
InOnePiece(rows) ==
    /\ Altered \notin rows
    /\ \A s \in System : \E n \in 0 .. MaxPlane : rows \cap ({s} \X Nat) = Prefix(s, n)

\* No log is left beside the file that a pull replaces.
LogInUse == cmd.verb = "pull" => ~wal.hot

\* A command that has opened the store has one; a path without one is empty.
Opened ==
    /\ cmd.at \in {"open", "migrate"} => cmd.verb \in {"init", "migrate", "import"}
    /\ cmd.at \in {"migrate", "verify", "writing", "done"} => db.exists
    /\ cmd.at = "migrate" => cmd.pending # {}
    /\ cmd.at = "export" => cmd.verb = "export"
    /\ ~db.exists => ~wal.hot /\ db.page.rows = {}

\* What a pull fetched is some of the plane's canon; where it may not discard field
\* work there is none, and after its first rename the path holds what it fetched.
PullKnows ==
    cmd.verb = "pull" =>
        /\ \E s \in System, n \in 1 .. MaxPlane : cmd.system = s /\ cmd.digest = Prefix(s, n)
        /\ cmd.at = "store" => cmd.init \/ Local \cap Rows = {}
        /\ cmd.at = "marker" => Rows = cmd.digest

\* A marked store holds rows, none of the field's, and nobody is writing to it.
Marked ==
    IsReplica =>
        /\ Local \cap Rows = {} /\ Rows # {}
        /\ ~(cmd.verb = "write" /\ cmd.at = "writing")

Inv ==
    /\ TypeOK
    /\ LogInUse
    /\ Opened
    /\ PullKnows
    /\ Marked
    /\ InOnePiece(Rows)
    /\ InOnePiece(bundle.digest)

-----------------------------------------------------------------------------
(* Rows *)

\* A part of a system's canon holds nothing else, and nothing of another system.
LEMMA PrefixInOnePiece ==
    ASSUME NEW s \in System, NEW n \in 0 .. MaxPlane
    PROVE  /\ InOnePiece(Prefix(s, n))
           /\ Local \cap Prefix(s, n) = {}
           /\ n # 0 => Prefix(s, n) # {}
<1>1. Prefix(s, n) \subseteq System \X Nat
  BY DEF Prefix
<1>2. Altered \notin Prefix(s, n) /\ Local \cap Prefix(s, n) = {}
  BY <1>1, StoreFileAssumption
<1>3. ASSUME NEW t \in System
      PROVE  \E k \in 0 .. MaxPlane : Prefix(s, n) \cap ({t} \X Nat) = Prefix(t, k)
  <2>1. CASE t = s
    <3>1. Prefix(s, n) \cap ({t} \X Nat) = Prefix(t, n)
      BY <2>1 DEF Prefix
    <3> QED
      BY <3>1
  <2>2. CASE t # s
    <3>1. Prefix(s, n) \cap ({t} \X Nat) = {} /\ Prefix(t, 0) = {}
      BY <2>2 DEF Prefix
    <3>2. 0 \in 0 .. MaxPlane
      BY StoreFileAssumption
    <3> QED
      BY <3>1, <3>2
  <2> QED
    BY <2>1, <2>2
<1>4. n # 0 => <<s, 1>> \in Prefix(s, n)
  BY DEF Prefix
<1> QED
  BY <1>2, <1>3, <1>4 DEF InOnePiece

\* Field work beside them leaves them in one piece.
LEMMA LocalInOnePiece ==
    ASSUME NEW rows, InOnePiece(rows), NEW more, more \subseteq Local
    PROVE  InOnePiece(rows \cup more)
<1>1. \A s \in System : more \cap ({s} \X Nat) = {}
  BY StoreFileAssumption
<1>2. \A s \in System : (rows \cup more) \cap ({s} \X Nat) = rows \cap ({s} \X Nat)
  BY <1>1
<1> QED
  BY <1>2, StoreFileAssumption DEF InOnePiece

\* Nothing is in one piece.
LEMMA NothingInOnePiece ==
    InOnePiece({})
<1>1. 0 \in 0 .. MaxPlane /\ \A s \in System : {} \cap ({s} \X Nat) = Prefix(s, 0)
  BY StoreFileAssumption DEF Prefix
<1> QED
  BY <1>1 DEF InOnePiece

-----------------------------------------------------------------------------
(* The steps *)

\* What a step does that neither renames a file nor writes a row.
SameContent == Rows' = Rows /\ UNCHANGED <<marker, bundle>>

\* What no step but a pull that may discard field work does.
Kept == \A row \in Local \cap Rows : row \notin Rows' => cmd.init

\* Such a step keeps the invariant, if the command that runs keeps its own parts.
LEMMA ContentKept ==
    ASSUME Inv, TypeOK', SameContent, LogInUse', Opened', PullKnows',
           IsReplica => ~(cmd'.verb = "write" /\ cmd'.at = "writing")
    PROVE  Inv' /\ Kept
BY DEF Inv, SameContent, Marked, IsReplica, InOnePiece, Prefix, Kept

\* What a connection reads is a database.
LEMMA PagesType ==
    ASSUME TypeOK
    PROVE  Pages \in Page /\ Rows \in SUBSET Row
BY DEF TypeOK, Pages, Rows, Page

\* Committing a database to the log makes it what is read.
LEMMA Committed ==
    ASSUME NEW page \in Page, Commit(page)
    PROVE  wal' \in [hot : BOOLEAN, page : Page] /\ wal'.hot /\ Rows' = page.rows
BY DEF Commit, Rows, Pages

\* So does committing rows.
LEMMA RowsCommitted ==
    ASSUME TypeOK, NEW rows \in SUBSET Row, CommitRows(rows)
    PROVE  wal' \in [hot : BOOLEAN, page : Page] /\ wal'.hot /\ Rows' = rows
<1> DEFINE page == [Pages EXCEPT !.rows = rows]
<1>1. page \in Page /\ page.rows = rows
  BY PagesType DEF Page
<1>2. Commit(page)
  BY DEF CommitRows
<1> HIDE DEF page
<1> QED
  BY <1>1, <1>2, Committed

\* A command that begins.
LEMMA StartType ==
    ASSUME TypeOK, NEW verb \in Verb, NEW at, at \in {"open", "writing", "export"},
           Start(verb, at)
    PROVE  /\ cmd = Idle /\ cmd' \in Command /\ cmd'.verb = verb /\ cmd'.at = at
           /\ commands' \in 0 .. MaxCommands
<1>1. commands' \in 0 .. MaxCommands
  BY StoreFileAssumption DEF Start, TypeOK
<1>2. Idle \in Command
  BY DEF Idle, Command
<1>3. cmd' = [Idle EXCEPT !.verb = verb, !.at = at]
  BY DEF Start
<1>4. cmd' \in Command
  BY <1>2, <1>3, Zenon DEF Command
<1> QED
  BY <1>1, <1>3, <1>4 DEF Start, Idle

\* A command that goes on, or ends.
LEMMA GotoType ==
    ASSUME TypeOK, NEW at,
           at \in {"open", "migrate", "verify", "writing", "export", "store", "marker", "done"},
           Goto(at)
    PROVE  /\ cmd' \in Command /\ cmd'.verb = cmd.verb /\ cmd'.at = at
           /\ cmd'.init = cmd.init /\ cmd'.system = cmd.system /\ cmd'.digest = cmd.digest
<1>1. cmd \in Command /\ cmd' = [cmd EXCEPT !.at = at]
  BY DEF TypeOK, Goto
<1>2. cmd' \in Command
  BY <1>1, Zenon DEF Command
<1> QED
  BY <1>1, <1>2 DEF Command

LEMMA IdleType ==
    Idle \in Command /\ Idle.verb = "none" /\ Idle.at = "idle"
BY DEF Idle, Command

\* The files that are still to be applied, and what comes after the last.
LEMMA AfterOpenType ==
    ASSUME TypeOK, NEW pending \in SUBSET Version, AfterOpen(pending)
    PROVE  /\ cmd' \in Command /\ cmd'.verb = cmd.verb
           /\ cmd'.at \in {"migrate", "verify", "done"}
           /\ cmd'.at = "migrate" => cmd'.pending # {}
<1> DEFINE at == IF pending # {} THEN "migrate"
                 ELSE IF cmd.verb = "import" THEN "verify" ELSE "done"
<1>1. at \in {"migrate", "verify", "done"} /\ (at = "migrate" => pending # {})
  OBVIOUS
<1>2. cmd \in Command /\ cmd' = [cmd EXCEPT !.pending = pending, !.at = at]
  BY DEF TypeOK, AfterOpen
<1> HIDE DEF at
<1>3. cmd' \in Command
  BY <1>1, <1>2, Zenon DEF Command
<1> QED
  BY <1>1, <1>2, <1>3, ZenonT(60) DEF Command, at

\* The store is opened by a command that may create or migrate it.
LEMMA OpensInv ==
    ASSUME Inv, \/ \E verb \in {"init", "migrate"} : OpenForMigration(verb)
                \/ ImportStart
                \/ ExportStart
    PROVE  Inv' /\ Kept
<1>1. /\ cmd = Idle /\ cmd' \in Command /\ commands' \in 0 .. MaxCommands
      /\ UNCHANGED <<plane, db, wal, marker, bundle>>
      /\ \/ cmd'.at = "open" /\ cmd'.verb \in {"init", "migrate", "import"}
         \/ cmd'.at = "export" /\ cmd'.verb = "export"
  BY StartType DEF OpenForMigration, ImportStart, ExportStart, Inv, Verb
<1>2. SameContent /\ TypeOK'
  BY <1>1 DEF SameContent, Rows, Pages, Inv, TypeOK
<1>3. LogInUse' /\ Opened' /\ PullKnows'
  BY <1>1 DEF LogInUse, Opened, PullKnows, Inv
<1> QED
  BY <1>1, <1>2, <1>3, ContentKept

LEMMA OpenAndCreateInv ==
    ASSUME Inv, OpenAndCreate
    PROVE  Inv' /\ Kept
<1>1. /\ cmd.verb \in {"init", "migrate", "import"}
      /\ cmd' \in Command /\ cmd'.verb = cmd.verb /\ cmd'.at \in {"migrate", "verify", "done"}
      /\ cmd'.at = "migrate" => cmd'.pending # {}
      /\ UNCHANGED <<plane, marker, bundle, commands>>
  <2>1. Pending \in SUBSET Version /\ AfterOpen(Pending)
    BY DEF OpenAndCreate, Pending
  <2> QED
    BY <2>1, AfterOpenType DEF OpenAndCreate, Inv, Opened
<1>2. db' \in [exists : BOOLEAN, page : Page] /\ db'.exists /\ db'.page = db.page
  BY DEF OpenAndCreate, Inv, TypeOK
<1>3. wal' \in [hot : BOOLEAN, page : Page] /\ Rows' = Rows
  <2>1. CASE Pending = {}
    <3>1. CommitRows(Rows)
      BY <2>1 DEF OpenAndCreate
    <3> QED
      BY <3>1, PagesType, RowsCommitted DEF Inv
  <2>2. CASE Pending # {}
    BY <1>2, <2>2 DEF OpenAndCreate, Rows, Pages, Inv, TypeOK
  <2> QED
    BY <2>1, <2>2
<1>4. SameContent /\ TypeOK'
  BY <1>1, <1>2, <1>3 DEF SameContent, Inv, TypeOK
<1>5. LogInUse' /\ Opened' /\ PullKnows'
  BY <1>1, <1>2 DEF LogInUse, Opened, PullKnows
<1> QED
  BY <1>1, <1>4, <1>5, ContentKept

LEMMA MigrateFileInv ==
    ASSUME Inv, MigrateFile
    PROVE  Inv' /\ Kept
<1> DEFINE page == [Pages EXCEPT !.tables = @ \cup {NextFile}, !.version = NextFile]
<1>1. /\ cmd.verb \in {"init", "migrate", "import"} /\ db.exists
      /\ cmd.pending # {} /\ cmd.pending \in SUBSET Version
      /\ UNCHANGED <<plane, db, marker, bundle, commands>>
  BY DEF MigrateFile, Inv, Opened, TypeOK, Command
<1>2. NextFile \in cmd.pending
  <2>1. \E v \in cmd.pending : \A u \in cmd.pending : v <= u
    BY <1>1 DEF Version
  <2> QED
    BY <2>1 DEF NextFile
<1>3. /\ cmd' \in Command /\ cmd'.verb = cmd.verb /\ cmd'.at \in {"migrate", "verify", "done"}
      /\ cmd'.at = "migrate" => cmd'.pending # {}
  <2>1. cmd.pending \ {NextFile} \in SUBSET Version
    BY <1>1
  <2> QED
    BY <2>1, AfterOpenType DEF MigrateFile, Inv
<1>4. page \in Page /\ page.rows = Rows
  <2>1. Pages \in Page /\ NextFile \in Version
    BY <1>1, <1>2, PagesType DEF Inv
  <2>2. Pages.tables \cup {NextFile} \in SUBSET Version /\ NextFile \in {0} \cup Version
    BY <2>1 DEF Page
  <2>3. page \in Page
    BY <2>1, <2>2, Zenon DEF Page
  <2> QED
    BY <2>1, <2>3 DEF Page, Rows
<1>5. Commit(page)
  BY DEF MigrateFile
<1> HIDE DEF page
<1>6. wal' \in [hot : BOOLEAN, page : Page] /\ Rows' = Rows
  BY <1>4, <1>5, Committed
<1>7. SameContent /\ TypeOK'
  BY <1>1, <1>3, <1>6 DEF SameContent, Inv, TypeOK
<1>8. LogInUse' /\ Opened' /\ PullKnows'
  BY <1>1, <1>3 DEF LogInUse, Opened, PullKnows
<1> QED
  BY <1>1, <1>3, <1>7, <1>8, ContentKept

LEMMA CloseStoreInv ==
    ASSUME Inv, CloseStore
    PROVE  Inv' /\ Kept
<1>1. /\ cmd' = Idle /\ wal' = NoLog /\ UNCHANGED <<plane, marker, bundle, commands>>
  BY DEF CloseStore, Ends
<1>2. wal' \in [hot : BOOLEAN, page : Page] /\ ~wal'.hot
  BY <1>1 DEF NoLog, Blank, Page
<1>3. /\ db' \in [exists : BOOLEAN, page : Page] /\ db'.exists /\ db'.page = Pages
  BY PagesType DEF CloseStore, Checkpointed, Inv, TypeOK, Opened
<1>4. Rows' = Rows
  BY <1>2, <1>3 DEF Rows, Pages
<1>5. SameContent /\ TypeOK'
  BY <1>1, <1>2, <1>3, <1>4, IdleType DEF SameContent, Inv, TypeOK
<1>6. LogInUse' /\ Opened' /\ PullKnows'
  BY <1>1, <1>2, <1>3, IdleType DEF LogInUse, Opened, PullKnows
<1> QED
  BY <1>1, <1>5, <1>6, IdleType, ContentKept

\* A writing command begins with the row every open appends.
LEMMA WritesStartInv ==
    ASSUME Inv, WriteStart \/ RebuildStart
    PROVE  Inv' /\ Kept
<1>1. /\ cmd' \in Command /\ cmd'.verb \in {"write", "rebuild"} /\ cmd'.at = "writing"
      /\ commands' \in 0 .. MaxCommands
      /\ db.exists /\ (cmd'.verb = "write" => ~IsReplica)
      /\ CommitRows(Rows)
      /\ UNCHANGED <<plane, db, marker, bundle>>
  BY StartType DEF WriteStart, RebuildStart, MayWrite, Writable, Inv, Verb
<1>2. wal' \in [hot : BOOLEAN, page : Page] /\ Rows' = Rows
  BY <1>1, PagesType, RowsCommitted DEF Inv
<1>3. SameContent /\ TypeOK'
  BY <1>1, <1>2 DEF SameContent, Inv, TypeOK
<1>4. LogInUse' /\ Opened' /\ PullKnows'
  BY <1>1 DEF LogInUse, Opened, PullKnows
<1> QED
  BY <1>1, <1>3, <1>4, ContentKept

LEMMA RebuildCacheInv ==
    ASSUME Inv, RebuildCache
    PROVE  Inv' /\ Kept
<1>1. /\ cmd' \in Command /\ cmd'.verb = "rebuild" /\ cmd'.at = "done" /\ db.exists
      /\ CommitRows(Rows)
      /\ UNCHANGED <<plane, db, marker, bundle, commands>>
  BY GotoType DEF RebuildCache, Inv, Opened
<1>2. wal' \in [hot : BOOLEAN, page : Page] /\ Rows' = Rows
  BY <1>1, PagesType, RowsCommitted DEF Inv
<1>3. SameContent /\ TypeOK'
  BY <1>1, <1>2 DEF SameContent, Inv, TypeOK
<1>4. LogInUse' /\ Opened' /\ PullKnows'
  BY <1>1 DEF LogInUse, Opened, PullKnows
<1> QED
  BY <1>1, <1>3, <1>4, ContentKept

LEMMA WriteCanonInv ==
    ASSUME Inv, WriteCanon
    PROVE  Inv' /\ Kept
<1>1. PICK row \in Local : CommitRows(Rows \cup {row})
  BY DEF WriteCanon
<1>2. /\ cmd' \in Command /\ cmd'.verb = "write" /\ cmd'.at = "done"
      /\ db.exists /\ ~IsReplica
      /\ UNCHANGED <<plane, db, marker, bundle, commands>>
  BY GotoType DEF WriteCanon, Inv, Opened, Marked
<1>3. Rows \cup {row} \in SUBSET Row
  BY PagesType DEF Inv, Row
<1>4. wal' \in [hot : BOOLEAN, page : Page] /\ Rows' = Rows \cup {row}
  BY <1>1, <1>3, RowsCommitted DEF Inv
<1>5. InOnePiece(Rows \cup {row})
  BY LocalInOnePiece DEF Inv
<1>6. LogInUse' /\ Opened' /\ PullKnows' /\ Marked' /\ TypeOK'
  BY <1>2, <1>4 DEF LogInUse, Opened, PullKnows, Marked, IsReplica, Inv, TypeOK
<1>7. InOnePiece(Rows)' /\ InOnePiece(bundle.digest)'
  BY <1>2, <1>4, <1>5 DEF InOnePiece, Prefix, Inv
<1> QED
  BY <1>4, <1>6, <1>7 DEF Inv, Kept

LEMMA ExportTableInv ==
    ASSUME Inv, ExportTable
    PROVE  Inv' /\ Kept
<1>1. /\ cmd.verb = "export" /\ (cmd' = cmd \/ cmd' = Idle)
      /\ UNCHANGED <<plane, db, wal, marker, commands>>
  BY DEF ExportTable, Ends, Inv, Opened
<1>2. Rows' = Rows
  BY <1>1 DEF Rows, Pages
<1>3. /\ bundle' \in [tables : SUBSET Version, rows : SUBSET Row, digest : SUBSET Row,
                      manifest : BOOLEAN]
      /\ bundle'.digest = bundle.digest \/ bundle'.digest = Rows
  <2> DEFINE next == IF bundle.tables = {} THEN 3 ELSE 4
             tables == bundle.tables \cup {next}
  <2>1. CASE UNCHANGED bundle
    BY <2>1 DEF Inv, TypeOK
  <2>2. CASE bundle' = [tables |-> tables, rows |-> Rows, digest |-> Rows,
                        manifest |-> ManifestIsDue(tables)]
    <3>1. tables \in SUBSET Version /\ Rows \in SUBSET Row
      BY PagesType DEF Inv, TypeOK, Version
    <3>2. ManifestIsDue(tables) \in BOOLEAN
      BY DEF ManifestIsDue
    <3> HIDE DEF tables
    <3> QED
      BY <2>2, <3>1, <3>2
  <2> QED
    BY <2>1, <2>2 DEF ExportTable
<1>4. TypeOK'
  BY <1>1, <1>3, IdleType DEF Inv, TypeOK
<1>5. LogInUse' /\ Opened' /\ PullKnows' /\ Marked'
  BY <1>1, <1>2, IdleType DEF LogInUse, Opened, PullKnows, Marked, IsReplica, Inv
<1>6. InOnePiece(Rows)' /\ InOnePiece(bundle.digest)'
  BY <1>2, <1>3 DEF Inv, InOnePiece, Prefix
<1> QED
  BY <1>2, <1>4, <1>5, <1>6 DEF Inv, Kept

\* The operator's own steps.
LEMMA OperatorInv ==
    ASSUME Inv, DiscardBundle \/ AlterBundle \/ \E s \in System : PlaneGrows(s)
    PROVE  Inv' /\ Kept
<1>1. UNCHANGED <<db, wal, marker, cmd, commands>>
  BY DEF DiscardBundle, AlterBundle, PlaneGrows
<1>2. Rows' = Rows
  BY <1>1 DEF Rows, Pages
<1>3. plane' \in [System -> 1 .. MaxPlane]
  <2>1. CASE \E s \in System : PlaneGrows(s)
    <3>1. PICK s \in System : plane[s] < MaxPlane /\ plane' = [plane EXCEPT ![s] = @ + 1]
      BY <2>1 DEF PlaneGrows
    <3>2. plane \in [System -> 1 .. MaxPlane] /\ plane[s] + 1 \in 1 .. MaxPlane
      BY <3>1, StoreFileAssumption DEF Inv, TypeOK
    <3> QED
      BY <3>1, <3>2
  <2>2. CASE UNCHANGED plane
    BY <2>2 DEF Inv, TypeOK
  <2> QED
    BY <2>1, <2>2 DEF DiscardBundle, AlterBundle
<1>4. /\ bundle' \in [tables : SUBSET Version, rows : SUBSET Row, digest : SUBSET Row,
                      manifest : BOOLEAN]
      /\ bundle'.digest = bundle.digest \/ bundle'.digest = {}
  <2>1. CASE DiscardBundle
    BY <2>1 DEF DiscardBundle, NoBundle
  <2>2. CASE AlterBundle
    BY <2>2 DEF AlterBundle, Inv, TypeOK, Row
  <2>3. CASE UNCHANGED bundle
    BY <2>3 DEF Inv, TypeOK
  <2> QED
    BY <2>1, <2>2, <2>3 DEF PlaneGrows
<1>5. InOnePiece(bundle.digest)'
  BY <1>4, NothingInOnePiece DEF InOnePiece, Prefix, Inv
<1>6. TypeOK'
  BY <1>1, <1>3, <1>4 DEF Inv, TypeOK
<1>7. LogInUse' /\ Opened' /\ PullKnows' /\ Marked' /\ InOnePiece(Rows)'
  BY <1>1, <1>2 DEF Inv, LogInUse, Opened, PullKnows, Marked, IsReplica, InOnePiece, Prefix
<1> QED
  BY <1>2, <1>5, <1>6, <1>7 DEF Inv, Kept

\* An import applies a verified bundle to an empty store, or nothing.
LEMMA ApplyBundleInv ==
    ASSUME Inv, ApplyBundle
    PROVE  Inv' /\ Kept
<1>1. /\ cmd' \in Command /\ cmd'.verb = "import" /\ cmd'.at = "done" /\ db.exists
      /\ UNCHANGED <<plane, db, marker, bundle, commands>>
  BY GotoType DEF ApplyBundle, Inv, Opened
<1>2. /\ wal' \in [hot : BOOLEAN, page : Page]
      /\ Rows' = Rows \/ (Rows = {} /\ Rows' = bundle.digest)
  <2>1. CASE Verified(bundle) /\ EmptyTarget
    <3>1. Rows \cup bundle.rows \in SUBSET Row
      BY PagesType DEF Inv, TypeOK
    <3>2. CommitRows(Rows \cup bundle.rows)
      BY <2>1 DEF ApplyBundle
    <3>3. wal' \in [hot : BOOLEAN, page : Page] /\ Rows' = Rows \cup bundle.rows
      BY <3>1, <3>2, RowsCommitted DEF Inv
    <3> QED
      BY <2>1, <3>3 DEF Verified, EmptyTarget
  <2>2. CASE ~(Verified(bundle) /\ EmptyTarget)
    BY <2>2 DEF ApplyBundle, Rows, Pages, Inv, TypeOK
  <2> QED
    BY <2>1, <2>2
<1>3. LogInUse' /\ Opened' /\ PullKnows' /\ TypeOK'
  BY <1>1, <1>2 DEF LogInUse, Opened, PullKnows, Inv, TypeOK
<1>4. Marked'
  BY <1>1, <1>2 DEF Inv, Marked, IsReplica
<1>5. InOnePiece(Rows)' /\ InOnePiece(bundle.digest)'
  BY <1>1, <1>2 DEF Inv, InOnePiece, Prefix
<1> QED
  BY <1>2, <1>3, <1>4, <1>5 DEF Inv, Kept

\* A pull begins where it may replace the path, with some of the plane's canon.
LEMMA PullStartInv ==
    ASSUME Inv, ~PullsOverLog, NEW s \in System, NEW init \in BOOLEAN, PullStart(s, init)
    PROVE  Inv' /\ Kept
<1>1. /\ cmd'.verb = "pull" /\ cmd'.at = "store" /\ cmd'.init = init
      /\ cmd'.system = s /\ cmd'.digest = Prefix(s, plane[s])
      /\ cmd = Idle
      /\ cmd' = [Idle EXCEPT !.verb = "pull", !.at = "store", !.init = init,
                             !.system = s, !.digest = Prefix(s, plane[s])]
      /\ UNCHANGED <<plane, db, wal, marker, bundle>>
  BY DEF PullStart, Idle, StoreThenMarker, Canon, Prefix
<1>2. plane[s] \in 1 .. MaxPlane /\ ~wal.hot
  BY DEF PullStart, Inv, TypeOK
<1>3. init \/ Local \cap Rows = {}
  <2>1. CASE init
    BY <2>1
  <2>2. CASE ~db.exists
    BY <2>2 DEF Inv, Opened, Rows, Pages
  <2>3. CASE marker.system = s
    <3>1. IsReplica
      BY <2>3, StoreFileAssumption DEF IsReplica, NoMarker
    <3> QED
      BY <3>1 DEF Inv, Marked
  <2> QED
    BY <2>1, <2>2, <2>3 DEF PullStart, MayReplace
<1>4. TypeOK'
  <2>1. Prefix(s, plane[s]) \in SUBSET Row
    <3>1. 1 .. plane[s] \subseteq 1 .. MaxPlane
      BY <1>2, StoreFileAssumption
    <3>2. {s} \X (1 .. plane[s]) \subseteq System \X (1 .. MaxPlane)
      BY <3>1
    <3> QED
      BY <3>2 DEF Prefix, Row
  <2>2. cmd' \in Command
    <3>1. "pull" \in Verb \cup {"none"} /\ s \in System \cup {"none"}
      BY DEF Verb
    <3> QED
      BY <1>1, <2>1, <3>1, IdleType, Zenon DEF Command
  <2>3. commands' \in 0 .. MaxCommands
    BY StoreFileAssumption DEF PullStart, Inv, TypeOK
  <2> QED
    BY <1>1, <2>2, <2>3 DEF Inv, TypeOK
<1>5. SameContent
  BY <1>1 DEF SameContent, Rows, Pages
<1>6. LogInUse' /\ Opened'
  BY <1>1, <1>2 DEF LogInUse, Opened, Inv
<1>7. PullKnows'
  <2>1. \E t \in System, n \in 1 .. MaxPlane : cmd'.system = t /\ cmd'.digest = Prefix(t, n)
    BY <1>1, <1>2
  <2>2. Rows' = Rows
    BY <1>5 DEF SameContent
  <2> QED
    BY <1>1, <1>3, <2>1, <2>2 DEF PullKnows, Prefix
<1> QED
  BY <1>1, <1>4, <1>5, <1>6, <1>7, ContentKept

LEMMA SwapStoreInv ==
    ASSUME Inv, SwapStore
    PROVE  Inv' /\ Kept
<1>1. /\ cmd.verb = "pull" /\ cmd.at = "store" /\ ~wal.hot
      /\ Goto("marker")
      /\ db' = [exists |-> TRUE,
                page |-> [version |-> 4, tables |-> Version, rows |-> cmd.digest]]
      /\ UNCHANGED <<plane, wal, marker, bundle, commands>>
  BY DEF SwapStore, AfterRename, StoreThenMarker, Inv, LogInUse
<1>2. /\ cmd' \in Command /\ cmd'.verb = "pull" /\ cmd'.at = "marker"
      /\ cmd'.system = cmd.system /\ cmd'.digest = cmd.digest
  BY <1>1, GotoType DEF Inv
<1>3. Rows' = cmd.digest
  BY <1>1 DEF Rows, Pages
<1>4. PICK s \in System, n \in 1 .. MaxPlane : cmd.system = s /\ cmd.digest = Prefix(s, n)
  BY <1>1 DEF Inv, PullKnows
<1>5. n \in 0 .. MaxPlane /\ n # 0
  BY StoreFileAssumption
<1>6. InOnePiece(cmd.digest) /\ Local \cap cmd.digest = {} /\ cmd.digest # {}
  BY <1>4, <1>5, PrefixInOnePiece
<1>7. TypeOK'
  <2>1. cmd.digest \in SUBSET Row
    BY DEF Inv, TypeOK, Command
  <2>2. db' \in [exists : BOOLEAN, page : Page]
    BY <1>1, <2>1 DEF Page, Version
  <2> QED
    BY <1>1, <1>2, <2>2 DEF Inv, TypeOK
<1>8. LogInUse' /\ Opened'
  BY <1>1, <1>2 DEF LogInUse, Opened
<1>9. PullKnows'
  BY <1>2, <1>3, <1>4 DEF PullKnows, Prefix
<1>10. Marked'
  BY <1>1, <1>2, <1>3, <1>6 DEF Marked, IsReplica
<1>11. InOnePiece(Rows)' /\ InOnePiece(bundle.digest)'
  BY <1>1, <1>3, <1>6 DEF Inv, InOnePiece, Prefix
<1>12. Kept
  BY <1>1 DEF Kept, Inv, PullKnows
<1> QED
  BY <1>7, <1>8, <1>9, <1>10, <1>11, <1>12 DEF Inv

LEMMA StampMarkerInv ==
    ASSUME Inv, StampMarker
    PROVE  Inv' /\ Kept
<1>1. /\ cmd.verb = "pull" /\ cmd.at = "marker" /\ cmd' = Idle
      /\ marker' = [system |-> cmd.system, digest |-> cmd.digest]
      /\ UNCHANGED <<plane, db, wal, bundle, commands>>
  BY DEF StampMarker, AfterRename, StoreThenMarker, Ends
<1>2. Rows' = Rows /\ Rows = cmd.digest /\ ~wal.hot
  BY <1>1 DEF Rows, Pages, Inv, PullKnows, LogInUse
<1>3. PICK s \in System, n \in 1 .. MaxPlane : cmd.digest = Prefix(s, n)
  BY <1>1 DEF Inv, PullKnows
<1>4. n \in 0 .. MaxPlane /\ n # 0
  BY StoreFileAssumption
<1>5. Local \cap Rows = {} /\ Rows # {}
  BY <1>2, <1>3, <1>4, PrefixInOnePiece
<1>6. TypeOK'
  BY <1>1, IdleType DEF Inv, TypeOK, Command
<1>7. LogInUse' /\ Opened' /\ PullKnows'
  BY <1>1, <1>2, IdleType DEF LogInUse, Opened, PullKnows, Inv
<1>8. Marked'
  BY <1>1, <1>2, <1>5, IdleType DEF Marked
<1>9. InOnePiece(Rows)' /\ InOnePiece(bundle.digest)'
  BY <1>1, <1>2 DEF Inv, InOnePiece, Prefix
<1> QED
  BY <1>2, <1>6, <1>7, <1>8, <1>9 DEF Inv, Kept

\* A kill leaves the files, and a log in use beside them.
LEMMA KillInv ==
    ASSUME Inv, Kill
    PROVE  Inv' /\ Kept
<1>1. cmd' = Idle /\ UNCHANGED <<plane, db, wal, marker, bundle, commands>>
  BY DEF Kill, Ends
<1>2. SameContent /\ TypeOK'
  BY <1>1, IdleType DEF SameContent, Rows, Pages, Inv, TypeOK
<1>3. LogInUse' /\ Opened' /\ PullKnows'
  BY <1>1, IdleType DEF LogInUse, Opened, PullKnows, Inv
<1> QED
  BY <1>1, <1>2, <1>3, IdleType, ContentKept

LEMMA NextInv ==
    ASSUME ~PullsOverLog, Inv, [Next]_vars
    PROVE  Inv' /\ Kept
<1>1. CASE UNCHANGED vars
  BY <1>1 DEF vars, Inv, TypeOK, LogInUse, Opened, PullKnows, Marked, IsReplica, InOnePiece,
     Prefix, Rows, Pages, Kept
<1>2. CASE Next
  BY <1>2, OpensInv, OpenAndCreateInv, MigrateFileInv, CloseStoreInv, WritesStartInv,
     RebuildCacheInv, WriteCanonInv, ExportTableInv, OperatorInv, ApplyBundleInv, PullStartInv,
     SwapStoreInv, StampMarkerInv, KillInv DEF Next
<1> QED
  BY <1>1, <1>2

LEMMA InitInv ==
    ASSUME Init
    PROVE  Inv
<1>1. 0 \in 0 .. MaxPlane /\ 1 \in 0 .. MaxPlane /\ 1 \in 1 .. MaxPlane
      /\ 0 \in 0 .. MaxCommands
  BY StoreFileAssumption
<1>2. /\ wal = NoLog /\ cmd = Idle /\ marker = NoMarker
      /\ db \in [exists : BOOLEAN, page : Page] /\ db.page.rows = {}
  <2>1. {} \in SUBSET Row /\ {} \in SUBSET Version /\ {3} \in SUBSET Version
        /\ 0 \in {0} \cup Version /\ 3 \in {0} \cup Version
    BY DEF Version
  <2>2. CASE db = NoDb
    BY <2>1, <2>2 DEF Init, NoDb, Blank, Page
  <2>3. CASE db = [exists |-> TRUE, page |-> [version |-> 3, tables |-> {3}, rows |-> {}]]
    BY <2>1, <2>3 DEF Init, Page
  <2> QED
    BY <2>2, <2>3 DEF Init
<1>3. wal \in [hot : BOOLEAN, page : Page] /\ ~wal.hot
  BY <1>2 DEF NoLog, Blank, Page
<1>4. Rows = {}
  BY <1>2, <1>3 DEF Rows, Pages
<1>5. /\ bundle \in [tables : SUBSET Version, rows : SUBSET Row, digest : SUBSET Row,
                     manifest : BOOLEAN]
      /\ InOnePiece(bundle.digest)
  <2>1. CASE bundle = NoBundle
    BY <2>1, NothingInOnePiece DEF NoBundle
  <2>2. CASE bundle = Whole(Local)
    <3>1. InOnePiece({} \cup Local)
      BY NothingInOnePiece, LocalInOnePiece
    <3>2. {} \cup Local = Local
      OBVIOUS
    <3> QED
      BY <2>2, <3>1, <3>2 DEF Whole, Row
  <2>3. ASSUME NEW s \in System, bundle = Whole(Canon(s))
        PROVE  /\ bundle \in [tables : SUBSET Version, rows : SUBSET Row, digest : SUBSET Row,
                              manifest : BOOLEAN]
               /\ InOnePiece(bundle.digest)
    <3>1. Canon(s) = Prefix(s, 1) /\ Prefix(s, 1) \in SUBSET Row
      BY <1>1 DEF Init, Canon, Prefix, Row
    <3> QED
      BY <1>1, <2>3, <3>1, PrefixInOnePiece DEF Whole
  <2> QED
    BY <2>1, <2>2, <2>3 DEF Init
<1>6. TypeOK
  BY <1>1, <1>2, <1>3, <1>5, IdleType DEF Init, TypeOK, NoMarker
<1>7. LogInUse /\ Opened /\ PullKnows /\ Marked
  BY <1>2, <1>3, IdleType DEF LogInUse, Opened, PullKnows, Marked, IsReplica
<1> QED
  BY <1>4, <1>5, <1>6, <1>7, NothingInOnePiece DEF Inv

LEMMA AlwaysInv ==
    ASSUME ~PullsOverLog
    PROVE  Spec => []Inv
<1>1. Init => Inv
  BY InitInv
<1>2. Inv /\ [Next]_vars => Inv'
  BY NextInv
<1> QED
  BY <1>1, <1>2, PTL DEF Spec

-----------------------------------------------------------------------------
(* The theorems *)

\* Every reachable state of the store path and of the command has the types declared.
THEOREM TypeCorrect ==
    ASSUME ~PullsOverLog
    PROVE  Spec => []TypeOK
<1>1. Inv => TypeOK
  BY DEF Inv
<1> QED
  BY <1>1, AlwaysInv, PTL

\* However commands, pulls and kills alternate, while no pull replaces a file under
\* a log, a store that bears a replica marker holds no field work the next pull
\* would replace (refuse_write_to_replica, run_pull).
THEOREM MarkedStoresHoldNoFieldWork ==
    ASSUME ~PullsOverLog
    PROVE  Spec => []MarkedStoreHoldsNoFieldWork
<1>1. Inv => MarkedStoreHoldsNoFieldWork
  BY DEF Inv, Marked, MarkedStoreHoldsNoFieldWork
<1> QED
  BY <1>1, AlwaysInv, PTL

\* What a path holds of a system arrived verified and whole: no altered row, and no
\* row without those before it, with imports, exports and writers killed between any
\* two transactions and pulls between their renames, while no pull replaces a file
\* under a log (apply_bundle, run_pull).
THEOREM CopiesAlwaysWhole ==
    ASSUME ~PullsOverLog
    PROVE  Spec => []CopiesAreWhole
<1>1. Inv => CopiesAreWhole
  BY DEF Inv, InOnePiece, Prefix, CopiesAreWhole
<1> QED
  BY <1>1, AlwaysInv, PTL

\* No step but a pull that was told --init-replica takes field work off the path,
\* while no pull replaces a file under a log (check_target).
THEOREM FieldWorkKept ==
    ASSUME ~PullsOverLog
    PROVE  Spec => FieldWorkIsKept
<1>1. Inv /\ [Next]_vars => [Kept]_vars
  BY NextInv
<1>2. Spec => [][Kept]_vars
  BY <1>1, AlwaysInv, PTL DEF Spec
<1> QED
  BY <1>2 DEF FieldWorkIsKept, Kept

\* Where no pull replaces a file under a log, a path answers from what the pull that
\* wrote its marker fetched, whatever was killed before (run_pull): mixed_replica
\* shows the other case.
THEOREM PullsAnswerFromWhatTheyFetched ==
    ASSUME ~PullsOverLog
    PROVE  Spec => ReplicaAnswersFromThePull
<1> DEFINE Answers == marker' # marker => Rows' = marker'.digest
<1>1. Inv /\ StampMarker => Answers
  BY DEF StampMarker, Inv, PullKnows, Rows, Pages
<1>2. Next => StampMarker \/ UNCHANGED marker
  BY DEF Next, OpenForMigration, OpenAndCreate, MigrateFile, CloseStore, WriteStart, WriteCanon,
     RebuildStart, RebuildCache, ExportStart, ExportTable, DiscardBundle, AlterBundle,
     ImportStart, ApplyBundle, PlaneGrows, PullStart, SwapStore, Kill
<1>3. Inv /\ [Next]_vars => [Answers]_vars
  BY <1>1, <1>2
<1>4. Spec => [][Answers]_vars
  BY <1>3, AlwaysInv, PTL DEF Spec
<1> QED
  BY <1>4 DEF ReplicaAnswersFromThePull
=============================================================================
