----------------------------- MODULE FileIndex -----------------------------
(***************************************************************************)
(* The file index of files/src/lib.rs: FileIndex::refresh as several       *)
(* processes run it on one database while files come, change and go.       *)
(*                                                                         *)
(* A refresh reads the generation of its scope, then walks the scope in a  *)
(* transaction that becomes SQLite's one writer with its first write, and  *)
(* ends in a commit, complete or cancelled, or in a rollback.  A file is   *)
(* its size and modification time, which decide whether its entry in the   *)
(* search table is written again; a name or a path is the file itself.     *)
(***************************************************************************)
EXTENDS Naturals

CONSTANTS
    Files, Scopes, Indexers,
    Within,           \* Within[s]: the files under the root of s that no ignore rule excludes
    Metas,            \* sizes and modification times
    Missing,          \* no file, no record, no owner
    MaxGeneration,    \* i64::MAX, where checked_add fails
    MaxRefreshes,     \* bound on refreshes
    MaxEdits          \* bound on changes of the file system

\* A row of indexed_files, and a refresh under way.
Row == [scope : Scopes, meta : Metas, generation : 1..MaxGeneration]
Scan == [scope : Scopes, generation : 1..MaxGeneration,
         left : SUBSET Files, seen : SUBSET Files]

ASSUME FileIndexAssumption ==
    /\ Within \in [Scopes -> SUBSET Files]
    /\ {MaxGeneration, MaxRefreshes, MaxEdits} \subseteq Nat
    /\ Missing \notin Metas \cup Scopes \cup Indexers \cup Row \cup Scan

VARIABLES
    files,            \* files[f]: the file system
    rows,             \* rows[f]: the table indexed_files
    terms,            \* terms[f]: the scope file_search names f relative to
    generation,       \* generation[s]: the table index_state
    writer,           \* the process whose transaction holds the write lock
    newRows,          \* rows as the writer sees it
    newTerms,         \* terms as the writer sees it
    scan,             \* scan[p]: the refresh process p is in
    refreshes, edits  \* what has been used of the bounds

fileVars == <<files, rows, terms, generation, writer, newRows, newTerms, scan,
              refreshes, edits>>

FilesInit ==
    /\ files \in [Files -> Metas \cup {Missing}]
    /\ rows = [f \in Files |-> Missing]
    /\ terms = [f \in Files |-> Missing]
    /\ generation = [s \in Scopes |-> 0]
    /\ writer = Missing
    /\ newRows = rows
    /\ newTerms = terms
    /\ scan = [p \in Indexers |-> Missing]
    /\ refreshes = 0
    /\ edits = 0

(***************************************************************************)
(* A refresh.                                                              *)
(***************************************************************************)
\* The generation is read before the transaction starts.
Begin(p, s) ==
    /\ scan[p] = Missing
    /\ refreshes < MaxRefreshes
    /\ generation[s] < MaxGeneration
    /\ scan' = [scan EXCEPT ![p] =
                   [scope |-> s, generation |-> generation[s] + 1,
                    left |-> Within[s], seen |-> {}]]
    /\ refreshes' = refreshes + 1
    /\ UNCHANGED <<files, rows, terms, generation, writer, newRows, newTerms, edits>>

\* The write lock is free or already held.
MayWrite(p) == writer \in {Missing, p}

\* Faulty: an unchanged file's record is left alone, generation included.
RecordedIfChanged(table, f, row) ==
    IF table[f] # Missing /\ table[f].meta = row.meta THEN table
    ELSE [table EXCEPT ![f] = row]
Recorded(table, f, row) == [table EXCEPT ![f] = row]

\* An entry of the walk: the record is written in any case, the search table
\* when the file is new or has changed.
Visit(p, f) ==
    /\ scan[p] # Missing
    /\ f \in scan[p].left
    /\ files[f] # Missing
    /\ MayWrite(p)
    /\ writer' = p
    /\ newRows' = Recorded(newRows, f, [scope |-> scan[p].scope, meta |-> files[f],
                                        generation |-> scan[p].generation])
    /\ newTerms' = IF newRows[f] # Missing /\ newRows[f].meta = files[f] THEN newTerms
                   ELSE [newTerms EXCEPT ![f] = scan[p].scope]
    /\ scan' = [scan EXCEPT ![p].left = @ \ {f}, ![p].seen = @ \cup {f}]
    /\ UNCHANGED <<files, rows, terms, generation, refreshes, edits>>

\* The walk finds no such file, comes too early for it or cannot read it.
Skip(p, f) ==
    /\ scan[p] # Missing
    /\ f \in scan[p].left
    /\ scan' = [scan EXCEPT ![p].left = @ \ {f}]
    /\ UNCHANGED <<files, rows, terms, generation, writer, newRows, newTerms, refreshes, edits>>

\* A record of the scope that the scan of generation g did not reach.
StaleRow(row, s, g) == row # Missing /\ row.scope = s /\ row.generation # g

\* Faulty: the search table keeps the entries of the records removed.
RowsSwept(s, g) ==
    /\ rows' = [f \in Files |-> IF StaleRow(newRows[f], s, g) THEN Missing ELSE newRows[f]]
    /\ terms' = newTerms
\* A complete scan removes the records of its scope that it did not reach.
Swept(s, g) ==
    /\ rows' = [f \in Files |-> IF StaleRow(newRows[f], s, g) THEN Missing ELSE newRows[f]]
    /\ terms' = [f \in Files |-> IF StaleRow(newRows[f], s, g) THEN Missing ELSE newTerms[f]]

EndOfScan(p) == scan' = [scan EXCEPT ![p] = Missing]

Finish(p) ==
    /\ scan[p] # Missing
    /\ scan[p].left = {}
    /\ MayWrite(p)
    /\ Swept(scan[p].scope, scan[p].generation)
    /\ generation' = [generation EXCEPT ![scan[p].scope] = scan[p].generation]
    /\ newRows' = rows'
    /\ newTerms' = terms'
    /\ writer' = Missing
    /\ EndOfScan(p)
    /\ UNCHANGED <<files, refreshes, edits>>

\* Faulty: a cancelled scan ends like a complete one.
CancelledLikeFinished(p) ==
    /\ Swept(scan[p].scope, scan[p].generation)
    /\ generation' = [generation EXCEPT ![scan[p].scope] = scan[p].generation]
\* A cancelled scan commits what it has written and nothing else.
Unswept(p) ==
    /\ rows' = IF writer = p THEN newRows ELSE rows
    /\ terms' = IF writer = p THEN newTerms ELSE terms
    /\ generation' = generation

Cancel(p) ==
    /\ scan[p] # Missing
    /\ scan[p].left # {}
    /\ MayWrite(p)
    /\ Unswept(p)
    /\ newRows' = rows'
    /\ newTerms' = terms'
    /\ writer' = Missing
    /\ EndOfScan(p)
    /\ UNCHANGED <<files, refreshes, edits>>

\* An error, among them a database that stays busy, or the end of the process.
Fail(p) ==
    /\ scan[p] # Missing
    /\ EndOfScan(p)
    /\ IF writer = p THEN writer' = Missing /\ newRows' = rows /\ newTerms' = terms
       ELSE UNCHANGED <<writer, newRows, newTerms>>
    /\ UNCHANGED <<files, rows, terms, generation, refreshes, edits>>

\* The user creates, changes or removes a file.
Edit(f) ==
    /\ edits < MaxEdits
    /\ \E meta \in (Metas \cup {Missing}) \ {files[f]} : files' = [files EXCEPT ![f] = meta]
    /\ edits' = edits + 1
    /\ UNCHANGED <<rows, terms, generation, writer, newRows, newTerms, scan, refreshes>>

FilesNext ==
    \/ \E p \in Indexers :
          \/ \E s \in Scopes : Begin(p, s)
          \/ \E f \in Files : Visit(p, f) \/ Skip(p, f)
          \/ Finish(p)
          \/ Cancel(p)
          \/ Fail(p)
    \/ \E f \in Files : Edit(f)

FilesSpec == FilesInit /\ [][FilesNext]_fileVars

(***************************************************************************)
(* Properties.                                                             *)
(***************************************************************************)
FilesTypeOK ==
    /\ files \in [Files -> Metas \cup {Missing}]
    /\ rows \in [Files -> Row \cup {Missing}]
    /\ newRows \in [Files -> Row \cup {Missing}]
    /\ terms \in [Files -> Scopes \cup {Missing}]
    /\ newTerms \in [Files -> Scopes \cup {Missing}]
    /\ generation \in [Scopes -> 0..MaxGeneration]
    /\ writer \in Indexers \cup {Missing}
    /\ scan \in [Indexers -> Scan \cup {Missing}]
    /\ refreshes \in 0..MaxRefreshes
    /\ edits \in 0..MaxEdits

\* The full-text table names exactly the indexed files, whatever scans were
\* cancelled, failed or overlapped: a search, which joins the two, neither
\* misses a record nor returns a ghost (search, lib.rs:254-290).
SearchTableMatchesRows == \A f \in Files : terms[f] # Missing <=> rows[f] # Missing

\* The records of a scope.
RecordsOf(table, s) == {f \in Files : table[f] # Missing /\ table[f].scope = s}
Ends(p) == scan[p] # Missing /\ scan'[p] = Missing

\* A record disappears only at the end of a complete scan of its scope that
\* did not see the file; a cancelled or failed scan deletes nothing, although
\* it has written part of its rows (refresh, lib.rs:113-114).
OnlyCompleteScansRemove ==
    [][\A f \in Files : rows[f] # Missing /\ rows'[f] = Missing =>
          \E p \in Indexers :
             /\ Ends(p) /\ scan[p].left = {}
             /\ f \notin scan[p].seen
             /\ rows[f].scope = scan[p].scope]_fileVars

\* The records of a scope after a complete scan are the files the scan saw,
\* when no record of the scope carried its generation before: not even a scan
\* that started from an older generation and was overtaken leaves any other.
FreshScanIsExact ==
    [][\A p \in Indexers :
          Ends(p) /\ generation' # generation
             /\ (\A f \in RecordsOf(rows, scan[p].scope) :
                     rows[f].generation # scan[p].generation)
          => RecordsOf(rows', scan[p].scope) = scan[p].seen]_fileVars

\* "Records removed because files disappeared" (IndexReport): the records of a
\* scope after a complete scan are the files it saw.  A cancelled scan that has
\* committed rows of the generation the next one uses refutes it.
CompleteScanIsExact ==
    [][\A p \in Indexers : Ends(p) /\ generation' # generation =>
          RecordsOf(rows', scan[p].scope) = scan[p].seen]_fileVars
=============================================================================
