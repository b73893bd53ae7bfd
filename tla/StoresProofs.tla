------------------------- MODULE StoresProofs -------------------------
(***************************************************************************)
(* What a device keeps on disk, for any content and any processes that use *)
(* it: the SQLite databases (the clipboard history with its blobs, the     *)
(* user's tools, the file index), and the files it replaces by a rename    *)
(* (launcher.json, the exchange rates, the registry's index and packages,  *)
(* the blobs it fetches); last the palette's pairing, which ends in the    *)
(* table of trusted devices, and its list of devices nearby.               *)
(*                                                                         *)
(* History: a capture is several steps and may be cut off after each; the  *)
(* invariant says what must be on disk before the next one.  Tools:        *)
(* between the statements of a transaction its two tables disagree about   *)
(* one tool; the invariant says about which, and how, after each of them.  *)
(* Files: what a search finds and what disappears depends on what the      *)
(* writer has done but not committed; the invariant says what the writer's *)
(* view of the table is: the rows its scan wrote, each with the scope and  *)
(* the generation of the scan, and elsewhere the committed rows.           *)
(*                                                                         *)
(* A write that is cut off leaves half a temporary file, and a rename      *)
(* publishes whatever is there.  The last three invariants say why what is *)
(* renamed is whole: the rates because of a lock; launcher.json, the       *)
(* registry and a fetched blob, which nothing locks, until two writers of  *)
(* one file meet.                                                          *)
(*                                                                         *)
(* Pairing: its thread, its channel to the palette, the question to the    *)
(* user and the channel back are at one of nine points together, and every *)
(* other pairing is over.                                                  *)
(***************************************************************************)
EXTENDS ClipboardHistory, UserTools, FileIndex, LauncherPreferences, RateCache,
        ExtensionRegistry, BlobFetch, NearbyPanel, Discovery, FiniteSetTheorems,
        SequenceTheorems, TLAPS

(***************************************************************************)
(* The clipboard history.                                                  *)
(***************************************************************************)
CaptureState ==
    [phase : {"off", "starting", "idle", "put", "rename", "insert"},
     seen : Values \cup {Nothing}, value : Captured \cup {Nothing}, remote : BOOLEAN]

\* What a capture has at hand: a value that needs a blob, or one whose row can
\* be written because its blob is complete.
Underway(step) ==
    /\ step.phase \in {"put", "rename"} => step.value \in Rich
    /\ step.phase = "insert" =>
          step.value \in Captured /\ (step.value \in Rich => step.value \in blobFiles)

HistoryInv ==
    /\ HistoryTypeOK
    /\ Restorable
    /\ \A c \in Capturers : Underway(capture[c])

\* The table is empty and nothing runs.
LEMMA InitHistoryInv == HistoryInit => HistoryInv
  BY DEF HistoryInit, HistoryInv, HistoryTypeOK, Restorable, Underway, Stopped, Values

\* A step that adds no value to the table or the list, and lets captures be.
LEMMA RowsKeepHistoryInv ==
  ASSUME HistoryInv, UNCHANGED <<blobFiles, temporaries, nextItem>>,
         board' \in Values \cup {Nothing}, items' \subseteq Item, shown' \subseteq Item,
         watchLock' \in Launchers \cup {Nobody},
         launcher' \in [Launchers -> {"idle", "probing", "spawning"}],
         \A item \in items' \cup shown' : \E old \in items \cup shown : old.value = item.value,
         capture' \in [Capturers -> CaptureState], \A c \in Capturers : Underway(capture'[c])
  PROVE  HistoryInv'
<1>1. HistoryTypeOK'
  BY DEF HistoryInv, HistoryTypeOK, CaptureState
<1>2. Restorable'
  BY DEF HistoryInv, Restorable, HasContent
<1>3. \A c \in Capturers : Underway(capture[c])'
  BY DEF Underway
<1> QED
  BY <1>1, <1>2, <1>3 DEF HistoryInv

\* What a step that touches no row or file leaves to be shown.
LEMMA HistoryFacts ==
  ASSUME HistoryInv
  PROVE  /\ board \in Values \cup {Nothing} /\ items \subseteq Item /\ shown \subseteq Item
         /\ watchLock \in Launchers \cup {Nobody}
         /\ launcher \in [Launchers -> {"idle", "probing", "spawning"}]
         /\ capture \in [Capturers -> CaptureState]
         /\ \A c \in Capturers : Underway(capture[c])
         /\ nextItem \in Nat /\ blobFiles \subseteq Rich /\ temporaries \subseteq Rich \X Capturers
  BY DEF HistoryInv, HistoryTypeOK, CaptureState

\* A capturer goes to a phase that asks for nothing.
LEMMA ToFacts ==
  ASSUME HistoryInv, NEW c \in Capturers, NEW phase \in {"off", "starting", "idle"}, To(c, phase)
  PROVE  capture' \in [Capturers -> CaptureState] /\ \A d \in Capturers : Underway(capture'[d])
<1> PICK step : step = [capture[c] EXCEPT !.phase = phase]
  OBVIOUS
<1>1. capture' = [capture EXCEPT ![c] = step]
  BY DEF To
<1>2. step \in CaptureState /\ step.phase = phase
  BY HistoryFacts DEF CaptureState
<1> QED
  BY <1>1, <1>2, HistoryFacts DEF Underway

LEMMA EndedFacts ==
  ASSUME HistoryInv, NEW c \in Capturers, Ended(c)
  PROVE  /\ capture' \in [Capturers -> CaptureState] /\ \A d \in Capturers : Underway(capture'[d])
         /\ watchLock' \in Launchers \cup {Nobody}
<1>1. Stopped \in CaptureState /\ Underway(Stopped)
  BY DEF Stopped, CaptureState, Underway
<1>2. capture' = [capture EXCEPT ![c] = Stopped]
  BY DEF Ended
<1>3. watchLock' \in {watchLock, Nobody}
  BY DEF Ended
<1> QED
  BY <1>1, <1>2, <1>3, HistoryFacts

\* The probe, the watcher's start and its end touch no row or file.
LEMMA WatcherKeepsHistoryInv ==
  ASSUME HistoryInv,
         \/ \E l \in Launchers : Probe(l) \/ Ensure(l)
         \/ StartHistorySession
         \/ \E c \in Capturers : PollFails(c) \/ TemporaryInTheWay(c) \/ CrashCapturer(c)
  PROVE  HistoryInv'
<1>1. UNCHANGED <<board, items, nextItem, blobFiles, temporaries, shown>>
  BY DEF Probe, Ensure, EndProbe, SpawnWatcher, StartWatcher, StartHistorySession, PollFails,
         TemporaryInTheWay, CrashCapturer, store
<1> DEFINE Locks == /\ watchLock' \in Launchers \cup {Nobody}
                    /\ launcher' \in [Launchers -> {"idle", "probing", "spawning"}]
           Captures == /\ capture' \in [Capturers -> CaptureState]
                       /\ \A d \in Capturers : Underway(capture'[d])
<1>2. Locks /\ Captures
  <2>1. ASSUME NEW l \in Launchers, Probe(l) \/ EndProbe(l)
        PROVE  Locks /\ Captures
    BY <2>1, HistoryFacts DEF Probe, EndProbe, DropProbeLock
  <2>2. ASSUME NEW l \in Launchers, SpawnWatcher(l)
        PROVE  Locks /\ Captures
    <3>1. To(l, "starting") /\ UNCHANGED watchLock /\ l \in Capturers
          /\ launcher' = [launcher EXCEPT ![l] = "idle"]
      BY <2>2 DEF SpawnWatcher, Capturers
    <3> QED BY <3>1, ToFacts, HistoryFacts
  <2>3. ASSUME NEW l \in Launchers, StartWatcher(l)
        PROVE  Locks /\ Captures
    <3>1. (To(l, "idle") \/ To(l, "off")) /\ UNCHANGED launcher /\ l \in Capturers
          /\ watchLock' \in {watchLock, l}
      BY <2>3 DEF StartWatcher, Capturers
    <3> QED BY <3>1, ToFacts, HistoryFacts
  <2>4. CASE StartHistorySession
    <3>1. To(Session, "idle") /\ UNCHANGED <<watchLock, launcher>> /\ Session \in Capturers
      BY <2>4 DEF StartHistorySession, Capturers
    <3> QED BY <3>1, ToFacts, HistoryFacts
  <2>5. ASSUME NEW c \in Capturers, PollFails(c) \/ TemporaryInTheWay(c) \/ CrashCapturer(c)
        PROVE  Locks /\ Captures
    <3>1. Ended(c) /\ UNCHANGED launcher
      BY <2>5 DEF PollFails, TemporaryInTheWay, CrashCapturer
    <3> QED BY <3>1, EndedFacts, HistoryFacts
  <2> QED BY <2>1, <2>2, <2>3, <2>4, <2>5, HistoryFacts DEF Ensure
<1> QED
  BY <1>1, <1>2, HistoryFacts, RowsKeepHistoryInv

\* Polling, and an event from a peer, begin a capture.
LEMMA BeginKeepsHistoryInv ==
  ASSUME HistoryInv,
         \/ \E c \in Capturers : PollClipboard(c)
         \/ \E value \in RemoteValues, applied \in BOOLEAN : Receive(value, applied)
  PROVE  HistoryInv'
<1>1. ASSUME NEW c \in Capturers, NEW value \in Captured, NEW seen \in Values \cup {Nothing},
             NEW remote \in BOOLEAN, UNCHANGED <<store, watchLock, launcher, shown>>,
             board' \in {board, value},
             capture' = [capture EXCEPT ![c] = [phase |-> FirstStep(value), seen |-> seen,
                                                value |-> value, remote |-> remote]]
      PROVE  HistoryInv'
  <2> PICK step : step = [phase |-> FirstStep(value), seen |-> seen, value |-> value,
                          remote |-> remote]
    OBVIOUS
  <2>1. step \in CaptureState /\ Underway(step)
    BY DEF CaptureState, Underway, FirstStep
  <2>2. capture' \in [Capturers -> CaptureState] /\ \A d \in Capturers : Underway(capture'[d])
    BY <1>1, <2>1, HistoryFacts
  <2>3. UNCHANGED <<items, nextItem, blobFiles, temporaries, watchLock, launcher, shown>>
    BY <1>1 DEF store
  <2>4. board' \in Values \cup {Nothing}
    BY <1>1, HistoryFacts DEF Values
  <2> QED BY <2>2, <2>3, <2>4, HistoryFacts, RowsKeepHistoryInv
<1>2. ASSUME NEW c \in Capturers, PollClipboard(c)
      PROVE  HistoryInv'
  BY <1>1, <1>2 DEF PollClipboard, Values
<1>3. ASSUME NEW value \in RemoteValues, NEW applied \in BOOLEAN, Receive(value, applied)
      PROVE  HistoryInv'
  <2> PICK seen : seen = IF applied THEN value ELSE capture[Session].seen
    OBVIOUS
  <2>1. /\ capture' = [capture EXCEPT ![Session] =
                          [phase |-> FirstStep(value), seen |-> seen, value |-> value,
                           remote |-> TRUE]]
        /\ UNCHANGED <<store, watchLock, launcher, shown>> /\ board' \in {board, value}
    BY <1>3 DEF Receive
  <2>2. Session \in Capturers /\ value \in Captured
    BY HistoryAssumption DEF Capturers, Captured
  <2>3. seen \in Values \cup {Nothing}
    BY <2>2, HistoryFacts DEF CaptureState, Values
  <2> QED BY <1>1, <2>1, <2>2, <2>3
<1> QED
  BY <1>2, <1>3

\* A blob is complete before its row is written, and blobs are never taken away.
LEMMA PersistKeepsHistoryInv ==
  ASSUME HistoryInv, NEW c \in Capturers,
         BlobPresent(c) \/ CreateTemporary(c) \/ RenameBlob(c) \/ InsertItem(c)
  PROVE  HistoryInv'
<1>1. /\ capture[c] \in CaptureState /\ Underway(capture[c])
      /\ UNCHANGED <<board, watchLock, launcher, shown>>
  BY HistoryFacts DEF BlobPresent, CreateTemporary, RenameBlob, InsertItem, store
<1>2. ASSUME NEW phase \in {"idle", "rename", "insert"}, To(c, phase),
             blobFiles \subseteq blobFiles', blobFiles' \subseteq Rich,
             phase = "rename" => capture[c].value \in Rich,
             phase = "insert" => capture[c].value \in Rich /\ capture[c].value \in blobFiles',
             temporaries' \subseteq Rich \X Capturers, nextItem' \in Nat, items' \subseteq Item,
             \A item \in items' \ items : item.value \in Rich => item.value \in blobFiles'
      PROVE  HistoryInv'
  <2> PICK step : step = [capture[c] EXCEPT !.phase = phase]
    OBVIOUS
  <2>1. capture' = [capture EXCEPT ![c] = step]
    BY <1>2 DEF To
  <2>2. step \in CaptureState /\ step.phase = phase /\ step.value = capture[c].value
    BY <1>1 DEF CaptureState
  <2>3. capture' \in [Capturers -> CaptureState]
    BY <2>1, <2>2, HistoryFacts
  <2>4. HistoryTypeOK'
    BY <1>1, <1>2, <2>3, HistoryFacts DEF HistoryTypeOK, CaptureState
  <2>5. Restorable'
    BY <1>1, <1>2 DEF HistoryInv, Restorable, HasContent
  <2>6. ASSUME NEW d \in Capturers
        PROVE  Underway(capture[d])'
    <3>1. CASE d = c
      <4>1. capture'[d] = step
        BY <2>1, <3>1, HistoryFacts
      <4> QED BY <1>2, <2>2, <4>1 DEF Underway, Captured
    <3>2. CASE d # c
      <4>1. capture'[d] = capture[d]
        BY <2>1, <3>2, HistoryFacts
      <4> QED BY <1>2, <4>1, HistoryFacts DEF Underway
    <3> QED BY <3>1, <3>2
  <2> QED BY <2>4, <2>5, <2>6 DEF HistoryInv
<1>3. CASE BlobPresent(c)
  BY <1>1, <1>2, <1>3, HistoryFacts DEF BlobPresent, Underway, store
<1>4. CASE CreateTemporary(c)
  BY <1>1, <1>2, <1>4, HistoryFacts DEF CreateTemporary, Underway
<1>5. CASE RenameBlob(c)
  BY <1>1, <1>2, <1>5, HistoryFacts DEF RenameBlob, Underway
<1>6. CASE InsertItem(c)
  <2> PICK item : item = [id |-> nextItem, value |-> capture[c].value,
                          remote |-> capture[c].remote, pinned |-> FALSE]
    OBVIOUS
  <2>1. /\ items' = items \cup {item} /\ nextItem' = nextItem + 1 /\ To(c, "idle")
        /\ UNCHANGED <<blobFiles, temporaries>> /\ capture[c].phase = "insert"
    BY <1>6 DEF InsertItem
  <2>2. item \in Item /\ item.value = capture[c].value
    BY <1>1, <2>1, HistoryFacts DEF Underway, CaptureState, Item
  <2>3. items' \subseteq Item /\ nextItem' \in Nat
    <3>1. items \subseteq Item /\ nextItem \in Nat
      BY HistoryFacts, Zenon
    <3>2. items \cup {item} \subseteq Item
      BY <2>2, <3>1, Zenon
    <3>3. nextItem + 1 \in Nat
      BY <3>1
    <3> QED BY <2>1, <3>2, <3>3, Zenon
  <2>4. \A new \in items' \ items : new.value \in Rich => new.value \in blobFiles'
    BY <1>1, <2>1, <2>2 DEF Underway
  <2> QED BY <1>2, <2>1, <2>3, <2>4, HistoryFacts
<1> QED
  BY <1>3, <1>4, <1>5, <1>6

LEMMA WithPinFacts ==
  ASSUME HistoryInv, NEW id, NEW pinned \in BOOLEAN
  PROVE  /\ WithPin(id, pinned) \subseteq Item
         /\ \A item \in WithPin(id, pinned) : \E old \in items : old.value = item.value
<1>1. ASSUME NEW old \in items
      PROVE  [old EXCEPT !.pinned = pinned] \in Item
             /\ [old EXCEPT !.pinned = pinned].value = old.value
  BY HistoryFacts DEF Item
<1> QED
  BY <1>1, HistoryFacts DEF WithPin

\* The palette and the command line take rows away, mark them or show them.
LEMMA UserKeepsHistoryInv ==
  ASSUME HistoryInv,
         \/ \E kind \in Kinds :
               \/ SearchHistory(kind)
               \/ \E item \in shown : TogglePin(item, kind) \/ RemoveShown(item, kind)
         \/ \E item \in shown : Restore(item)
         \/ \E item \in items : \/ \E pinned \in BOOLEAN : CliPin(item.id, pinned)
                                 \/ CliRemove(item.id)
         \/ \E cutoff \in 1..nextItem : Prune(cutoff)
         \/ \E value \in Values : Copy(value)
  PROVE  HistoryInv'
<1>1. UNCHANGED <<nextItem, blobFiles, temporaries, watchLock, launcher, capture>>
  BY DEF SearchHistory, TogglePin, RemoveShown, Restore, CliPin, CliRemove, Prune, Copy, Removal,
         store
<1>2. ASSUME NEW kind, NEW table, table \subseteq Item
      PROVE  Visible(table, kind) \subseteq table
  BY DEF Visible
<1> DEFINE Board == board' \in Values \cup {Nothing}
           Rows == /\ items' \subseteq Item /\ shown' \subseteq Item
                   /\ \A item \in items' \cup shown' :
                         \E old \in items \cup shown : old.value = item.value
<1>3. ASSUME NEW kind \in Kinds, SearchHistory(kind)
      PROVE  Board /\ Rows
  BY <1>2, <1>3, HistoryFacts DEF SearchHistory, store
<1>4. ASSUME NEW kind \in Kinds, NEW item \in shown, TogglePin(item, kind) \/ RemoveShown(item, kind)
      PROVE  Board /\ Rows
  <2>1. items' \subseteq Item /\ \A new \in items' : \E old \in items : old.value = new.value
    <3>1. CASE TogglePin(item, kind)
      <4>1. items' = WithPin(item.id, ~ item.pinned) /\ (~ item.pinned) \in BOOLEAN
        BY <3>1 DEF TogglePin
      <4> QED BY <4>1, WithPinFacts
    <3>2. CASE RemoveShown(item, kind)
      BY <3>2, HistoryFacts DEF RemoveShown, Removal
    <3> QED BY <1>4, <3>1, <3>2
  <2>2. shown' = Visible(items', kind) /\ UNCHANGED board
    BY <1>4 DEF TogglePin, RemoveShown
  <2> QED BY <2>1, <2>2, HistoryFacts DEF Visible
<1>5. ASSUME NEW item \in shown, Restore(item)
      PROVE  Board /\ Rows
  BY <1>5, HistoryFacts DEF Restore, store, Item, Values
<1>6. ASSUME NEW item \in items, NEW pinned \in BOOLEAN, CliPin(item.id, pinned)
      PROVE  Board /\ Rows
  <2>1. items' = WithPin(item.id, pinned) /\ UNCHANGED <<board, shown>>
    BY <1>6 DEF CliPin
  <2> QED BY <2>1, WithPinFacts, HistoryFacts
<1>7. ASSUME NEW item \in items, CliRemove(item.id)
      PROVE  Board /\ Rows
  BY <1>7, HistoryFacts DEF CliRemove, Removal
<1>8. ASSUME NEW cutoff \in 1..nextItem, Prune(cutoff)
      PROVE  Board /\ Rows
  BY <1>8, HistoryFacts DEF Prune
<1>9. ASSUME NEW value \in Values, Copy(value)
      PROVE  Board /\ Rows
  BY <1>9, HistoryFacts DEF Copy, store
<1>10. Board /\ Rows
  BY <1>3, <1>4, <1>5, <1>6, <1>7, <1>8, <1>9
<1> QED
  BY <1>1, <1>10, HistoryFacts, RowsKeepHistoryInv

LEMMA NextHistoryInv == HistoryInv /\ [HistoryNext]_historyVars => HistoryInv'
<1>1. ASSUME HistoryInv, UNCHANGED historyVars
      PROVE  HistoryInv'
  BY <1>1, HistoryFacts, RowsKeepHistoryInv DEF historyVars
<1>2. ASSUME HistoryInv, HistoryNext
      PROVE  HistoryInv'
  BY <1>2, WatcherKeepsHistoryInv, BeginKeepsHistoryInv, PersistKeepsHistoryInv, UserKeepsHistoryInv
     DEF HistoryNext, Progress
<1> QED
  BY <1>1, <1>2

\* What a capture rests on is on disk before it goes on, whoever crashes, removes
\* or captures the same meanwhile (persist of sync/lib.rs, put of storage/blob.rs).
THEOREM HistoryInvariant == HistorySpec => []HistoryInv
  BY InitHistoryInv, NextHistoryInv, PTL DEF HistorySpec

\* The table, the files and the processes have their types.
THEOREM HistoryTypeCorrect == HistorySpec => []HistoryTypeOK
<1>1. HistoryInv => HistoryTypeOK
  BY DEF HistoryInv
<1> QED
  BY <1>1, HistoryInvariant, PTL

\* Whatever is in the table or shown by the palette can be put back on the
\* clipboard (restore_history_value of ui/clipboard_history.rs).
THEOREM HistoryIsRestorable == HistorySpec => []Restorable
<1>1. HistoryInv => Restorable
  BY DEF HistoryInv
<1> QED
  BY <1>1, HistoryInvariant, PTL

(***************************************************************************)
(* The user's tools.                                                       *)
(***************************************************************************)
\* The full-text table has the text of a tool, and nothing for one that is not.
FollowsAt(table, words, id) ==
    words[id] = IF table[id] = NoTool THEN {} ELSE {table[id].text}

FollowsBut(table, words, but) == \A id \in ToolIds \ but : FollowsAt(table, words, id)

\* UNIQUE (keyword).
Unique(table) ==
    \A a, b \in ToolIds :
       table[a] # NoTool /\ table[b] # NoTool /\ table[a].keyword = table[b].keyword
         /\ table[a].keyword # NoKeyword => a = b

\* How far the statements of a transaction are.
Halfway(t) ==
    /\ Unique(t.rows)
    /\ FollowsBut(t.rows, t.terms, IF t.next \in {"upsert", "commit"} THEN {} ELSE {t.id})
    /\ t.next = "upsert" => t.row # NoTool
    /\ t.next = "unindex" /\ t.row # NoTool => t.rows[t.id] = t.row
    /\ t.next = "index" => t.row # NoTool /\ t.rows[t.id] = t.row /\ t.terms[t.id] = {}
    /\ t.next = "remove" => t.terms[t.id] = {}

ToolsInv ==
    /\ ToolsTypeOK
    /\ Unique(toolRows) /\ FollowsBut(toolRows, toolTerms, {})
    /\ transaction # NoTool => Halfway(transaction)

\* The store starts empty.
LEMMA InitToolsInv == ToolsInit => ToolsInv
  BY UserToolsAssumption
     DEF ToolsInit, ToolsInv, ToolsTypeOK, ToolTable, TermTable, Unique, FollowsBut, FollowsAt

\* A transaction starts with what is committed.
LEMMA BeginKeepsToolsInv ==
  ASSUME ToolsInv, NEW id \in ToolIds,
         (\E row \in ToolRow : SaveTool(id, row)) \/ DeleteTool(id)
  PROVE  ToolsInv'
<1>1. PICK statement \in {"upsert", "unindex"}, row \in ToolRow \cup {NoTool} :
        /\ BeginWith(statement, id, row)
        /\ statement = "upsert" <=> row # NoTool
  BY NoToolAssumption DEF SaveTool, DeleteTool
<1> DEFINE t == [next |-> statement, id |-> id, row |-> row, rows |-> toolRows,
                 terms |-> toolTerms]
<1>2. /\ transaction' = t /\ toolRows' = toolRows /\ toolTerms' = toolTerms
      /\ toolChanges' \in 0..MaxToolChanges
  BY <1>1, UserToolsAssumption DEF BeginWith, ToolsInv, ToolsTypeOK
<1>3. t \in Transaction
  BY DEF ToolsInv, ToolsTypeOK, Transaction
<1>4. Halfway(t)
  BY <1>1 DEF Halfway, ToolsInv, FollowsBut
<1> HIDE DEF t
<1> QED
  BY <1>2, <1>3, <1>4 DEF ToolsInv, ToolsTypeOK, Unique, FollowsBut, FollowsAt

\* A statement of a transaction leaves the committed tables alone.
LEMMA StatementKeepsToolsInv ==
  ASSUME ToolsInv, toolRows' = toolRows, toolTerms' = toolTerms, toolChanges' = toolChanges,
         transaction' = NoTool \/ (transaction' \in Transaction /\ Halfway(transaction'))
  PROVE  ToolsInv'
  BY DEF ToolsInv, ToolsTypeOK, Unique, FollowsBut, FollowsAt

LEMMA UpsertKeepsToolsInv == ToolsInv /\ UpsertRow => ToolsInv'
<1> SUFFICES ASSUME ToolsInv, UpsertRow PROVE ToolsInv'
  OBVIOUS
<1> DEFINE t == transaction
           table == [t.rows EXCEPT ![t.id] = t.row]
<1>1. /\ t \in Transaction /\ t.next = "upsert" /\ Halfway(t)
      /\ toolRows' = toolRows /\ toolTerms' = toolTerms /\ toolChanges' = toolChanges
  BY DEF ToolsInv, ToolsTypeOK, UpsertRow, At, RestUnchanged
<1>2. t.row \in ToolRow /\ t.rows \in ToolTable /\ t.id \in ToolIds /\ t.terms \in TermTable
  BY <1>1 DEF Transaction, Halfway
<1>3. CASE KeywordTaken(t.rows, t.id, t.row)
  BY <1>1, <1>3, StatementKeepsToolsInv DEF UpsertRow
<1>4. CASE ~KeywordTaken(t.rows, t.id, t.row)
  <2>1. table \in ToolTable /\ table[t.id] = t.row
        /\ \A id \in ToolIds \ {t.id} : table[id] = t.rows[id]
    BY <1>2 DEF ToolTable
  <2>2. transaction' = [next |-> "unindex", id |-> t.id, row |-> t.row, rows |-> table,
                        terms |-> t.terms]
    BY <1>1, <1>4 DEF UpsertRow, Transaction
  <2> HIDE DEF table
  <2>3. Unique(table)
    BY <1>1, <1>2, <1>4, <2>1 DEF Unique, Halfway, KeywordTaken
  <2>4. FollowsBut(table, t.terms, {t.id})
    BY <1>1, <2>1 DEF FollowsBut, FollowsAt, Halfway
  <2>5. transaction' \in Transaction
    BY <1>2, <2>1, <2>2 DEF Transaction
  <2>6. Halfway(transaction')
    BY <2>1, <2>2, <2>3, <2>4 DEF Halfway
  <2> QED
    BY <1>1, <2>5, <2>6, StatementKeepsToolsInv
<1> QED
  BY <1>3, <1>4

LEMMA UnindexKeepsToolsInv == ToolsInv /\ UnindexRow => ToolsInv'
<1> SUFFICES ASSUME ToolsInv, UnindexRow PROVE ToolsInv'
  OBVIOUS
<1> DEFINE t == transaction
           words == [t.terms EXCEPT ![t.id] = {}]
           next == IF t.row = NoTool THEN "remove" ELSE "index"
<1>1. /\ t \in Transaction /\ t.next = "unindex" /\ Halfway(t)
      /\ toolRows' = toolRows /\ toolTerms' = toolTerms /\ toolChanges' = toolChanges
  BY DEF ToolsInv, ToolsTypeOK, UnindexRow, At, RestUnchanged
<1>2. /\ t.row \in ToolRow \cup {NoTool} /\ t.rows \in ToolTable
      /\ t.id \in ToolIds /\ t.terms \in TermTable
  BY <1>1 DEF Transaction
<1>3. words \in TermTable /\ words[t.id] = {}
      /\ \A id \in ToolIds \ {t.id} : words[id] = t.terms[id]
  BY <1>2 DEF TermTable
<1>4. transaction' = [next |-> next, id |-> t.id, row |-> t.row, rows |-> t.rows,
                      terms |-> words]
  BY <1>1 DEF UnindexRow, Transaction
<1> HIDE DEF words
<1>5. Unique(t.rows) /\ FollowsBut(t.rows, words, {t.id})
  BY <1>1, <1>3 DEF FollowsBut, FollowsAt, Halfway
<1>6. transaction' \in Transaction
  BY <1>2, <1>3, <1>4 DEF Transaction
<1>7. Halfway(transaction')
  BY <1>1, <1>3, <1>4, <1>5 DEF Halfway
<1> QED
  BY <1>1, <1>6, <1>7, StatementKeepsToolsInv

LEMMA IndexKeepsToolsInv == ToolsInv /\ IndexRow => ToolsInv'
<1> SUFFICES ASSUME ToolsInv, IndexRow PROVE ToolsInv'
  OBVIOUS
<1> DEFINE t == transaction
           words == [t.terms EXCEPT ![t.id] = @ \cup {t.row.text}]
<1>1. /\ t \in Transaction /\ t.next = "index" /\ Halfway(t)
      /\ toolRows' = toolRows /\ toolTerms' = toolTerms /\ toolChanges' = toolChanges
  BY DEF ToolsInv, ToolsTypeOK, IndexRow, At, RestUnchanged
<1>2. /\ t.row \in ToolRow /\ t.rows \in ToolTable /\ t.rows[t.id] = t.row
      /\ t.id \in ToolIds /\ t.terms \in TermTable /\ t.terms[t.id] = {}
  BY <1>1 DEF Transaction, Halfway
<1>3. words \in TermTable /\ words[t.id] = {t.row.text}
      /\ \A id \in ToolIds \ {t.id} : words[id] = t.terms[id]
  BY <1>2 DEF TermTable, ToolRow
<1>4. transaction' = [next |-> "commit", id |-> t.id, row |-> t.row, rows |-> t.rows,
                      terms |-> words]
  BY <1>1 DEF IndexRow, Transaction
<1> HIDE DEF words
<1>5. Unique(t.rows) /\ FollowsBut(t.rows, words, {})
  BY <1>1, <1>2, <1>3, NoToolAssumption DEF FollowsBut, FollowsAt, Halfway
<1>6. transaction' \in Transaction
  BY <1>2, <1>3, <1>4 DEF Transaction
<1>7. Halfway(transaction')
  BY <1>4, <1>5 DEF Halfway
<1> QED
  BY <1>1, <1>6, <1>7, StatementKeepsToolsInv

LEMMA RemoveKeepsToolsInv == ToolsInv /\ RemoveRow => ToolsInv'
<1> SUFFICES ASSUME ToolsInv, RemoveRow PROVE ToolsInv'
  OBVIOUS
<1> DEFINE t == transaction
           table == [t.rows EXCEPT ![t.id] = NoTool]
<1>1. /\ t \in Transaction /\ t.next = "remove" /\ Halfway(t)
      /\ toolRows' = toolRows /\ toolTerms' = toolTerms /\ toolChanges' = toolChanges
  BY DEF ToolsInv, ToolsTypeOK, RemoveRow, At, RestUnchanged
<1>2. /\ t.row \in ToolRow \cup {NoTool} /\ t.rows \in ToolTable
      /\ t.id \in ToolIds /\ t.terms \in TermTable /\ t.terms[t.id] = {}
  BY <1>1 DEF Transaction, Halfway
<1>3. table \in ToolTable /\ table[t.id] = NoTool
      /\ \A id \in ToolIds \ {t.id} : table[id] = t.rows[id]
  BY <1>2 DEF ToolTable
<1>4. transaction' = [next |-> "commit", id |-> t.id, row |-> t.row, rows |-> table,
                      terms |-> t.terms]
  BY <1>1 DEF RemoveRow, Transaction
<1> HIDE DEF table
<1>5. Unique(table) /\ FollowsBut(table, t.terms, {})
  <2>1. Unique(t.rows) /\ FollowsBut(t.rows, t.terms, {t.id})
    BY <1>1 DEF Halfway
  <2>2. Unique(table)
    BY <1>2, <1>3, <2>1 DEF Unique
  <2>3. FollowsBut(table, t.terms, {})
    BY <1>2, <1>3, <2>1 DEF FollowsBut, FollowsAt
  <2> QED
    BY <2>2, <2>3
<1>6. transaction' \in Transaction
  BY <1>2, <1>3, <1>4 DEF Transaction
<1>7. Halfway(transaction')
  BY <1>4, <1>5 DEF Halfway
<1> QED
  BY <1>1, <1>6, <1>7, StatementKeepsToolsInv

\* A transaction is whole when it commits, and as if it had not been otherwise.
LEMMA EndKeepsToolsInv == ToolsInv /\ (Commit \/ Abandon) => ToolsInv'
<1> SUFFICES ASSUME ToolsInv, Commit \/ Abandon PROVE ToolsInv'
  OBVIOUS
<1>1. CASE Abandon
  BY <1>1, StatementKeepsToolsInv DEF Abandon, Rollback
<1>2. CASE Commit
  <2> DEFINE t == transaction
  <2>1. /\ t \in Transaction /\ t.next = "commit" /\ Halfway(t)
        /\ toolRows' = t.rows /\ toolTerms' = t.terms /\ transaction' = NoTool
        /\ toolChanges' = toolChanges
    BY <1>2 DEF ToolsInv, ToolsTypeOK, Commit, At
  <2>2. t.rows \in ToolTable /\ t.terms \in TermTable
    BY <2>1 DEF Transaction
  <2>3. Unique(t.rows) /\ FollowsBut(t.rows, t.terms, {})
    BY <2>1 DEF Halfway
  <2> HIDE DEF t
  <2> QED
    BY <2>1, <2>2, <2>3 DEF ToolsInv, ToolsTypeOK, Unique, FollowsBut, FollowsAt
<1> QED
  BY <1>1, <1>2

LEMMA NextToolsInv == ToolsInv /\ [ToolsNext]_toolVars => ToolsInv'
<1> SUFFICES ASSUME ToolsInv, [ToolsNext]_toolVars PROVE ToolsInv'
  OBVIOUS
<1>1. ASSUME NEW id \in ToolIds, (\E row \in ToolRow : SaveTool(id, row)) \/ DeleteTool(id)
      PROVE  ToolsInv'
  BY <1>1, BeginKeepsToolsInv
<1>2. CASE UNCHANGED toolVars
  BY <1>2 DEF ToolsInv, ToolsTypeOK, Unique, FollowsBut, FollowsAt, toolVars
<1> QED
  BY <1>1, <1>2, UpsertKeepsToolsInv, UnindexKeepsToolsInv, IndexKeepsToolsInv,
     RemoveKeepsToolsInv, EndKeepsToolsInv DEF ToolsNext

\* A set without two different elements has at most one.
LEMMA AtMostOne ==
  ASSUME NEW S, \A a, b \in S : a = b
  PROVE  Cardinality(S) <= 1
<1>1. CASE S = {}
  BY <1>1, FS_EmptySet
<1>2. CASE S # {}
  <2>1. PICK x \in S : TRUE
    BY <1>2
  <2>2. S = {x}
    BY <2>1
  <2> QED
    BY <2>2, FS_Singleton
<1> QED
  BY <1>1, <1>2

\* Unique rows and a search table that follows them are what a reader relies on.
LEMMA InvFoundOnce == ToolsInv => ToolsFoundOnce
<1> SUFFICES ASSUME ToolsInv PROVE ToolsFoundOnce
  OBVIOUS
<1>1. \A id \in ToolIds : FollowsAt(toolRows, toolTerms, id)
  BY DEF ToolsInv, FollowsBut
<1>2. \A text \in Texts :
        FoundBy(text) = {id \in ToolIds : toolRows[id] # NoTool /\ toolRows[id].text = text}
  BY <1>1 DEF FoundBy, FollowsAt
<1>3. \A id \in ToolIds : toolRows[id] = NoTool => toolTerms[id] = {}
  BY <1>1 DEF FollowsAt
<1>4. ASSUME NEW keyword \in ToolKeywords PROVE Cardinality(NamedBy(keyword)) <= 1
  <2>1. \A a, b \in NamedBy(keyword) : a = b
    BY UserToolsAssumption DEF ToolsInv, Unique, NamedBy
  <2> QED
    BY <2>1, AtMostOne
<1> QED
  BY <1>2, <1>3, <1>4 DEF ToolsFoundOnce

\* The committed tables agree, and a transaction is ahead of them as far as its
\* statements are (save and delete of productivity/lib.rs).
THEOREM ToolsInvariant == ToolsSpec => []ToolsInv
  BY InitToolsInv, NextToolsInv, PTL DEF ToolsSpec

\* The tables and the transaction have their types.
THEOREM ToolsTypeCorrect == ToolsSpec => []ToolsTypeOK
<1>1. ToolsInv => ToolsTypeOK
  BY DEF ToolsInv
<1> QED
  BY <1>1, ToolsInvariant, PTL

\* A tool is found by its present text only, a removed one by nothing, and a
\* keyword names one tool, wherever a transaction is cut off (save and delete of
\* productivity/lib.rs).
THEOREM ToolsAreFoundOnce == ToolsSpec => []ToolsFoundOnce
  BY InvFoundOnce, ToolsInvariant, PTL

(***************************************************************************)
(* The file index.                                                         *)
(***************************************************************************)
Follows(table, search) == \A f \in Files : search[f] # Missing <=> table[f] # Missing

\* Only the writer has written, and without a writer nothing is pending.
OneWriter ==
    /\ writer # Missing => scan[writer] # Missing
    /\ \A p \in Indexers : scan[p] # Missing /\ p # writer => scan[p].seen = {}

Written(f) == writer # Missing /\ f \in scan[writer].seen

WriterView ==
    \A f \in Files :
       IF Written(f)
       THEN /\ newRows[f] # Missing
            /\ newRows[f].scope = scan[writer].scope
            /\ newRows[f].generation = scan[writer].generation
       ELSE newRows[f] = rows[f]

IndexInv ==
    /\ FilesTypeOK
    /\ Follows(rows, terms)
    /\ Follows(newRows, newTerms)
    /\ writer = Missing => newTerms = terms
    /\ OneWriter
    /\ WriterView

\* The index starts empty.
LEMMA InitIndexInv == FilesInit => IndexInv
<1> SUFFICES ASSUME FilesInit PROVE IndexInv
    OBVIOUS
<1>1. FilesTypeOK
    BY FileIndexAssumption DEF FilesInit, FilesTypeOK
<1>2. Follows(rows, terms) /\ Follows(newRows, newTerms) /\ newTerms = terms
    BY DEF FilesInit, Follows
<1>3. OneWriter /\ WriterView
    BY DEF FilesInit, OneWriter, WriterView, Written
<1> QED
    BY <1>1, <1>2, <1>3 DEF IndexInv

(***************************************************************************)
(* One lemma per action.                                                   *)
(***************************************************************************)
LEMMA BeginKeepsIndexInv ==
    ASSUME IndexInv, NEW p \in Indexers, NEW s \in Scopes, Begin(p, s)
    PROVE  IndexInv'
<1> USE FileIndexAssumption DEF IndexInv
<1>1. /\ scan[p] = Missing
      /\ scan' = [scan EXCEPT ![p] = [scope |-> s, generation |-> generation[s] + 1,
                                      left |-> Within[s], seen |-> {}]]
      /\ generation[s] < MaxGeneration
      /\ UNCHANGED <<files, rows, terms, generation, writer, newRows, newTerms, edits>>
    BY DEF Begin
<1>2. [scope |-> s, generation |-> generation[s] + 1, left |-> Within[s], seen |-> {}] \in Scan
    BY <1>1 DEF FilesTypeOK, Scan
<1>3. FilesTypeOK'
    BY <1>1, <1>2 DEF FilesTypeOK, Begin
<1>4. writer # p
    BY <1>1 DEF OneWriter, FilesTypeOK
<1>5. OneWriter'
    BY <1>1, <1>2, <1>4 DEF OneWriter, FilesTypeOK
<1>6. WriterView'
    BY <1>1, <1>4 DEF WriterView, Written, FilesTypeOK
<1>7. (Follows(rows, terms) /\ Follows(newRows, newTerms)
          /\ (writer = Missing => newTerms = terms))'
    BY <1>1 DEF Follows
<1> QED
    BY <1>3, <1>5, <1>6, <1>7

\* The entry a scan has come to moves from what is left to what it has seen.
LEMMA EntryReached ==
    ASSUME NEW r \in Scan, NEW f \in Files, NEW next,
           next = [r EXCEPT !.left = @ \ {f}, !.seen = @ \cup {f}]
    PROVE  /\ next \in Scan
           /\ next.seen = r.seen \cup {f}
           /\ next.scope = r.scope
           /\ next.generation = r.generation
BY DEF Scan

LEMMA VisitKeepsIndexInv ==
    ASSUME IndexInv, NEW p \in Indexers, NEW f \in Files, Visit(p, f)
    PROVE  IndexInv'
<1> USE FileIndexAssumption DEF IndexInv
<1> DEFINE row == [scope |-> scan[p].scope, meta |-> files[f],
                   generation |-> scan[p].generation]
<1>1. /\ scan[p] # Missing /\ scan[p] \in Scan /\ f \in scan[p].left
      /\ files[f] # Missing
      /\ writer \in {Missing, p} /\ writer' = p
      /\ newRows' = [newRows EXCEPT ![f] = row]
      /\ newTerms' = IF newRows[f] # Missing /\ newRows[f].meta = files[f] THEN newTerms
                     ELSE [newTerms EXCEPT ![f] = scan[p].scope]
      /\ scan' = [scan EXCEPT ![p].left = @ \ {f}, ![p].seen = @ \cup {f}]
      /\ UNCHANGED <<files, rows, terms, generation, refreshes, edits>>
    BY DEF Visit, MayWrite, Recorded, FilesTypeOK
<1>2. row \in Row /\ row # Missing /\ scan[p].scope # Missing
    BY <1>1 DEF FilesTypeOK, Row, Scan
<1>3. /\ scan'[p] = [scan[p] EXCEPT !.left = @ \ {f}, !.seen = @ \cup {f}]
      /\ \A q \in Indexers \ {p} : scan'[q] = scan[q]
    BY <1>1 DEF FilesTypeOK
<1>4. /\ scan'[p] \in Scan /\ scan'[p] # Missing
      /\ scan'[p].seen = scan[p].seen \cup {f}
      /\ scan'[p].scope = scan[p].scope
      /\ scan'[p].generation = scan[p].generation
  <2> DEFINE r == scan[p]
             next == scan'[p]
  <2>1. r \in Scan /\ next = [r EXCEPT !.left = @ \ {f}, !.seen = @ \cup {f}]
      BY <1>1, <1>3
  <2> HIDE DEF r, next
  <2>2. /\ next \in Scan
        /\ next.seen = r.seen \cup {f}
        /\ next.scope = r.scope
        /\ next.generation = r.generation
      BY <2>1, EntryReached
  <2>3. next # Missing
      BY <2>2
  <2> QED
      BY <2>2, <2>3 DEF r, next
<1>5. FilesTypeOK'
  <2>1. newRows' \in [Files -> Row \cup {Missing}]
      BY <1>1, <1>2 DEF FilesTypeOK
  <2>2. newTerms' \in [Files -> Scopes \cup {Missing}]
      BY <1>1 DEF FilesTypeOK, Scan
  <2>3. scan' \in [Indexers -> Scan \cup {Missing}]
      BY <1>1, <1>3, <1>4 DEF FilesTypeOK
  <2> QED
      BY <1>1, <2>1, <2>2, <2>3 DEF FilesTypeOK
<1>6. OneWriter'
    BY <1>1, <1>3, <1>4 DEF OneWriter, FilesTypeOK
<1>7. WriterView'
  <2> SUFFICES ASSUME NEW g \in Files
               PROVE  IF Written(g)' THEN /\ newRows'[g] # Missing
                                          /\ newRows'[g].scope = scan'[p].scope
                                          /\ newRows'[g].generation = scan'[p].generation
                      ELSE newRows'[g] = rows'[g]
      BY <1>1 DEF WriterView
  <2>1. /\ scan'[p].seen = scan[p].seen \cup {f}
        /\ scan'[p].scope = scan[p].scope
        /\ scan'[p].generation = scan[p].generation
      BY <1>4
  <2>2. Written(g)' <=> g \in scan[p].seen \cup {f}
      BY <1>1, <2>1, FileIndexAssumption DEF Written
  <2>3. CASE g = f
      BY <1>1, <1>2, <2>1, <2>2, <2>3 DEF FilesTypeOK
  <2>4. CASE g # f
    <3>1. newRows'[g] = newRows[g]
        BY <1>1, <2>4 DEF FilesTypeOK
    <3>2. Written(g) <=> g \in scan[p].seen
        BY <1>1 DEF Written, OneWriter
    <3>3. Written(g) => writer = p
        BY <1>1 DEF Written
    <3> QED
        BY <1>1, <2>1, <2>2, <2>4, <3>1, <3>2, <3>3 DEF WriterView
  <2> QED
      BY <2>3, <2>4
<1>8. Follows(newRows, newTerms)'
  <2> SUFFICES ASSUME NEW g \in Files
               PROVE  newTerms'[g] # Missing <=> newRows'[g] # Missing
      BY DEF Follows
  <2>1. CASE g = f
      BY <1>1, <1>2, <2>1 DEF Follows, FilesTypeOK
  <2>2. CASE g # f
      BY <1>1, <2>2 DEF Follows, FilesTypeOK
  <2> QED
      BY <2>1, <2>2
<1>9. Follows(rows, terms)' /\ writer' # Missing
    BY <1>1 DEF Follows
<1> QED
    BY <1>5, <1>6, <1>7, <1>8, <1>9

LEMMA SkipKeepsIndexInv ==
    ASSUME IndexInv, NEW p \in Indexers, NEW f \in Files, Skip(p, f)
    PROVE  IndexInv'
<1> USE FileIndexAssumption DEF IndexInv
<1>1. /\ scan[p] # Missing /\ scan[p] \in Scan
      /\ scan' = [scan EXCEPT ![p].left = @ \ {f}]
      /\ UNCHANGED <<files, rows, terms, generation, writer, newRows, newTerms,
                     refreshes, edits>>
    BY DEF Skip, FilesTypeOK
<1>2. /\ scan'[p] = [scan[p] EXCEPT !.left = @ \ {f}]
      /\ \A q \in Indexers \ {p} : scan'[q] = scan[q]
    BY <1>1 DEF FilesTypeOK
<1>3. /\ scan'[p] \in Scan /\ scan'[p] # Missing
      /\ scan'[p].seen = scan[p].seen
      /\ scan'[p].scope = scan[p].scope
      /\ scan'[p].generation = scan[p].generation
    BY <1>1, <1>2 DEF Scan
<1>4. FilesTypeOK'
    BY <1>1, <1>2, <1>3 DEF FilesTypeOK
<1>5. OneWriter'
    BY <1>1, <1>2, <1>3 DEF OneWriter, FilesTypeOK
<1>6. WriterView'
  <2>1. writer # Missing => /\ scan'[writer].seen = scan[writer].seen
                            /\ scan'[writer].scope = scan[writer].scope
                            /\ scan'[writer].generation = scan[writer].generation
      BY <1>2, <1>3 DEF FilesTypeOK
  <2> QED
      BY <1>1, <2>1 DEF WriterView, Written
<1>7. (Follows(rows, terms) /\ Follows(newRows, newTerms)
          /\ (writer = Missing => newTerms = terms))'
    BY <1>1 DEF Follows
<1> QED
    BY <1>4, <1>5, <1>6, <1>7

\* What the end of a scan leaves: a table and its search table that agree, and
\* no writer, is all a commit or a rollback has to establish.
LEMMA EndKeepsIndexInv ==
    ASSUME IndexInv, NEW p \in Indexers,
           scan[p] # Missing, EndOfScan(p),
           writer \in {Missing, p}, writer' = Missing,
           newRows' = rows', newTerms' = terms',
           rows' \in [Files -> Row \cup {Missing}],
           terms' \in [Files -> Scopes \cup {Missing}],
           generation' \in [Scopes -> 0..MaxGeneration],
           Follows(rows, terms)',
           UNCHANGED <<files, refreshes, edits>>
    PROVE  IndexInv'
<1> USE FileIndexAssumption DEF IndexInv
<1>1. scan' = [scan EXCEPT ![p] = Missing]
    BY DEF EndOfScan
<1>2. FilesTypeOK'
    BY <1>1 DEF FilesTypeOK
<1>3. OneWriter'
    BY <1>1 DEF OneWriter, FilesTypeOK
<1>4. WriterView'
    BY DEF WriterView, Written
<1>5. Follows(newRows, newTerms)'
    BY DEF Follows
<1> QED
    BY <1>2, <1>3, <1>4, <1>5

\* A writer's row is a committed one or one that its scan has just written, so
\* what a sweep spares and removes is known from the committed rows and the scan.
LEMMA Sweep ==
    ASSUME IndexInv, NEW p \in Indexers, scan[p] # Missing, writer \in {Missing, p},
           Swept(scan[p].scope, scan[p].generation), NEW f \in Files
    PROVE  /\ f \in scan[p].seen => /\ rows'[f] # Missing
                                    /\ rows'[f].scope = scan[p].scope
           /\ f \notin scan[p].seen =>
                 rows'[f] = IF StaleRow(rows[f], scan[p].scope, scan[p].generation)
                            THEN Missing ELSE rows[f]
<1>1. Written(f) <=> f \in scan[p].seen
    BY FileIndexAssumption DEF IndexInv, OneWriter, Written
<1>2. rows'[f] = IF StaleRow(newRows[f], scan[p].scope, scan[p].generation)
                 THEN Missing ELSE newRows[f]
    BY DEF Swept
<1>3. CASE Written(f)
  <2>1. writer = p
      BY <1>3 DEF Written
  <2> QED
      BY <1>1, <1>2, <1>3, <2>1 DEF IndexInv, WriterView, StaleRow
<1>4. CASE ~Written(f)
    BY <1>1, <1>2, <1>4 DEF IndexInv, WriterView
<1> QED
    BY <1>3, <1>4

LEMMA FinishKeepsIndexInv ==
    ASSUME IndexInv, NEW p \in Indexers, Finish(p)
    PROVE  IndexInv'
<1>1. /\ scan[p] # Missing /\ scan[p] \in Scan
      /\ writer \in {Missing, p} /\ writer' = Missing
      /\ newRows' = rows' /\ newTerms' = terms'
      /\ EndOfScan(p)
      /\ Swept(scan[p].scope, scan[p].generation)
      /\ generation' = [generation EXCEPT ![scan[p].scope] = scan[p].generation]
      /\ UNCHANGED <<files, refreshes, edits>>
    BY DEF Finish, MayWrite, IndexInv, FilesTypeOK
<1>2. generation' \in [Scopes -> 0..MaxGeneration]
    BY <1>1, FileIndexAssumption DEF IndexInv, FilesTypeOK, Scan
<1>3. rows' \in [Files -> Row \cup {Missing}] /\ terms' \in [Files -> Scopes \cup {Missing}]
    BY <1>1 DEF Swept, IndexInv, FilesTypeOK
<1>4. Follows(rows, terms)'
    BY <1>1, FileIndexAssumption DEF Swept, Follows, IndexInv
<1> QED
    BY <1>1, <1>2, <1>3, <1>4, EndKeepsIndexInv

LEMMA CancelKeepsIndexInv ==
    ASSUME IndexInv, NEW p \in Indexers, Cancel(p)
    PROVE  IndexInv'
<1>1. /\ scan[p] # Missing
      /\ writer \in {Missing, p} /\ writer' = Missing
      /\ newRows' = rows' /\ newTerms' = terms'
      /\ EndOfScan(p)
      /\ rows' = IF writer = p THEN newRows ELSE rows
      /\ terms' = IF writer = p THEN newTerms ELSE terms
      /\ UNCHANGED <<files, generation, refreshes, edits>>
    BY DEF Cancel, MayWrite, Unswept
<1>2. /\ generation' \in [Scopes -> 0..MaxGeneration]
      /\ rows' \in [Files -> Row \cup {Missing}]
      /\ terms' \in [Files -> Scopes \cup {Missing}]
    BY <1>1 DEF IndexInv, FilesTypeOK
<1>3. Follows(rows, terms)'
    BY <1>1 DEF Follows, IndexInv
<1> QED
    BY <1>1, <1>2, <1>3, EndKeepsIndexInv

LEMMA FailKeepsIndexInv ==
    ASSUME IndexInv, NEW p \in Indexers, Fail(p)
    PROVE  IndexInv'
<1>1. /\ scan[p] # Missing /\ EndOfScan(p)
      /\ UNCHANGED <<files, rows, terms, generation, refreshes, edits>>
    BY DEF Fail
<1>2. /\ generation' \in [Scopes -> 0..MaxGeneration]
      /\ rows' \in [Files -> Row \cup {Missing}]
      /\ terms' \in [Files -> Scopes \cup {Missing}]
      /\ Follows(rows, terms)'
    BY <1>1 DEF IndexInv, FilesTypeOK, Follows
<1>3. CASE writer = p
  <2>1. writer' = Missing /\ newRows' = rows' /\ newTerms' = terms'
      BY <1>1, <1>3 DEF Fail
  <2> QED
      BY <1>1, <1>2, <1>3, <2>1, EndKeepsIndexInv
<1>4. CASE writer # p
  <2>1. /\ UNCHANGED <<writer, newRows, newTerms>>
        /\ scan' = [scan EXCEPT ![p] = Missing]
      BY <1>4 DEF Fail, EndOfScan
  <2>2. FilesTypeOK'
      BY <1>1, <2>1 DEF IndexInv, FilesTypeOK
  <2>3. OneWriter'
      BY <1>4, <2>1 DEF IndexInv, OneWriter, FilesTypeOK
  <2>4. WriterView'
      BY <1>1, <1>4, <2>1 DEF IndexInv, WriterView, Written, FilesTypeOK
  <2>5. (Follows(newRows, newTerms) /\ (writer = Missing => newTerms = terms))'
      BY <1>1, <2>1 DEF IndexInv, Follows
  <2> QED
      BY <1>2, <2>2, <2>3, <2>4, <2>5 DEF IndexInv
<1> QED
    BY <1>3, <1>4

LEMMA EditKeepsIndexInv ==
    ASSUME IndexInv, NEW f \in Files, Edit(f)
    PROVE  IndexInv'
<1>1. /\ files' \in [Files -> Metas \cup {Missing}]
      /\ edits' \in 0..MaxEdits
      /\ UNCHANGED <<rows, terms, generation, writer, newRows, newTerms, scan, refreshes>>
    BY FileIndexAssumption DEF Edit, IndexInv, FilesTypeOK
<1> QED
    BY <1>1 DEF IndexInv, FilesTypeOK, Follows, OneWriter, WriterView, Written

LEMMA NextIndexInv == IndexInv /\ [FilesNext]_fileVars => IndexInv'
<1> SUFFICES ASSUME IndexInv, [FilesNext]_fileVars
             PROVE  IndexInv'
    OBVIOUS
<1>1. CASE UNCHANGED fileVars
    BY <1>1 DEF fileVars, IndexInv, FilesTypeOK, Follows, OneWriter, WriterView, Written
<1>2. ASSUME NEW p \in Indexers, NEW s \in Scopes, Begin(p, s)
      PROVE  IndexInv'
    BY <1>2, BeginKeepsIndexInv
<1>3. ASSUME NEW p \in Indexers, NEW f \in Files, Visit(p, f)
      PROVE  IndexInv'
    BY <1>3, VisitKeepsIndexInv
<1>4. ASSUME NEW p \in Indexers, NEW f \in Files, Skip(p, f)
      PROVE  IndexInv'
    BY <1>4, SkipKeepsIndexInv
<1>5. ASSUME NEW p \in Indexers, Finish(p)
      PROVE  IndexInv'
    BY <1>5, FinishKeepsIndexInv
<1>6. ASSUME NEW p \in Indexers, Cancel(p)
      PROVE  IndexInv'
    BY <1>6, CancelKeepsIndexInv
<1>7. ASSUME NEW p \in Indexers, Fail(p)
      PROVE  IndexInv'
    BY <1>7, FailKeepsIndexInv
<1>8. ASSUME NEW f \in Files, Edit(f)
      PROVE  IndexInv'
    BY <1>8, EditKeepsIndexInv
<1> QED
    BY <1>1, <1>2, <1>3, <1>4, <1>5, <1>6, <1>7, <1>8 DEF FilesNext

(***************************************************************************)
(* The theorems.                                                           *)
(***************************************************************************)
\* What the writer sees is always the committed rows and what its scan has
\* written since (refresh in files/src/lib.rs, its transaction).
THEOREM IndexInvariant == FilesSpec => []IndexInv
BY InitIndexInv, NextIndexInv, PTL DEF FilesSpec

\* The tables and the scans have their types.
THEOREM FilesTypeCorrect == FilesSpec => []FilesTypeOK
<1>1. IndexInv => FilesTypeOK
    BY DEF IndexInv
<1> QED
    BY <1>1, IndexInvariant, PTL

\* The search table names the indexed files and no others, whatever refreshes
\* complete, are cancelled or fail, and however many processes refresh.
THEOREM SearchTableFollowsRows == FilesSpec => []SearchTableMatchesRows
<1>1. IndexInv => SearchTableMatchesRows
    BY DEF IndexInv, Follows, SearchTableMatchesRows
<1> QED
    BY <1>1, IndexInvariant, PTL

\* Of the steps that end a scan, its completion alone moves a generation.
LEMMA OnlyFinishMovesGeneration ==
    ASSUME IndexInv, FilesNext, NEW p \in Indexers, Ends(p), generation' # generation
    PROVE  Finish(p)
<1>1. ASSUME NEW q \in Indexers, Finish(q)
      PROVE  q = p
    BY <1>1 DEF Finish, EndOfScan, Ends, IndexInv, FilesTypeOK
<1>2. \E q \in Indexers : Finish(q)
    BY DEF FilesNext, Begin, Visit, Skip, Cancel, Unswept, Fail, Edit
<1> QED
    BY <1>1, <1>2

LEMMA StepRemovesByCompleteScan ==
    ASSUME IndexInv, FilesNext, NEW f \in Files, rows[f] # Missing, rows'[f] = Missing
    PROVE  \E p \in Indexers : /\ Ends(p) /\ scan[p].left = {}
                               /\ f \notin scan[p].seen
                               /\ rows[f].scope = scan[p].scope
<1>1. ASSUME NEW p \in Indexers, Finish(p)
      PROVE  Ends(p) /\ scan[p].left = {} /\ f \notin scan[p].seen
                /\ rows[f].scope = scan[p].scope
  <2>1. /\ scan[p] # Missing /\ scan[p].left = {} /\ writer \in {Missing, p}
        /\ Swept(scan[p].scope, scan[p].generation)
        /\ scan' = [scan EXCEPT ![p] = Missing]
      BY <1>1 DEF Finish, MayWrite, EndOfScan
  <2>2. Ends(p)
      BY <2>1 DEF Ends, IndexInv, FilesTypeOK
  <2>3. f \notin scan[p].seen
      BY <2>1, Sweep
  <2>4. StaleRow(rows[f], scan[p].scope, scan[p].generation)
      BY <2>1, <2>3, Sweep
  <2> QED
      BY <2>1, <2>2, <2>3, <2>4 DEF StaleRow
<1>2. ASSUME NEW p \in Indexers, Cancel(p)
      PROVE  FALSE
  <2>1. rows'[f] = IF writer = p THEN newRows[f] ELSE rows[f]
      BY <1>2 DEF Cancel, Unswept
  <2>2. newRows[f] # Missing
      BY DEF IndexInv, WriterView
  <2> QED
      BY <2>1, <2>2
<1>3. \E p \in Indexers : Finish(p) \/ Cancel(p)
    BY DEF FilesNext, Begin, Visit, Skip, Fail, Edit
<1> QED
    BY <1>1, <1>2, <1>3

\* Only the end of a complete scan of its scope that did not see the file
\* removes a record: a cancelled or failed scan deletes nothing
\* ("A cancelled scan retains the prior complete generation", lib.rs:107).
THEOREM RemovalOnlyByCompleteScans == FilesSpec => OnlyCompleteScansRemove
<1>1. IndexInv /\ [FilesNext]_fileVars =>
         [\A f \in Files : rows[f] # Missing /\ rows'[f] = Missing =>
             \E p \in Indexers : /\ Ends(p) /\ scan[p].left = {}
                                 /\ f \notin scan[p].seen
                                 /\ rows[f].scope = scan[p].scope]_fileVars
    BY StepRemovesByCompleteScan DEF fileVars
<1> QED
    BY <1>1, IndexInvariant, PTL DEF FilesSpec, OnlyCompleteScansRemove

LEMMA FinishLeavesWhatItSaw ==
    ASSUME IndexInv, NEW p \in Indexers, Finish(p),
           \A f \in RecordsOf(rows, scan[p].scope) : rows[f].generation # scan[p].generation
    PROVE  RecordsOf(rows', scan[p].scope) = scan[p].seen
<1>1. /\ scan[p] # Missing /\ scan[p] \in Scan /\ writer \in {Missing, p}
      /\ Swept(scan[p].scope, scan[p].generation)
    BY DEF Finish, MayWrite, IndexInv, FilesTypeOK
<1>2. scan[p].seen \subseteq Files
    BY <1>1 DEF Scan
<1>3. ASSUME NEW f \in Files
      PROVE  f \in RecordsOf(rows', scan[p].scope) <=> f \in scan[p].seen
  <2>1. CASE f \in scan[p].seen
      BY <1>1, <2>1, Sweep DEF RecordsOf
  <2>2. CASE f \notin scan[p].seen
    <3>1. rows'[f] = IF StaleRow(rows[f], scan[p].scope, scan[p].generation)
                     THEN Missing ELSE rows[f]
        BY <1>1, <2>2, Sweep
    <3>2. f \in RecordsOf(rows, scan[p].scope) => rows'[f] = Missing
        BY <3>1 DEF RecordsOf, StaleRow
    <3> QED
        BY <2>2, <3>1, <3>2 DEF RecordsOf
  <2> QED
      BY <2>1, <2>2
<1> QED
    BY <1>2, <1>3 DEF RecordsOf

\* A complete scan whose generation no record of its scope carried leaves in
\* the index exactly the files it saw, also when it was overtaken by others.
THEOREM FreshScansAreExact == FilesSpec => FreshScanIsExact
<1>1. IndexInv /\ [FilesNext]_fileVars =>
         [\A p \in Indexers :
             Ends(p) /\ generation' # generation
                /\ (\A f \in RecordsOf(rows, scan[p].scope) :
                        rows[f].generation # scan[p].generation)
             => RecordsOf(rows', scan[p].scope) = scan[p].seen]_fileVars
    BY OnlyFinishMovesGeneration, FinishLeavesWhatItSaw DEF fileVars
<1> QED
    BY <1>1, IndexInvariant, PTL DEF FilesSpec, FreshScanIsExact

-----------------------------------------------------------------------------
(***************************************************************************)
(* launcher.json for any items, processes, overlaps and crashes.           *)
(*                                                                         *)
(* A save that no other has met finds no byte in the file it has opened,   *)
(* and that file is still the temporary one when it renames it: what it    *)
(* renames is all of its memory.  Whatever its predecessors left behind.   *)
(***************************************************************************)

\* What a save under way that no other has met holds.
Undisturbed(w) ==
    /\ \A other \in Writers \ {w} : ~UnderWay(other)
    /\ saving[w].phase \in {"write", "rename"}
    /\ saving[w].phase = "write" => saving[w].open = "temporary" /\ temporary = NoBytes
    /\ saving[w].phase = "rename" => temporary = memory[w]

PreferencesInv ==
    /\ PreferencesTypeOK
    /\ \A w \in Writers : saving[w].phase # "no" => memory[w] # NoPreferences
    /\ \A w \in alone : Undisturbed(w)
    /\ ~crossed => \A w \in Writers : UnderWay(w) => w \in alone
    /\ PreferencesAreWhole

\* Nothing is saved and nobody saves.
LEMMA InitPreferencesInv == PreferencesInit => PreferencesInv
<1> SUFFICES ASSUME PreferencesInit PROVE PreferencesInv
  OBVIOUS
<1>1. PreferencesTypeOK
  <2>1. NotSaving \in [phase : {"no", "open", "write", "rename", "remove"},
                       open : {"none", "temporary", "file", "unlinked"}]
    BY DEF NotSaving
  <2>2. saving \in [Writers -> [phase : {"no", "open", "write", "rename", "remove"},
                                open : {"none", "temporary", "file", "unlinked"}]]
    BY <2>1 DEF PreferencesInit
  <2>3. /\ {file, temporary} \subseteq Preferences \cup Malformed \cup {NoPreferences}
        /\ memory \in [Writers -> Preferences \cup {NoPreferences}]
    BY DEF PreferencesInit
  <2>4. changes \in 0..MaxChanges /\ alone \subseteq Writers
    BY PreferencesAssumption DEF PreferencesInit
  <2>5. crossed \in BOOLEAN
    BY DEF PreferencesInit
  <2> QED
    BY <2>2, <2>3, <2>4, <2>5 DEF PreferencesTypeOK
<1>2. \A w \in Writers : saving[w].phase = "no"
  BY DEF PreferencesInit, NotSaving
<1>3. alone = {} /\ file \notin Malformed
  BY FileAssumption DEF PreferencesInit
<1> QED
  BY <1>1, <1>2, <1>3 DEF PreferencesInv, PreferencesAreWhole, UnderWay

\* What the palette and the command save are preferences.
LEMMA ChangedPreferences ==
  ASSUME PreferencesInv, NEW w \in Writers, NEW item \in Items, memory[w] # NoPreferences
  PROVE  /\ \A alias \in Aliases \cup {NoAlias} :
               [memory[w] EXCEPT ![item].alias = alias] \in Preferences
         /\ [memory[w] EXCEPT ![item].favorite = ~@] \in Preferences
         /\ [memory[w] EXCEPT ![item].frequency =
               IF @ = MaxFrequency THEN @ ELSE @ + 1] \in Preferences
<1> DEFINE m == memory[w]
<1>1. m \in Preferences
  BY DEF PreferencesInv, PreferencesTypeOK
<1> HIDE DEF m
<1>2. m[item] \in Preference
  BY <1>1 DEF Preferences
<1>3. ASSUME NEW alias \in Aliases \cup {NoAlias}
      PROVE  [m EXCEPT ![item].alias = alias] \in Preferences
  <2>1. [m[item] EXCEPT !.alias = alias] \in Preference
    BY <1>2 DEF Preference
  <2> QED
    BY <1>1, <2>1 DEF Preferences
<1>4. [m EXCEPT ![item].favorite = ~@] \in Preferences
  <2>1. [m[item] EXCEPT !.favorite = ~@] \in Preference
    BY <1>2 DEF Preference
  <2> QED
    BY <1>1, <2>1 DEF Preferences
<1>5. [m EXCEPT ![item].frequency = IF @ = MaxFrequency THEN @ ELSE @ + 1] \in Preferences
  <2>1. [m[item] EXCEPT !.frequency = IF @ = MaxFrequency THEN @ ELSE @ + 1] \in Preference
    BY <1>2, PreferencesAssumption DEF Preference
  <2> QED
    BY <1>1, <2>1 DEF Preferences
<1> QED
  BY <1>3, <1>4, <1>5 DEF m

\* A save starts: nothing is open yet.
LEMMA StartKeepsPreferencesInv ==
  ASSUME PreferencesInv, NEW w \in Writers, NEW preferences,
         memory[w] # NoPreferences => preferences \in Preferences,
         StartSaving(w, preferences)
  PROVE  PreferencesInv'
<1>1. PreferencesTypeOK'
  BY PreferencesAssumption DEF StartSaving, Change, PreferencesInv, PreferencesTypeOK
<1>2. /\ file' = file /\ temporary' = temporary /\ alone' = alone /\ crossed' = crossed
      /\ saving[w].phase = "no" /\ saving'[w].phase = "open" /\ memory'[w] # NoPreferences
      /\ \A other \in Writers \ {w} :
            saving'[other] = saving[other] /\ memory'[other] = memory[other]
  BY FileAssumption DEF StartSaving, PreferencesInv, PreferencesTypeOK
<1>3. \A v \in Writers : UnderWay(v)' <=> UnderWay(v)
  BY <1>2 DEF UnderWay
<1>4. w \notin alone /\ alone \subseteq Writers
  BY <1>2 DEF PreferencesInv, PreferencesTypeOK, Undisturbed
<1>5. \A v \in alone' : Undisturbed(v)'
  BY <1>2, <1>3, <1>4 DEF PreferencesInv, Undisturbed
<1> QED
  BY <1>1, <1>2, <1>3, <1>5 DEF PreferencesInv, PreferencesAreWhole

LEMMA LoadKeepsPreferencesInv ==
  ASSUME PreferencesInv, NEW w \in Writers, Load(w)
  PROVE  PreferencesInv'
<1>1. Defaults \in Preferences
  BY PreferencesAssumption DEF Defaults, Default, Preferences, Preference
<1>2. PreferencesTypeOK' /\ memory'[w] \in Preferences
  BY <1>1 DEF Load, PreferencesInv, PreferencesTypeOK
<1>3. /\ file' = file /\ temporary' = temporary /\ alone' = alone /\ crossed' = crossed
      /\ saving' = saving /\ saving[w].phase = "no" /\ memory'[w] # NoPreferences
      /\ \A other \in Writers \ {w} : memory'[other] = memory[other]
  BY <1>2, FileAssumption DEF Load, PreferencesInv, PreferencesTypeOK
<1>4. w \notin alone /\ alone \subseteq Writers
  BY <1>3 DEF PreferencesInv, PreferencesTypeOK, Undisturbed
<1>5. \A v \in alone' : Undisturbed(v)'
  BY <1>3, <1>4 DEF PreferencesInv, Undisturbed, UnderWay
<1> QED
  BY <1>2, <1>3, <1>5 DEF PreferencesInv, PreferencesAreWhole, UnderWay

\* The save of w meets those under way, or is alone.
LEMMA OpenKeepsPreferencesInv ==
  ASSUME PreferencesInv, NEW w \in Writers, OpenTemporary(w)
  PROVE  PreferencesInv'
<1> DEFINE met == {other \in Writers : UnderWay(other)}
<1>1. /\ file' = file /\ memory' = memory /\ temporary' = NoBytes
      /\ saving[w].phase = "open"
      /\ saving' = [saving EXCEPT ![w] = [phase |-> "write", open |-> "temporary"]]
      /\ alone' = IF met = {} THEN alone \cup {w} ELSE alone \ met
      /\ crossed' = (crossed \/ met # {})
      /\ changes' = changes
  BY DEF OpenTemporary, Truncated
<1>2. PreferencesTypeOK'
  BY <1>1 DEF PreferencesInv, PreferencesTypeOK, Malformed
<1>3. /\ saving'[w].phase = "write" /\ saving'[w].open = "temporary"
      /\ \A other \in Writers \ {w} : saving'[other] = saving[other]
  BY <1>1 DEF PreferencesInv, PreferencesTypeOK
<1>4. \A v \in alone : UnderWay(v) /\ v \in Writers
  BY DEF PreferencesInv, PreferencesTypeOK, Undisturbed, UnderWay
<1>5. UnderWay(w)' /\ \A other \in Writers \ {w} : UnderWay(other)' <=> UnderWay(other)
  BY <1>3 DEF UnderWay
<1>6. \A v \in alone' : Undisturbed(v)'
  <2>1. CASE met = {}
    <3>1. alone' = {w} /\ \A other \in Writers \ {w} : ~UnderWay(other)'
      BY <1>1, <1>4, <1>5, <2>1
    <3> QED
      BY <1>1, <1>3, <3>1 DEF Undisturbed
  <2>2. CASE met # {}
    BY <1>1, <1>4, <2>2
  <2> QED
    BY <2>1, <2>2
<1>7. ~crossed' => \A v \in Writers : UnderWay(v)' => v \in alone'
  BY <1>1, <1>5
<1> QED
  BY <1>1, <1>2, <1>3, <1>6, <1>7 DEF PreferencesInv, PreferencesAreWhole

\* The write of a save alone meets no byte; of another, nothing is promised.
LEMMA WriteKeepsPreferencesInv ==
  ASSUME PreferencesInv, NEW w \in Writers, WriteAll(w)
  PROVE  PreferencesInv'
<1>1. /\ memory' = memory /\ alone' = alone /\ crossed' = crossed /\ changes' = changes
      /\ saving[w].phase = "write"
      /\ saving' = [saving EXCEPT ![w] = [phase |-> "rename", open |-> "none"]]
      /\ \/ Store(w, memory[w])
         \/ Opened(w) \notin {NoBytes, memory[w]} /\ Store(w, Torn)
  BY DEF WriteAll
<1>2. memory[w] \in Preferences
  BY <1>1 DEF PreferencesInv, PreferencesTypeOK
<1>3. PreferencesTypeOK'
  BY <1>1, <1>2 DEF Store, PreferencesInv, PreferencesTypeOK, Malformed
<1>4. /\ saving'[w].phase = "rename"
      /\ \A other \in Writers \ {w} : saving'[other] = saving[other]
  BY <1>1 DEF PreferencesInv, PreferencesTypeOK
<1>5. \A v \in Writers : UnderWay(v)' <=> UnderWay(v)
  BY <1>1, <1>4 DEF UnderWay
<1>6. w \in alone => temporary' = memory[w] /\ file' = file
  <2>1. w \in alone => saving[w].open = "temporary" /\ Opened(w) = NoBytes
    BY <1>1 DEF PreferencesInv, Undisturbed, Opened
  <2> QED
    BY <1>1, <2>1 DEF Store
<1>7. \A v \in alone' : Undisturbed(v)'
  <2> TAKE v \in alone'
  <2>1. v \in Writers /\ v \in alone /\ Undisturbed(v)
    BY <1>1 DEF PreferencesInv, PreferencesTypeOK
  <2>2. UnderWay(w)
    BY <1>1 DEF UnderWay
  <2>3. v = w
    BY <2>1, <2>2 DEF Undisturbed
  <2> QED
    BY <1>1, <1>4, <1>5, <1>6, <2>1, <2>3 DEF Undisturbed
<1>8. ~crossed' => w \in alone
  BY <1>1 DEF PreferencesInv, UnderWay
<1> QED
  BY <1>1, <1>3, <1>4, <1>5, <1>6, <1>7, <1>8 DEF PreferencesInv, PreferencesAreWhole

\* What the other saves do keeps its place when a file changes its name.
LEMMA AfterRename ==
  ASSUME PreferencesInv, NEW w \in Writers, NEW from, NEW to \in {"file", "unlinked"},
         saving' = HandlesAfter(w, from, to)
  PROVE  /\ saving' \in [Writers -> [phase : {"no", "open", "write", "rename", "remove"},
                                     open : {"none", "temporary", "file", "unlinked"}]]
         /\ saving'[w].phase = "no"
         /\ \A other \in Writers \ {w} : saving'[other].phase = saving[other].phase
<1>1. ASSUME NEW other \in Writers \ {w}
      PROVE  /\ saving'[other] \in [phase : {"no", "open", "write", "rename", "remove"},
                                    open : {"none", "temporary", "file", "unlinked"}]
             /\ saving'[other].phase = saving[other].phase
  <2>1. saving[other] \in [phase : {"no", "open", "write", "rename", "remove"},
                           open : {"none", "temporary", "file", "unlinked"}]
    BY DEF PreferencesInv, PreferencesTypeOK
  <2>2. \E open \in {saving[other].open, "file", "unlinked"} :
           saving'[other] = [saving[other] EXCEPT !.open = open]
    BY DEF HandlesAfter
  <2> QED
    BY <2>1, <2>2
<1>2. saving'[w] = [phase |-> "no", open |-> "none"]
  BY DEF HandlesAfter, NotSaving
<1>3. saving' = [other \in Writers |-> saving'[other]]
  BY DEF HandlesAfter
<1> QED
  BY <1>1, <1>2, <1>3

\* A save that is over, whoever's: the saves alone are as they were.
LEMMA EndedKeepsPreferencesInv ==
  ASSUME PreferencesInv, NEW w \in Writers, PreferencesTypeOK',
         saving'[w].phase = "no",
         \A other \in Writers \ {w} :
             saving'[other].phase = saving[other].phase /\ memory'[other] = memory[other],
         alone' = alone \ {w},
         \A v \in alone' :
             saving'[v].open = saving[v].open /\ temporary' = temporary,
         ~crossed' => \A other \in Writers \ {w} : UnderWay(other) => other \in alone,
         PreferencesAreWhole'
  PROVE  PreferencesInv'
<1>1. ~UnderWay(w)' /\ \A other \in Writers \ {w} : UnderWay(other)' <=> UnderWay(other)
  BY DEF UnderWay
<1>2. \A v \in alone' : Undisturbed(v)'
  <2> TAKE v \in alone'
  <2>1. v \in Writers \ {w} /\ Undisturbed(v)
    BY DEF PreferencesInv, PreferencesTypeOK
  <2> QED
    BY <1>1, <2>1 DEF Undisturbed
<1> QED
  BY <1>1, <1>2 DEF PreferencesInv

\* The memory of w after its save, or after its end.
LEMMA MemoryAfter ==
  ASSUME PreferencesInv, NEW w \in Writers,
         memory' = Done(w) \/ memory' = [memory EXCEPT ![w] = NoPreferences]
  PROVE  /\ memory' \in [Writers -> Preferences \cup {NoPreferences}]
         /\ \A other \in Writers \ {w} : memory'[other] = memory[other]
  BY DEF PreferencesInv, PreferencesTypeOK, Done

\* The file a save alone renames is all of its memory.
LEMMA RenameKeepsPreferencesInv ==
  ASSUME PreferencesInv, NEW w \in Writers, RenameIntoPlace(w)
  PROVE  PreferencesInv'
<1>1. /\ file' = temporary /\ temporary' = NoPreferences /\ temporary # NoPreferences
      /\ saving[w].phase = "rename" /\ saving' = HandlesAfter(w, "temporary", "file")
      /\ memory' = Done(w) /\ alone' = alone \ {w}
      /\ crossed' = (crossed /\ w \notin alone) /\ changes' = changes
  BY DEF RenameIntoPlace
<1>2. /\ saving' \in [Writers -> [phase : {"no", "open", "write", "rename", "remove"},
                                  open : {"none", "temporary", "file", "unlinked"}]]
      /\ saving'[w].phase = "no"
      /\ \A other \in Writers \ {w} : saving'[other].phase = saving[other].phase
  BY <1>1, AfterRename
<1>3. /\ memory' \in [Writers -> Preferences \cup {NoPreferences}]
      /\ \A other \in Writers \ {w} : memory'[other] = memory[other]
  BY <1>1, MemoryAfter
<1>4. PreferencesTypeOK'
  BY <1>1, <1>2, <1>3 DEF PreferencesInv, PreferencesTypeOK
<1>5. UnderWay(w) /\ ~crossed' => w \in alone
  BY <1>1 DEF PreferencesInv, UnderWay
<1>6. alone' = {}
  BY <1>1 DEF PreferencesInv, PreferencesTypeOK, Undisturbed, UnderWay
<1>7. w \in alone => file' \notin Malformed /\ \A other \in Writers \ {w} : ~UnderWay(other)
  BY <1>1, FileAssumption DEF PreferencesInv, PreferencesTypeOK, Undisturbed
<1>8. ~crossed' => w \in alone
  BY <1>1, <1>5 DEF UnderWay
<1> QED
  BY <1>1, <1>2, <1>3, <1>4, <1>6, <1>7, <1>8, EndedKeepsPreferencesInv
     DEF PreferencesAreWhole

\* Only a save that was met finds its temporary file gone.
LEMMA RemoveKeepsPreferencesInv ==
  ASSUME PreferencesInv, NEW w \in Writers, RenameFails(w) \/ RemoveTemporary(w)
  PROVE  PreferencesInv'
<1>1. UnderWay(w) /\ w \notin alone /\ crossed
  <2>1. UnderWay(w)
    BY DEF RenameFails, RemoveTemporary, UnderWay
  <2>2. w \notin alone
    BY FileAssumption
       DEF RenameFails, RemoveTemporary, PreferencesInv, PreferencesTypeOK, Undisturbed
  <2> QED
    BY <2>1, <2>2 DEF PreferencesInv, PreferencesTypeOK
<1>2. alone = {}
  BY <1>1 DEF PreferencesInv, PreferencesTypeOK, Undisturbed
<1>3. CASE RenameFails(w)
  <2>1. PreferencesTypeOK'
    BY <1>3 DEF RenameFails, PreferencesInv, PreferencesTypeOK
  <2>2. \A v \in Writers : saving'[v].phase # "no" => memory'[v] # NoPreferences
    BY <1>3 DEF RenameFails, PreferencesInv, PreferencesTypeOK
  <2> QED
    BY <1>1, <1>2, <1>3, <2>1, <2>2 DEF RenameFails, PreferencesInv, PreferencesAreWhole
<1>4. CASE RemoveTemporary(w)
  <2>1. /\ temporary' = NoPreferences /\ saving' = HandlesAfter(w, "temporary", "unlinked")
        /\ memory' = Done(w) /\ alone' = alone \ {w}
        /\ file' = file /\ crossed' = crossed /\ changes' = changes
    BY <1>4 DEF RemoveTemporary
  <2>2. /\ saving' \in [Writers -> [phase : {"no", "open", "write", "rename", "remove"},
                                    open : {"none", "temporary", "file", "unlinked"}]]
        /\ saving'[w].phase = "no"
        /\ \A other \in Writers \ {w} : saving'[other].phase = saving[other].phase
    BY <2>1, AfterRename
  <2>3. /\ memory' \in [Writers -> Preferences \cup {NoPreferences}]
        /\ \A other \in Writers \ {w} : memory'[other] = memory[other]
    BY <2>1, MemoryAfter
  <2>4. PreferencesTypeOK'
    BY <2>1, <2>2, <2>3 DEF PreferencesInv, PreferencesTypeOK
  <2> QED
    BY <1>1, <1>2, <2>1, <2>2, <2>3, <2>4, EndedKeepsPreferencesInv DEF PreferencesAreWhole
<1> QED
  BY <1>3, <1>4

\* Part of a write may be in the file w has open: of a save alone, the temporary one.
LEMMA CutOffKeepsPreferencesInv ==
  ASSUME PreferencesInv, NEW w \in Writers, CutOff(w)
  PROVE  PreferencesInv'
<1>1. /\ saving' = [saving EXCEPT ![w] = NotSaving]
      /\ alone' = alone \ {w} /\ crossed' = crossed
      /\ changes < MaxChanges /\ changes' = changes + 1
      /\ memory' = Done(w) \/ memory' = [memory EXCEPT ![w] = NoPreferences]
      /\ \/ file' = file /\ temporary' = temporary
         \/ saving[w].phase = "write" /\ Store(w, Torn)
  BY DEF CutOff, Change
<1>2. /\ memory' \in [Writers -> Preferences \cup {NoPreferences}]
      /\ \A other \in Writers \ {w} : memory'[other] = memory[other]
  BY <1>1, MemoryAfter
<1>3. /\ saving' \in [Writers -> [phase : {"no", "open", "write", "rename", "remove"},
                                  open : {"none", "temporary", "file", "unlinked"}]]
      /\ saving'[w].phase = "no"
      /\ \A other \in Writers \ {w} : saving'[other] = saving[other]
  BY <1>1 DEF PreferencesInv, PreferencesTypeOK, NotSaving
<1>4. {file', temporary'} \subseteq Preferences \cup Malformed \cup {NoPreferences}
  BY <1>1 DEF Store, Malformed, PreferencesInv, PreferencesTypeOK
<1>5. PreferencesTypeOK'
  BY <1>1, <1>2, <1>3, <1>4, PreferencesAssumption DEF PreferencesInv, PreferencesTypeOK
<1>6. \A v \in alone' : saving'[v].open = saving[v].open /\ temporary' = temporary
  <2> TAKE v \in alone'
  <2>1. v \in Writers \ {w} /\ Undisturbed(v)
    BY <1>1 DEF PreferencesInv, PreferencesTypeOK
  <2>2. saving[w].phase # "write"
    BY <2>1 DEF Undisturbed, UnderWay
  <2> QED
    BY <1>1, <1>3, <2>1, <2>2
<1>7. PreferencesAreWhole'
  <2>1. saving[w].phase = "write" /\ ~crossed => saving[w].open = "temporary"
    BY DEF PreferencesInv, Undisturbed, UnderWay
  <2> QED
    BY <1>1, <2>1 DEF Store, PreferencesInv, PreferencesAreWhole
<1>8. ~crossed' => \A other \in Writers \ {w} : UnderWay(other) => other \in alone
  BY <1>1 DEF PreferencesInv
<1> QED
  BY <1>1, <1>2, <1>3, <1>5, <1>6, <1>7, <1>8, EndedKeepsPreferencesInv

LEMMA NextPreferencesInv ==
  PreferencesInv /\ [PreferencesNext]_preferenceVars => PreferencesInv'
<1> SUFFICES ASSUME PreferencesInv, [PreferencesNext]_preferenceVars
             PROVE  PreferencesInv'
  OBVIOUS
<1>1. ASSUME NEW w \in Writers, NEW item \in Items,
             \/ \E alias \in Aliases \cup {NoAlias} : SetAlias(w, item, alias)
             \/ ToggleFavoriteOf(w, item)
             \/ RecordInvocation(w, item)
      PROVE  PreferencesInv'
  <2>1. CASE \E alias \in Aliases \cup {NoAlias} : SetAlias(w, item, alias)
    BY <2>1, ChangedPreferences, StartKeepsPreferencesInv DEF SetAlias
  <2>2. CASE ToggleFavoriteOf(w, item)
    BY <2>2, ChangedPreferences, StartKeepsPreferencesInv DEF ToggleFavoriteOf
  <2>3. CASE RecordInvocation(w, item)
    BY <2>3, ChangedPreferences, StartKeepsPreferencesInv DEF RecordInvocation
  <2> QED
    BY <1>1, <2>1, <2>2, <2>3
<1>2. CASE UNCHANGED preferenceVars
  BY <1>2 DEF preferenceVars, PreferencesInv, PreferencesTypeOK, PreferencesAreWhole,
              Undisturbed, UnderWay
<1> QED
  BY <1>1, <1>2, LoadKeepsPreferencesInv, OpenKeepsPreferencesInv,
     WriteKeepsPreferencesInv, RenameKeepsPreferencesInv, RemoveKeepsPreferencesInv,
     CutOffKeepsPreferencesInv
     DEF PreferencesNext

\* A save that no other meets renames all of what it has in memory, whatever cut off
\* or overlapping saves left before it (save of core/preferences.rs).
THEOREM PreferencesInvariant == PreferencesSpec => []PreferencesInv
  BY InitPreferencesInv, NextPreferencesInv, PTL DEF PreferencesSpec

\* The files, the processes' memories and their saves have their types, overlaps
\* included.
THEOREM PreferencesTypeCorrect == PreferencesSpec => []PreferencesTypeOK
<1>1. PreferencesInv => PreferencesTypeOK
  BY DEF PreferencesInv
<1> QED
  BY <1>1, PreferencesInvariant, PTL

\* A reader never finds half a file until two saves overlap, wherever saves are cut
\* off; and one save that meets no other makes the file whole again (save of
\* core/preferences.rs, "Atomically persist preferences").
THEOREM PreferencesStayWhole == PreferencesSpec => []PreferencesAreWhole
<1>1. PreferencesInv => PreferencesAreWhole
  BY DEF PreferencesInv
<1> QED
  BY <1>1, PreferencesInvariant, PTL
(***************************************************************************)
(* The exchange rates for any pairs, threads and clock.                    *)
(*                                                                         *)
(* The file is read, changed and replaced in three steps, and what is      *)
(* renamed is the temporary file, not what the thread holds.  The lock     *)
(* makes the three steps one: its holder's copy, and then the temporary    *)
(* file, has every rate of the file.                                       *)
(***************************************************************************)
\* Every pair with a rate in one table has one in the other.
Covers(wider, table) == \A k \in Pairs : table[k] # NoRate => wider[k] # NoRate

Replacing(t) == Thread(t).at \in {"writing", "renaming"}

HoldsLock == \A t \in Converters : Replacing(t) => exchange.lock = t

RateInv ==
    /\ RateTypeOK
    /\ HoldsLock
    /\ \A t \in Converters :
          /\ Thread(t).at = "writing" => Covers(Thread(t).kept, exchange.rates)
          /\ Thread(t).at = "renaming" => Covers(exchange.temporary, exchange.rates)

\* At first there is no file and no thread.
LEMMA InitRateInv == RateInit => RateInv
  BY RateAssumption
     DEF RateInit, RateInv, RateTypeOK, HoldsLock, Replacing, Thread, IdleThread, NoRates,
         RateTable, ThreadState, Observed

\* A step that leaves the file, its temporary file and the lock to the threads
\* that replace it keeps the invariant.
LEMMA AsideKeepsRateInv ==
  ASSUME RateInv, RateTypeOK',
         exchange'.rates = exchange.rates, exchange'.temporary = exchange.temporary,
         \A t \in Converters : Replacing(t)' =>
             exchange'.threads[t] = exchange.threads[t] /\ exchange'.lock = exchange.lock
  PROVE  RateInv'
  BY DEF RateInv, HoldsLock, Replacing, Thread, Covers

\* A step of thread t makes it turn, and may change the other fields.
StepTo(t, turn) ==
    /\ exchange' = [rates |-> exchange'.rates, temporary |-> exchange'.temporary,
                    lock |-> exchange'.lock, threads |-> exchange'.threads,
                    clock |-> exchange'.clock, spent |-> exchange'.spent]
    /\ exchange'.rates \in RateTable /\ exchange'.temporary \in RateTable
    /\ exchange'.lock \in Converters \cup {NoRate}
    /\ exchange'.clock = exchange.clock /\ exchange'.spent \in 0..MaxConversions
    /\ exchange'.threads = [exchange.threads EXCEPT ![t] = turn]

LEMMA StepChanges ==
  ASSUME RateTypeOK, NEW t \in Converters, NEW turn \in ThreadState, StepTo(t, turn)
  PROVE  /\ RateTypeOK'
         /\ exchange'.threads[t] = turn
         /\ \A u \in Converters \ {t} : exchange'.threads[u] = exchange.threads[u]
<1>1. exchange.threads \in [Converters -> ThreadState] /\ exchange.clock \in Observed
  BY DEF RateTypeOK
<1>2. /\ exchange'.threads \in [Converters -> ThreadState]
      /\ exchange'.threads[t] = turn
      /\ \A u \in Converters \ {t} : exchange'.threads[u] = exchange.threads[u]
  BY <1>1 DEF StepTo
<1>3. RateTypeOK'
  BY <1>1, <1>2 DEF StepTo, RateTypeOK
<1> QED
  BY <1>2, <1>3

LEMMA ClockKeepsRateInv == RateInv /\ ClockTicks => RateInv'
<1> SUFFICES ASSUME RateInv, ClockTicks PROVE RateInv'
  OBVIOUS
<1>1. RateTypeOK'
  BY RateAssumption DEF RateInv, RateTypeOK, ClockTicks, Observed
<1> QED
  BY <1>1, AsideKeepsRateInv DEF RateInv, RateTypeOK, ClockTicks

LEMMA BeginKeepsRateInv ==
  ASSUME RateInv, NEW t \in Converters, NEW k \in Pairs, BeginConversion(t, k)
  PROVE  RateInv'
<1> DEFINE now == exchange.clock
           fresh == exchange.rates[k] # NoRate /\ now - exchange.rates[k] <= FreshFor
           turn == [at |-> IF fresh THEN "answered" ELSE "asking",
                      pair |-> k, kept |-> exchange.rates, now |-> now]
<1>1. turn \in ThreadState
  BY DEF RateInv, RateTypeOK, ThreadState
<1>2. exchange' = [Step(t, turn) EXCEPT !.spent = @ + 1] /\ exchange.spent < MaxConversions
  BY DEF BeginConversion
<1>3. turn.at \notin {"writing", "renaming"}
  OBVIOUS
<1> HIDE DEF turn
<1>4. StepTo(t, turn)
  <2>1. exchange' = [rates |-> exchange.rates, temporary |-> exchange.temporary,
                     lock |-> exchange.lock,
                     threads |-> [exchange.threads EXCEPT ![t] = turn],
                     clock |-> exchange.clock, spent |-> exchange.spent + 1]
    BY <1>2 DEF RateInv, RateTypeOK, Step
  <2>2. /\ exchange.spent + 1 \in 0..MaxConversions
        /\ exchange.rates \in RateTable /\ exchange.temporary \in RateTable
        /\ exchange.lock \in Converters \cup {NoRate}
    BY <1>2, RateAssumption DEF RateInv, RateTypeOK
  <2> QED
    BY <2>1, <2>2 DEF StepTo
<1>5. /\ exchange'.rates = exchange.rates /\ exchange'.temporary = exchange.temporary
      /\ exchange'.lock = exchange.lock
  BY <1>2 DEF RateInv, RateTypeOK, Step
<1>6. /\ RateTypeOK'
      /\ exchange'.threads[t] = turn
      /\ \A u \in Converters \ {t} : exchange'.threads[u] = exchange.threads[u]
  BY <1>1, <1>4, StepChanges DEF RateInv
<1> QED
  BY <1>3, <1>5, <1>6, AsideKeepsRateInv DEF Replacing, Thread

\* A thread that asks, and then answers, fails or is about to save.
LEMMA FetchKeepsRateInv ==
  ASSUME RateInv, NEW t \in Converters, FetchFails(t) \/ FetchSucceeds(t)
  PROVE  RateInv'
<1>1. PICK next \in {"answered", "failed", "saving"} :
          exchange' = Step(t, [Thread(t) EXCEPT !.at = next])
  BY DEF FetchFails, FetchSucceeds
<1> DEFINE turn == [Thread(t) EXCEPT !.at = next]
<1>2. turn \in ThreadState /\ turn.at = next
  <2>1. Thread(t) \in ThreadState /\ Thread(t).at = "asking"
    BY DEF RateInv, RateTypeOK, Thread, FetchFails, FetchSucceeds
  <2> QED
    BY <2>1 DEF ThreadState
<1>3. exchange' = Step(t, turn)
  BY <1>1
<1> HIDE DEF turn
<1>4. StepTo(t, turn)
  BY <1>3 DEF RateInv, RateTypeOK, Step, StepTo
<1>5. /\ exchange'.rates = exchange.rates /\ exchange'.temporary = exchange.temporary
      /\ exchange'.lock = exchange.lock
  BY <1>3 DEF RateInv, RateTypeOK, Step
<1>6. /\ RateTypeOK'
      /\ exchange'.threads[t] = turn
      /\ \A u \in Converters \ {t} : exchange'.threads[u] = exchange.threads[u]
  BY <1>2, <1>4, StepChanges DEF RateInv
<1> QED
  BY <1>2, <1>5, <1>6, AsideKeepsRateInv DEF Replacing, Thread

\* The lock was free, so nobody replaces the file, and what t is about to write
\* is the file with one rate more.
LEMMA LockKeepsRateInv ==
  ASSUME RateInv, NEW t \in Converters, LockCache(t)
  PROVE  RateInv'
<1> DEFINE kept == [exchange.rates EXCEPT ![Thread(t).pair] = Thread(t).now]
           turn == [Thread(t) EXCEPT !.at = "writing", !.kept = kept]
<1>1. /\ Thread(t) \in ThreadState /\ Thread(t).at = "saving"
      /\ exchange.rates \in RateTable
  BY DEF RateInv, RateTypeOK, Thread, LockCache
<1>2. Thread(t).pair \in Pairs /\ Thread(t).now \in Observed
  BY <1>1 DEF ThreadState
<1>3. kept \in RateTable /\ Covers(kept, exchange.rates)
  BY <1>1, <1>2, RateAssumption DEF RateTable, Covers, Observed
<1> HIDE DEF kept
<1>4. turn \in ThreadState /\ turn.at = "writing" /\ turn.kept = kept
  BY <1>1, <1>3 DEF ThreadState
<1>5. exchange' = [Step(t, turn) EXCEPT !.lock = t]
  BY DEF LockCache, kept
<1> HIDE DEF turn
<1>6. StepTo(t, turn)
  BY <1>5 DEF RateInv, RateTypeOK, Step, StepTo
<1>7. exchange'.rates = exchange.rates /\ exchange'.lock = t
  BY <1>5 DEF RateInv, RateTypeOK, Step
<1>8. /\ RateTypeOK'
      /\ exchange'.threads[t] = turn
      /\ \A u \in Converters \ {t} : exchange'.threads[u] = exchange.threads[u]
  BY <1>4, <1>6, StepChanges DEF RateInv
<1>9. \A u \in Converters \ {t} : ~Replacing(u)'
  BY <1>8, RateAssumption DEF RateInv, HoldsLock, Replacing, Thread, LockCache, LockFree
<1> QED
  BY <1>3, <1>4, <1>7, <1>8, <1>9 DEF RateInv, HoldsLock, Replacing, Thread, Covers

\* Only the holder of the lock is replacing the file.
LEMMA OneReplaces ==
  ASSUME RateInv, NEW t \in Converters, NEW u \in Converters, Replacing(t), Replacing(u)
  PROVE  t = u
  BY DEF RateInv, HoldsLock

LEMMA WriteKeepsRateInv ==
  ASSUME RateInv, NEW t \in Converters, WriteRates(t)
  PROVE  RateInv'
<1>1. Thread(t) \in ThreadState /\ Thread(t).at = "writing" /\ Replacing(t)
  BY DEF RateInv, RateTypeOK, Thread, Replacing, WriteRates
<1>2. Thread(t).kept \in RateTable /\ Covers(Thread(t).kept, exchange.rates)
  BY <1>1 DEF ThreadState, RateInv
<1>3. CASE exchange' = [Step(t, [Thread(t) EXCEPT !.at = "answered"]) EXCEPT !.lock = NoRate]
  <2> DEFINE turn == [Thread(t) EXCEPT !.at = "answered"]
  <2>1. turn \in ThreadState /\ turn.at = "answered"
    BY <1>1 DEF ThreadState
  <2>2. exchange' = [Step(t, turn) EXCEPT !.lock = NoRate]
    BY <1>3
  <2> HIDE DEF turn
  <2>3. StepTo(t, turn) /\ exchange'.rates = exchange.rates
        /\ exchange'.temporary = exchange.temporary
    BY <2>2 DEF RateInv, RateTypeOK, Step, StepTo
  <2>4. /\ RateTypeOK'
        /\ exchange'.threads[t] = turn
        /\ \A u \in Converters \ {t} : exchange'.threads[u] = exchange.threads[u]
    BY <2>1, <2>3, StepChanges DEF RateInv
  <2>5. \A u \in Converters : ~Replacing(u)'
    BY <1>1, <2>1, <2>4, OneReplaces DEF Replacing, Thread
  <2> QED
    BY <2>3, <2>4, <2>5, AsideKeepsRateInv
<1>4. CASE exchange' = [Step(t, [Thread(t) EXCEPT !.at = "renaming"])
                        EXCEPT !.temporary = Thread(t).kept]
  <2> DEFINE turn == [Thread(t) EXCEPT !.at = "renaming"]
  <2>1. turn \in ThreadState /\ turn.at = "renaming"
    BY <1>1 DEF ThreadState
  <2>2. exchange' = [Step(t, turn) EXCEPT !.temporary = Thread(t).kept]
    BY <1>4
  <2> HIDE DEF turn
  <2>3. StepTo(t, turn) /\ exchange'.rates = exchange.rates
        /\ exchange'.temporary = Thread(t).kept /\ exchange'.lock = exchange.lock
    BY <1>2, <2>2 DEF RateInv, RateTypeOK, Step, StepTo
  <2>4. /\ RateTypeOK'
        /\ exchange'.threads[t] = turn
        /\ \A u \in Converters \ {t} : exchange'.threads[u] = exchange.threads[u]
    BY <2>1, <2>3, StepChanges DEF RateInv
  <2>5. \A u \in Converters \ {t} : ~Replacing(u)'
    BY <1>1, <2>4, OneReplaces DEF Replacing, Thread
  <2>6. exchange'.lock = t
    BY <1>1, <2>3 DEF RateInv, HoldsLock
  <2> QED
    BY <1>2, <2>1, <2>3, <2>4, <2>5, <2>6 DEF RateInv, HoldsLock, Replacing, Thread, Covers
<1> QED
  BY <1>3, <1>4 DEF WriteRates

\* The temporary file becomes the file, and nobody is replacing it any more.
LEMMA RenameKeepsRateInv ==
  ASSUME RateInv, NEW t \in Converters, RenameRates(t)
  PROVE  RateInv' /\ Covers(exchange'.rates, exchange.rates)
<1> DEFINE turn == [Thread(t) EXCEPT !.at = "answered"]
<1>1. /\ Thread(t) \in ThreadState /\ Thread(t).at = "renaming" /\ Replacing(t)
      /\ Covers(exchange.temporary, exchange.rates)
  BY DEF RateInv, RateTypeOK, Thread, Replacing, RenameRates
<1>2. turn \in ThreadState /\ turn.at = "answered"
  BY <1>1 DEF ThreadState
<1>3. exchange' = [Step(t, turn) EXCEPT !.rates = exchange.temporary, !.lock = NoRate]
  BY DEF RenameRates
<1> HIDE DEF turn
<1>4. StepTo(t, turn) /\ exchange'.rates = exchange.temporary
  BY <1>3 DEF RateInv, RateTypeOK, Step, StepTo
<1>5. /\ RateTypeOK'
      /\ exchange'.threads[t] = turn
      /\ \A u \in Converters \ {t} : exchange'.threads[u] = exchange.threads[u]
  BY <1>2, <1>4, StepChanges DEF RateInv
<1>6. \A u \in Converters : ~Replacing(u)'
  BY <1>1, <1>2, <1>5, OneReplaces DEF Replacing, Thread
<1> QED
  BY <1>1, <1>4, <1>5, <1>6 DEF RateInv, HoldsLock, Replacing

LEMMA EndKeepsRateInv == RateInv /\ PaletteEnds => RateInv' /\ exchange'.rates = exchange.rates
<1> SUFFICES ASSUME RateInv, PaletteEnds PROVE RateInv' /\ exchange'.rates = exchange.rates
  OBVIOUS
<1>1. /\ RateTypeOK' /\ exchange'.rates = exchange.rates
      /\ exchange'.threads = [t \in Converters |-> IdleThread]
  BY DEF RateInv, RateTypeOK, PaletteEnds, IdleThread, ThreadState
<1>2. \A t \in Converters : ~Replacing(t)'
  BY <1>1 DEF Replacing, Thread, IdleThread
<1> QED
  BY <1>1, <1>2 DEF RateInv, HoldsLock, Replacing

LEMMA NextRateInv == RateInv /\ [RateNext]_exchange => RateInv'
<1> SUFFICES ASSUME RateInv, [RateNext]_exchange PROVE RateInv'
  OBVIOUS
<1>1. CASE ClockTicks
  BY <1>1, ClockKeepsRateInv
<1>2. CASE PaletteEnds
  BY <1>2, EndKeepsRateInv
<1>3. ASSUME NEW t \in Converters, NEW k \in Pairs, BeginConversion(t, k) PROVE RateInv'
  BY <1>3, BeginKeepsRateInv
<1>4. ASSUME NEW t \in Converters, FetchFails(t) \/ FetchSucceeds(t) PROVE RateInv'
  BY <1>4, FetchKeepsRateInv
<1>5. ASSUME NEW t \in Converters, LockCache(t) PROVE RateInv'
  BY <1>5, LockKeepsRateInv
<1>6. ASSUME NEW t \in Converters, WriteRates(t) PROVE RateInv'
  BY <1>6, WriteKeepsRateInv
<1>7. ASSUME NEW t \in Converters, RenameRates(t) PROVE RateInv'
  BY <1>7, RenameKeepsRateInv
<1>8. CASE UNCHANGED exchange
  BY <1>8 DEF RateInv, RateTypeOK, HoldsLock, Replacing, Thread, Covers
<1> QED
  BY <1>1, <1>2, <1>3, <1>4, <1>5, <1>6, <1>7, <1>8 DEF RateNext

\* Only the rename of a complete save changes the file, and it adds to it.
LEMMA NextKeepsRates ==
  ASSUME RateInv, RateNext
  PROVE  Covers(exchange'.rates, exchange.rates)
<1>1. CASE ClockTicks
  BY <1>1 DEF ClockTicks, RateInv, RateTypeOK, Covers
<1>2. CASE PaletteEnds
  BY <1>2, EndKeepsRateInv DEF Covers
<1>3. ASSUME NEW t \in Converters,
             \/ \E k \in Pairs : BeginConversion(t, k)
             \/ FetchFails(t) \/ FetchSucceeds(t) \/ LockCache(t) \/ WriteRates(t)
      PROVE  exchange'.rates = exchange.rates
  <2>1. ASSUME NEW k \in Pairs, BeginConversion(t, k) PROVE exchange'.rates = exchange.rates
    BY <2>1 DEF BeginConversion, Step, RateInv, RateTypeOK
  <2>2. CASE FetchFails(t) \/ FetchSucceeds(t)
    BY <2>2 DEF FetchFails, FetchSucceeds, Step, RateInv, RateTypeOK
  <2>3. CASE LockCache(t)
    BY <2>3 DEF LockCache, Step, RateInv, RateTypeOK
  <2>4. CASE WriteRates(t)
    BY <2>4 DEF WriteRates, Step, RateInv, RateTypeOK
  <2> QED
    BY <1>3, <2>1, <2>2, <2>3, <2>4
<1>4. ASSUME NEW t \in Converters, RenameRates(t)
      PROVE  Covers(exchange'.rates, exchange.rates)
  BY <1>4, RenameKeepsRateInv
<1> QED
  BY <1>1, <1>2, <1>3, <1>4 DEF RateNext, Covers

\* The lock is held while the file is replaced, and what replaces it has every
\* rate of it (save_rate and CACHE_WRITE of ui/currency.rs).
THEOREM RateInvariant == RateSpec => []RateInv
  BY InitRateInv, NextRateInv, PTL DEF RateSpec

\* The file, the lock and the threads have their types.
THEOREM RatesTypeCorrect == RateSpec => []RateTypeOK
<1>1. RateInv => RateTypeOK
  BY DEF RateInv
<1> QED
  BY <1>1, RateInvariant, PTL

\* A rate once kept stays in the file, whatever conversions end at the same time
\* and whenever the window closes (save_rate of ui/currency.rs).
THEOREM NoRateIsForgotten == RateSpec => NoRateForgotten
<1>1. RateInv /\ [RateNext]_exchange =>
        [\A k \in Pairs : exchange.rates[k] # NoRate => exchange'.rates[k] # NoRate]_exchange
  BY NextKeepsRates DEF Covers
<1> QED
  BY <1>1, RateInvariant, PTL DEF RateSpec, NoRateForgotten

(***************************************************************************)
(* The registry and the installed packages for any packages, versions,     *)
(* processes, crashes and leftover files.                                  *)
(*                                                                         *)
(* Nothing is locked.  What holds the files together is that a published   *)
(* version never changes its content: a process that is about to rename    *)
(* has found none or its own, and whoever may have renamed since has the   *)
(* same, or has met it: that is the one way a version is lost.  So what a  *)
(* process has found or verified stays true behind it until writers of two *)
(* contents of its version have met.                                       *)
(***************************************************************************)
Busy(i) == process[i].phase # "idle"
Clash(directory, v) == <<directory, v>> \in clashed

\* A file of a version is a package of that version.
OfItsVersion(table) == \A v \in Versions : table[v] # Absent => VersionOf[table[v]] = v

\* Those about to rename a file of one version have the same package, or have met.
Agrees(i, directory) ==
    \A j \in Pids \ {i} :
        process[j].phase = RenameOf(directory) /\ VersionIn(j) = VersionIn(i) =>
            process[j].package = process[i].package \/ Clash(directory, VersionIn(i))
SameWriters ==
    \A d \in Directories : \A i \in Pids :
        process[i].phase = RenameOf(d) => Agrees(i, d)

\* What a process knows of the files at each phase.
Knows(i) ==
    LET k == process[i].package
        v == VersionOf[k]
    IN  /\ k \in Packages
        /\ process[i].phase = "published-rename" =>
              published[v] \in {Absent, k} \/ Clash("published", v)
        /\ process[i].phase \in {"index", "index-rename", "verified"} =>
              published[v] = k \/ Clash("published", v)
        /\ process[i].phase = "verified" => published[v] # Absent
        /\ process[i].phase = "installed-rename" =>
              installed[v] \in {Absent, k} \/ Clash("installed", v)
        /\ process[i].phase = "current" =>
              installed[v] # Absent /\ (installed[v] = k \/ Clash("installed", v))
        /\ process[i].signed => index[v] = k \/ Clash("published", v)

RegistryInv ==
    /\ RegistryTypeOK
    /\ OfItsVersion(published) /\ OfItsVersion(index) /\ OfItsVersion(installed)
    /\ PublishedIsServable
    /\ current # Absent => installed[current] # Absent
    /\ SameWriters
    /\ \A i \in Pids : Busy(i) => Knows(i)

\* The registry starts empty.
LEMMA InitRegistryInv == RegistryInit => RegistryInv
<1> SUFFICES ASSUME RegistryInit PROVE RegistryInv
  OBVIOUS
<1>1. \A i \in Pids : process[i].phase = "idle"
  BY DEF RegistryInit, Idle
<1>2. SameWriters
  BY <1>1 DEF SameWriters, RenameOf, Directories
<1> QED
  BY <1>1, <1>2, RegistryAssumption
     DEF RegistryInit, RegistryInv, RegistryTypeOK, OfItsVersion, PublishedIsServable,
         Busy, Idle, Phases

\* A step of i that writes no package: its own phase has to fit the files, and
\* its package the other processes about to rename.
LEMMA OwnStepKeepsRegistryInv ==
  ASSUME RegistryInv, RegistryTypeOK', NEW i \in Pids,
         published' = published, index' = index, installed' = installed,
         current' = current, clashed \subseteq clashed',
         \A j \in Pids \ {i} : process'[j] = process[j],
         Busy(i)' => Knows(i)',
         \A d \in Directories : process'[i].phase = RenameOf(d) => Agrees(i, d)'
  PROVE  RegistryInv'
<1>1. \A d \in Directories, v \in Versions : Clash(d, v) => Clash(d, v)'
  BY DEF Clash
<1>2. \A j \in Pids \ {i} : Busy(j) => Knows(j) /\ VersionIn(j) \in Versions
  BY RegistryAssumption DEF RegistryInv, Knows, VersionIn
<1>3. SameWriters'
  <2> SUFFICES ASSUME NEW d \in Directories, NEW j \in Pids,
                      process'[j].phase = RenameOf(d),
                      NEW l \in Pids \ {j}, process'[l].phase = RenameOf(d),
                      VersionIn(l)' = VersionIn(j)'
               PROVE  process'[l].package = process'[j].package \/ Clash(d, VersionIn(j))'
    BY DEF SameWriters, Agrees
  <2>1. CASE j = i
    BY <2>1 DEF Agrees
  <2>2. CASE l = i
    <3>1. process'[j].package = process'[l].package \/ Clash(d, VersionIn(l))'
      BY <2>2 DEF Agrees
    <3> QED
      BY <3>1
  <2>3. CASE j # i /\ l # i
    <3>1. /\ process'[j] = process[j] /\ process'[l] = process[l]
          /\ VersionIn(j)' = VersionIn(j) /\ VersionIn(l)' = VersionIn(l)
      BY <2>3 DEF VersionIn
    <3>2. process[l].package = process[j].package \/ Clash(d, VersionIn(j))
      BY <3>1 DEF RegistryInv, SameWriters, Agrees
    <3>3. Busy(j)
      BY <3>1 DEF Busy, RenameOf, Directories
    <3> QED
      BY <1>1, <1>2, <2>3, <3>1, <3>2, <3>3
  <2> QED
    BY <2>1, <2>2, <2>3
<1>4. \A j \in Pids : Busy(j)' => Knows(j)'
  <2> SUFFICES ASSUME NEW j \in Pids \ {i}, Busy(j)' PROVE Knows(j)'
    OBVIOUS
  <2>1. process'[j] = process[j] /\ Knows(j) /\ VersionOf[process[j].package] \in Versions
    BY <1>2 DEF Busy, VersionIn
  <2>2. "published" \in Directories /\ "installed" \in Directories
    BY DEF Directories
  <2> QED
    BY <1>1, <2>1, <2>2 DEF Knows
<1>5. PublishedIsServable'
  BY DEF RegistryInv, PublishedIsServable
<1> QED
  BY <1>3, <1>4, <1>5 DEF RegistryInv, OfItsVersion

\* The phases before a rename are no others.
LEMMA RenamePhases ==
  ASSUME NEW d \in Directories
  PROVE  /\ RenameOf(d) \in Phases \ {"idle", "verified", "current", "published", "index",
                                      "installed"}
         /\ RenameOf(d) = "published-rename" => d = "published"
         /\ RenameOf(d) = "index-rename" => d = "index"
         /\ RenameOf(d) = "installed-rename" => d = "installed"
         /\ \A e \in Directories : RenameOf(e) = RenameOf(d) => e = d
         /\ After(d) \in {"idle", "index", "current"}
  BY DEF RenameOf, After, Phases, Directories

LEMMA StartKeepsRegistryInv ==
  ASSUME RegistryInv, NEW i \in Pids, NEW k \in Packages,
         NEW phase \in {"published", "verified", "installed"}, NEW signed \in BOOLEAN,
         phase = "verified" => published[VersionOf[k]] = k,
         signed => index[VersionOf[k]] = k,
         Start(i, phase, k, signed)
  PROVE  RegistryInv'
<1>1. RegistryTypeOK'
  BY RegistryAssumption DEF Start, directories, RegistryInv, RegistryTypeOK, Phases
<1>2. /\ process'[i] = [phase |-> phase, package |-> k, signed |-> signed]
      /\ \A j \in Pids \ {i} : process'[j] = process[j]
      /\ published' = published /\ index' = index /\ installed' = installed
      /\ current' = current /\ clashed' = clashed
  BY DEF Start, directories, RegistryInv, RegistryTypeOK
<1>3. Knows(i)'
  BY <1>2, RegistryAssumption DEF Knows
<1>4. \A d \in Directories : process'[i].phase # RenameOf(d)
  BY <1>2, RenamePhases
<1> QED
  BY <1>1, <1>2, <1>3, <1>4, OwnStepKeepsRegistryInv

\* A record that can be read names the published package of its version.
LEMMA FromRegistryKeepsRegistryInv ==
  ASSUME RegistryInv, NEW i \in Pids, NEW v \in Versions, InstallFromRegistry(i, v)
  PROVE  RegistryInv'
<1>1. index[v] \in Packages /\ VersionOf[index[v]] = v /\ published[v] = index[v]
  BY DEF InstallFromRegistry, Loadable, RegistryInv, RegistryTypeOK, OfItsVersion
<1>2. Start(i, "verified", index[v], TRUE)
  BY DEF InstallFromRegistry
<1> QED
  BY <1>1, <1>2, StartKeepsRegistryInv

\* What is read again is a package of the verified version, and the verified one
\* unless publishers of that version have met.
LEMMA ReadAgainKeepsRegistryInv ==
  ASSUME RegistryInv, NEW i \in Pids, ReadAgain(i)
  PROVE  RegistryInv'
<1> DEFINE k == process[i].package
           v == VersionIn(i)
           again == published[v]
<1>1. /\ Busy(i) /\ Knows(i) /\ process[i].phase = "verified"
      /\ k \in Packages /\ v \in Versions /\ VersionOf[k] = v
  BY RegistryAssumption DEF ReadAgain, RegistryInv, Busy, Knows, VersionIn
<1>2. /\ again \in Packages /\ VersionOf[again] = v
      /\ again = k \/ Clash("published", v)
      /\ process[i].signed => index[v] = k \/ Clash("published", v)
  BY <1>1 DEF Knows, RegistryInv, RegistryTypeOK, OfItsVersion, VersionIn
<1>3. /\ process' = [process EXCEPT ![i].phase = "installed", ![i].package = again]
      /\ published' = published /\ index' = index /\ installed' = installed
      /\ current' = current /\ leftovers' = leftovers
      /\ runs' = runs /\ faults' = faults /\ clashed' = clashed
  BY DEF ReadAgain, directories
<1> HIDE DEF again, k, v
<1>4. process'[i] = [process[i] EXCEPT !.phase = "installed", !.package = again]
  BY <1>3 DEF RegistryInv, RegistryTypeOK
<1>5. /\ process'[i].package = again /\ process'[i].phase = "installed"
      /\ process'[i].signed = process[i].signed
  BY <1>4 DEF RegistryInv, RegistryTypeOK
<1>6. \A j \in Pids \ {i} : process'[j] = process[j]
  BY <1>3 DEF RegistryInv, RegistryTypeOK
<1>7. process' \in [Pids -> [phase : Phases, package : Packages \cup {Absent},
                             signed : BOOLEAN]]
  <2>1. [process[i] EXCEPT !.phase = "installed", !.package = again]
            \in [phase : Phases, package : Packages \cup {Absent}, signed : BOOLEAN]
    BY <1>2 DEF Phases, RegistryInv, RegistryTypeOK
  <2> QED
    BY <1>3, <1>4, <1>6, <2>1 DEF RegistryInv, RegistryTypeOK
<1>8. RegistryTypeOK'
  BY <1>3, <1>7 DEF RegistryInv, RegistryTypeOK
<1>9. Knows(i)'
  <2>1. process'[i].signed => index'[v] = again \/ <<"published", v>> \in clashed'
    BY <1>2, <1>3, <1>5 DEF Clash
  <2> QED
    BY <1>2, <1>5, <2>1 DEF Knows, Clash
<1>10. \A d \in Directories : process'[i].phase # RenameOf(d)
  BY <1>5, RenamePhases
<1> QED
  BY <1>3, <1>6, <1>8, <1>9, <1>10, OwnStepKeepsRegistryInv

\* A process that stops knows nothing any more.
LEMMA StopKeepsRegistryInv ==
  ASSUME RegistryInv, RegistryTypeOK', NEW i \in Pids, Stop(i),
         published' = published, index' = index, installed' = installed,
         current' = current, clashed' = clashed
  PROVE  RegistryInv'
<1>1. process'[i].phase = "idle" /\ \A j \in Pids \ {i} : process'[j] = process[j]
  BY DEF Stop, Idle, RegistryInv, RegistryTypeOK
<1>2. \A d \in Directories : process'[i].phase # RenameOf(d)
  BY <1>1, RenamePhases
<1> QED
  BY <1>1, <1>2, OwnStepKeepsRegistryInv DEF Busy

\* A process that only goes to another phase keeps its package.
LEMMA GotoKeepsRegistryInv ==
  ASSUME RegistryInv, NEW i \in Pids, NEW phase \in Phases, Busy(i), Goto(i, phase),
         leftovers' \subseteq Directories \X Versions \X Pids,
         clashed \subseteq clashed', clashed' \subseteq Directories \X Versions,
         published' = published, index' = index, installed' = installed,
         current' = current, runs' = runs, faults' = faults,
         LET k == process[i].package
             v == VersionIn(i)
         IN  /\ phase = "published-rename" => published[v] \in {Absent, k}
             /\ phase \in {"index", "index-rename"} =>
                   published[v] = k \/ Clash("published", v)
             /\ phase = "installed-rename" => installed[v] \in {Absent, k}
             /\ phase # "verified"
             /\ phase = "current" => installed[v] = k,
         \A d \in Directories : phase = RenameOf(d) => Agrees(i, d)'
  PROVE  RegistryInv'
<1>1. /\ process'[i].phase = phase /\ process'[i].package = process[i].package
      /\ process'[i].signed = process[i].signed
      /\ \A j \in Pids \ {i} : process'[j] = process[j]
  BY DEF Goto, RegistryInv, RegistryTypeOK
<1>2. RegistryTypeOK'
  BY DEF Goto, RegistryInv, RegistryTypeOK
<1>3. /\ Knows(i) /\ process[i].package \in Packages /\ process[i].package # Absent
  BY RegistryAssumption DEF RegistryInv, Knows
<1>4. Clash("published", VersionIn(i)) => Clash("published", VersionIn(i))'
  BY <1>1 DEF Clash, VersionIn
<1>5. Knows(i)'
  BY <1>1, <1>3, <1>4 DEF Knows, VersionIn
<1> QED
  BY <1>1, <1>2, <1>5, OwnStepKeepsRegistryInv

\* What is there with the same content, and what is in the way, is found without
\* a change of the files.
LEMMA FindKeepsRegistryInv ==
  ASSUME RegistryInv, NEW i \in Pids, NEW d \in Directories,
         AlreadyThere(i, d) \/ VersionConflict(i, d)
  PROVE  RegistryInv'
<1>1. Busy(i) /\ Knows(i) /\ process[i].phase = d
  BY DEF AlreadyThere, VersionConflict, RegistryInv, Busy, Directories
<1>2. /\ published' = published /\ index' = index /\ installed' = installed
      /\ current' = current /\ leftovers' = leftovers /\ runs' = runs /\ faults' = faults
      /\ clashed' = clashed
  BY DEF AlreadyThere, VersionConflict, directories
<1>3. /\ leftovers' \subseteq Directories \X Versions \X Pids
      /\ clashed' \subseteq Directories \X Versions /\ clashed \subseteq clashed'
  BY <1>2 DEF RegistryInv, RegistryTypeOK
<1>4. CASE Stop(i)
  <2>1. RegistryTypeOK'
    BY <1>2, <1>4 DEF Stop, Idle, Phases, RegistryInv, RegistryTypeOK
  <2> QED
    BY <1>2, <1>4, <2>1, StopKeepsRegistryInv
<1>5. CASE AlreadyThere(i, d) /\ d # "index"
  <2>1. Goto(i, After(d)) /\ Holds(d, VersionIn(i)) = process[i].package
    BY <1>5 DEF AlreadyThere, Proceed, After, Same, VersionIn, Directories
  <2>2. \A e \in Directories : After(d) # RenameOf(e)
    BY RenamePhases
  <2>3. CASE d = "published"
    <3>1. /\ Goto(i, "index") /\ "index" \in Phases
          /\ published[VersionIn(i)] = process[i].package
          /\ \A e \in Directories : "index" # RenameOf(e)
      BY <2>1, <2>2, <2>3 DEF After, Holds, Phases
    <3> QED
      BY <1>1, <1>2, <1>3, <3>1, GotoKeepsRegistryInv
  <2>4. CASE d = "installed"
    <3>1. /\ Goto(i, "current") /\ "current" \in Phases
          /\ installed[VersionIn(i)] = process[i].package
          /\ \A e \in Directories : "current" # RenameOf(e)
      BY <2>1, <2>2, <2>4 DEF After, Holds, Phases
    <3> QED
      BY <1>1, <1>2, <1>3, <3>1, GotoKeepsRegistryInv
  <2> QED
    BY <1>5, <2>3, <2>4 DEF Directories
<1> QED
  BY <1>4, <1>5 DEF AlreadyThere, VersionConflict, Proceed, After, Directories

\* A process writes a temporary file when there is no package of its version, and
\* notices nobody.
LEMMA WriteKeepsRegistryInv ==
  ASSUME RegistryInv, NEW i \in Pids, NEW d \in Directories, WriteTemporary(i, d)
  PROVE  RegistryInv'
<1> DEFINE new == <<d, VersionIn(i), i>>
<1>1. Busy(i) /\ Knows(i) /\ process[i].phase = d
  BY DEF WriteTemporary, RegistryInv, Busy, Directories
<1>2. /\ published' = published /\ index' = index /\ installed' = installed
      /\ current' = current /\ runs' = runs /\ faults' = faults
      /\ Holds(d, VersionIn(i)) \in {Absent, process[i].package}
  BY DEF WriteTemporary, Conflicts, VersionIn
<1>3. CASE Stop(i) /\ leftovers' = leftovers /\ clashed' = clashed
  <2>1. RegistryTypeOK'
    BY <1>2, <1>3 DEF Stop, Idle, Phases, RegistryInv, RegistryTypeOK
  <2> QED
    BY <1>2, <1>3, <2>1, StopKeepsRegistryInv
<1>4. CASE /\ Goto(i, RenameOf(d)) /\ leftovers' = leftovers \cup {new}
           /\ clashed' = IF Meets(i, d) THEN clashed \cup {<<d, VersionIn(i)>>} ELSE clashed
  <2>1. VersionIn(i) \in Versions
    BY <1>1, RegistryAssumption DEF Knows, VersionIn
  <2>2. /\ leftovers' \subseteq Directories \X Versions \X Pids
        /\ clashed' \subseteq Directories \X Versions /\ clashed \subseteq clashed'
    BY <1>4, <2>1 DEF RegistryInv, RegistryTypeOK
  <2>3. Agrees(i, d)'
    <3>1. /\ process'[i].package = process[i].package
          /\ VersionIn(i)' = VersionIn(i)
          /\ \A j \in Pids \ {i} : process'[j] = process[j] /\ VersionIn(j)' = VersionIn(j)
      BY <1>4 DEF Goto, RegistryInv, RegistryTypeOK, VersionIn
    <3>2. CASE Meets(i, d)
      BY <1>4, <3>1, <3>2 DEF Agrees, Clash
    <3>3. CASE ~Meets(i, d)
      BY <3>1, <3>3 DEF Agrees, Meets
    <3> QED
      BY <3>2, <3>3
  <2>4. \A e \in Directories : RenameOf(d) = RenameOf(e) => Agrees(i, e)'
    BY <2>3, RenamePhases
  <2>5. d = "index" => published[VersionIn(i)] = process[i].package
                          \/ Clash("published", VersionIn(i))
    BY <1>1 DEF Knows, VersionIn
  <2>6. /\ d = "published" => published[VersionIn(i)] \in {Absent, process[i].package}
        /\ d = "installed" => installed[VersionIn(i)] \in {Absent, process[i].package}
    BY <1>2 DEF Holds
  <2>7. /\ RenameOf(d) \in Phases \ {"verified", "current", "index"}
        /\ RenameOf(d) = "published-rename" => d = "published"
        /\ RenameOf(d) = "index-rename" => d = "index"
        /\ RenameOf(d) = "installed-rename" => d = "installed"
    BY RenamePhases
  <2> QED
    BY <1>1, <1>2, <1>4, <2>2, <2>4, <2>5, <2>6, <2>7, GotoKeepsRegistryInv
<1> QED
  BY <1>3, <1>4 DEF WriteTemporary

\* A rename puts the package of i where there was none or the same, unless it has
\* met another; i goes on to a phase that relies on nothing else.
LEMMA RenameKeepsRegistryInv ==
  ASSUME RegistryInv, NEW i \in Pids, NEW d \in Directories, RenameTemporary(i, d)
  PROVE  RegistryInv'
<1> DEFINE k == process[i].package
           v == VersionIn(i)
<1>1. /\ Busy(i) /\ Knows(i) /\ process[i].phase = RenameOf(d)
      /\ k \in Packages /\ v \in Versions /\ VersionOf[k] = v /\ k # Absent
  BY RegistryAssumption
     DEF RenameTemporary, RenameOf, RegistryInv, Busy, Directories, Knows, VersionIn
<1>2. /\ ~Clash(d, v) =>
            \A j \in Pids : process[j].phase = RenameOf(d) /\ VersionIn(j) = v =>
                               process[j].package = k
      /\ \A u \in Versions, e \in Directories : Clash(e, u)' <=> Clash(e, u)
  <2>1. clashed' = clashed
    BY DEF RenameTemporary
  <2> QED
    BY <1>1, <2>1 DEF RegistryInv, SameWriters, Agrees, Clash
<1>3. /\ process'[i].phase = After(d)
      /\ d # "index" => process'[i].package = k /\ process'[i].signed = process[i].signed
      /\ \A j \in Pids \ {i} : process'[j] = process[j]
      /\ process' \in [Pids -> [phase : Phases, package : Packages \cup {Absent},
                                signed : BOOLEAN]]
  <2>1. CASE d = "index"
    <3>1. process' = [process EXCEPT ![i] = Idle]
      BY <2>1 DEF RenameTemporary, Proceed, After, Stop
    <3>2. /\ Idle \in [phase : Phases, package : Packages \cup {Absent}, signed : BOOLEAN]
          /\ Idle.phase = "idle"
      BY DEF Idle, Phases
    <3>3. After(d) = "idle"
      BY <2>1 DEF After
    <3> QED
      BY <2>1, <3>1, <3>2, <3>3 DEF RegistryInv, RegistryTypeOK
  <2>2. CASE d \in {"published", "installed"}
    BY <2>2 DEF RenameTemporary, Proceed, After, Goto, Phases, RegistryInv, RegistryTypeOK
  <2> QED
    BY <2>1, <2>2 DEF Directories
<1>4. /\ current' = current /\ runs' = runs /\ faults' = faults
      /\ leftovers' \subseteq Directories \X Versions \X Pids
      /\ clashed' \subseteq Directories \X Versions
  BY DEF RenameTemporary, RegistryInv, RegistryTypeOK
<1>5. /\ published \in [Versions -> Packages \cup {Absent}]
      /\ index \in [Versions -> Packages \cup {Absent}]
      /\ installed \in [Versions -> Packages \cup {Absent}]
  BY DEF RegistryInv, RegistryTypeOK
<1>6. SameWriters'
  <2> SUFFICES ASSUME NEW e \in Directories, NEW j \in Pids,
                      process'[j].phase = RenameOf(e),
                      NEW l \in Pids \ {j}, process'[l].phase = RenameOf(e),
                      VersionIn(l)' = VersionIn(j)'
               PROVE  process'[l].package = process'[j].package \/ Clash(e, VersionIn(j))'
    BY DEF SameWriters, Agrees
  <2>1. j # i /\ l # i
    BY <1>3, RenamePhases
  <2>2. /\ process'[j] = process[j] /\ process'[l] = process[l]
        /\ VersionIn(j)' = VersionIn(j) /\ VersionIn(l)' = VersionIn(l)
    BY <1>3, <2>1 DEF VersionIn
  <2>3. process[l].package = process[j].package \/ Clash(e, VersionIn(j))
    BY <2>2 DEF RegistryInv, SameWriters, Agrees
  <2>4. clashed' = clashed
    BY DEF RenameTemporary
  <2> QED
    BY <2>2, <2>3, <2>4 DEF Clash
<1>7. \A j \in Pids \ {i} : Busy(j)' =>
         /\ Busy(j) /\ Knows(j) /\ process'[j] = process[j]
         /\ process[j].package \in Packages /\ VersionOf[process[j].package] \in Versions
         /\ VersionIn(j) = VersionOf[process[j].package]
  BY <1>3, RegistryAssumption DEF RegistryInv, Knows, Busy, VersionIn
<1>8. "published" \in Directories /\ "installed" \in Directories
  BY DEF Directories
<1> HIDE DEF k, v
<1>9. CASE d = "published"
  <2>1. /\ published' = [published EXCEPT ![v] = k]
        /\ index' = index /\ installed' = installed
    BY <1>9 DEF RenameTemporary, With, k, v
  <2>2. /\ published' \in [Versions -> Packages \cup {Absent}] /\ published'[v] = k
        /\ \A u \in Versions \ {v} : published'[u] = published[u]
        /\ published[v] \in {Absent, k} \/ Clash("published", v)
    BY <1>1, <1>5, <1>9, <2>1 DEF Knows, RenameOf, k, v, VersionIn
  <2>3. RegistryTypeOK'
    BY <1>3, <1>4, <1>5, <2>1, <2>2 DEF RegistryInv, RegistryTypeOK
  <2>4. OfItsVersion(published)' /\ PublishedIsServable'
    <3>1. \A u \in Versions :
             index[u] # Absent => published[u] = index[u] \/ Clash("published", u)
      BY DEF RegistryInv, PublishedIsServable, Clash
    <3>2. \A u \in Versions :
             index'[u] # Absent => published'[u] = index'[u] \/ Clash("published", u)'
      BY <1>1, <1>2, <1>8, <2>1, <2>2, <3>1
    <3>3. PublishedIsServable'
      BY <3>2 DEF PublishedIsServable, Clash
    <3> QED
      BY <1>1, <2>2, <3>3 DEF RegistryInv, OfItsVersion
  <2>5. ASSUME NEW j \in Pids \ {i}, Busy(j)' PROVE Knows(j)'
    <3>1. /\ Knows(j) /\ process'[j] = process[j]
          /\ process[j].package \in Packages /\ VersionOf[process[j].package] \in Versions
          /\ process[j].package # Absent
      BY <1>7, <2>5, RegistryAssumption
    <3>2. CASE VersionOf[process[j].package] = v
      <4>1. process[j].phase = "published-rename" =>
               process[j].package = k \/ Clash("published", v)
        BY <1>2, <1>7, <1>9, <2>5, <3>2 DEF RenameOf
      <4> QED
        BY <1>1, <1>2, <1>8, <2>1, <2>2, <3>1, <3>2, <4>1 DEF Knows
    <3>3. CASE VersionOf[process[j].package] # v
      BY <1>2, <1>8, <2>1, <2>2, <3>1, <3>3 DEF Knows
    <3> QED
      BY <3>2, <3>3
  <2>6. Knows(i)'
    <3>1. /\ process'[i].phase = "index" /\ process'[i].package = k
          /\ process'[i].signed = process[i].signed
      BY <1>3, <1>9 DEF After
    <3>2. process[i].signed => index[v] = k \/ Clash("published", v)
      BY <1>1 DEF Knows, k, v, VersionIn
    <3> QED
      BY <1>1, <1>2, <1>8, <2>1, <2>2, <3>1, <3>2 DEF Knows
  <2> QED
    BY <1>4, <1>6, <2>1, <2>3, <2>4, <2>5, <2>6 DEF RegistryInv, OfItsVersion
<1>10. CASE d = "index"
  <2>1. /\ index' = [index EXCEPT ![v] = k]
        /\ published' = published /\ installed' = installed
    BY <1>10 DEF RenameTemporary, With, k, v
  <2>2. /\ index' \in [Versions -> Packages \cup {Absent}] /\ index'[v] = k
        /\ \A u \in Versions \ {v} : index'[u] = index[u]
        /\ published[v] = k \/ Clash("published", v)
    BY <1>1, <1>5, <1>10, <2>1 DEF Knows, RenameOf, k, v, VersionIn
  <2>3. RegistryTypeOK'
    BY <1>3, <1>4, <1>5, <2>1, <2>2 DEF RegistryInv, RegistryTypeOK
  <2>4. \A u \in Versions :
           index[u] # Absent => published[u] = index[u] \/ Clash("published", u)
    BY DEF RegistryInv, PublishedIsServable, Clash
  <2>5. OfItsVersion(index)' /\ PublishedIsServable'
    <3>1. \A u \in Versions :
             index'[u] # Absent => published'[u] = index'[u] \/ Clash("published", u)'
      BY <1>1, <1>2, <1>8, <2>1, <2>2, <2>4
    <3>2. PublishedIsServable'
      BY <3>1 DEF PublishedIsServable, Clash
    <3> QED
      BY <1>1, <2>2, <3>2 DEF RegistryInv, OfItsVersion
  <2>6. ASSUME NEW j \in Pids \ {i}, Busy(j)' PROVE Knows(j)'
    <3>1. /\ Knows(j) /\ process'[j] = process[j]
          /\ process[j].package \in Packages /\ VersionOf[process[j].package] \in Versions
          /\ process[j].package # Absent
      BY <1>7, <2>6, RegistryAssumption
    <3>2. process[j].signed /\ VersionOf[process[j].package] = v =>
             process[j].package = k \/ Clash("published", v)
      BY <1>1, <2>2, <2>4, <3>1 DEF Knows
    <3> QED
      BY <1>2, <1>8, <2>1, <2>2, <3>1, <3>2 DEF Knows
  <2>7. ~Busy(i)'
    BY <1>3, <1>10 DEF Busy, After
  <2> QED
    BY <1>4, <1>6, <2>1, <2>3, <2>5, <2>6, <2>7 DEF RegistryInv, OfItsVersion
<1>11. CASE d = "installed"
  <2>1. /\ installed' = [installed EXCEPT ![v] = k]
        /\ published' = published /\ index' = index
    BY <1>11 DEF RenameTemporary, With, k, v
  <2>2. /\ installed' \in [Versions -> Packages \cup {Absent}] /\ installed'[v] = k
        /\ \A u \in Versions \ {v} : installed'[u] = installed[u]
        /\ installed[v] \in {Absent, k} \/ Clash("installed", v)
    BY <1>1, <1>5, <1>11, <2>1 DEF Knows, RenameOf, k, v, VersionIn
  <2>3. RegistryTypeOK'
    BY <1>3, <1>4, <1>5, <2>1, <2>2 DEF RegistryInv, RegistryTypeOK
  <2>4. /\ OfItsVersion(installed)'
        /\ current' # Absent => installed'[current'] # Absent
    BY <1>1, <1>4, <2>1, <2>2
       DEF RegistryInv, RegistryTypeOK, OfItsVersion
  <2>5. PublishedIsServable'
    <3>1. clashed' = clashed
      BY DEF RenameTemporary
    <3> QED
      BY <2>1, <3>1 DEF RegistryInv, PublishedIsServable
  <2>6. ASSUME NEW j \in Pids \ {i}, Busy(j)' PROVE Knows(j)'
    <3>1. /\ Knows(j) /\ process'[j] = process[j]
          /\ process[j].package \in Packages /\ VersionOf[process[j].package] \in Versions
          /\ process[j].package # Absent
      BY <1>7, <2>6, RegistryAssumption
    <3>2. CASE VersionOf[process[j].package] = v
      <4>1. process[j].phase = "installed-rename" =>
               process[j].package = k \/ Clash("installed", v)
        BY <1>2, <1>7, <1>11, <2>6, <3>2 DEF RenameOf
      <4> QED
        BY <1>1, <1>2, <1>8, <2>1, <2>2, <3>1, <3>2, <4>1 DEF Knows
    <3>3. CASE VersionOf[process[j].package] # v
      BY <1>2, <1>8, <2>1, <2>2, <3>1, <3>3 DEF Knows
    <3> QED
      BY <3>2, <3>3
  <2>7. Knows(i)'
    <3>1. /\ process'[i].phase = "current" /\ process'[i].package = k
          /\ process'[i].signed = process[i].signed
      BY <1>3, <1>11 DEF After
    <3>2. process[i].signed => index[v] = k \/ Clash("published", v)
      BY <1>1 DEF Knows, k, v, VersionIn
    <3> QED
      BY <1>1, <1>2, <1>8, <2>1, <2>2, <3>1, <3>2 DEF Knows
  <2> QED
    BY <1>4, <1>6, <2>1, <2>3, <2>4, <2>5, <2>6, <2>7 DEF RegistryInv, OfItsVersion
<1> QED
  BY <1>9, <1>10, <1>11 DEF Directories

LEMMA MarkKeepsRegistryInv ==
  ASSUME RegistryInv, NEW i \in Pids, MarkCurrent(i)
  PROVE  RegistryInv'
<1>1. /\ Busy(i) /\ Knows(i) /\ VersionIn(i) \in Versions
      /\ installed[VersionIn(i)] # Absent
  BY RegistryAssumption DEF MarkCurrent, RegistryInv, Busy, Knows, VersionIn
<1>2. /\ process'[i].phase = "idle" /\ \A j \in Pids \ {i} : process'[j] = process[j]
      /\ published' = published /\ index' = index /\ installed' = installed
      /\ current' = VersionIn(i) /\ clashed' = clashed
  BY DEF MarkCurrent, Stop, Idle, RegistryInv, RegistryTypeOK
<1>3. RegistryTypeOK'
  BY <1>1 DEF MarkCurrent, Stop, Idle, Phases, RegistryInv, RegistryTypeOK
<1>4. SameWriters'
  <2>1. \A d \in Directories : process'[i].phase # RenameOf(d)
    BY <1>2, RenamePhases
  <2> QED
    BY <1>2, <2>1 DEF RegistryInv, SameWriters, Agrees, Clash, VersionIn
<1>5. \A j \in Pids : Busy(j)' => Knows(j)'
  BY <1>2 DEF RegistryInv, Busy, Knows, Clash
<1> QED
  BY <1>1, <1>2, <1>3, <1>4, <1>5 DEF RegistryInv, OfItsVersion, PublishedIsServable

\* A crash or an error ends a process and may leave its temporary file.
LEMMA FaultKeepsRegistryInv ==
  ASSUME RegistryInv, NEW i \in Pids, Fault(i)
  PROVE  RegistryInv'
<1>1. leftovers' \subseteq Directories \X Versions \X Pids
  BY DEF Fault, RegistryInv, RegistryTypeOK
<1>2. RegistryTypeOK'
  BY <1>1, RegistryAssumption DEF Fault, Stop, Idle, Phases, RegistryInv, RegistryTypeOK
<1> QED
  BY <1>2, StopKeepsRegistryInv DEF Fault

LEMMA NextRegistryInv ==
  RegistryInv /\ [RegistryNext]_registryVars => RegistryInv'
<1> SUFFICES ASSUME RegistryInv, [RegistryNext]_registryVars PROVE RegistryInv'
  OBVIOUS
<1>1. ASSUME NEW i \in Pids, NEW k \in Packages, Publish(i, k) \/ InstallFromFile(i, k)
      PROVE  RegistryInv'
  BY <1>1, StartKeepsRegistryInv DEF Publish, InstallFromFile
<1>2. ASSUME NEW i \in Pids, NEW v \in Versions, InstallFromRegistry(i, v)
      PROVE  RegistryInv'
  BY <1>2, FromRegistryKeepsRegistryInv
<1>3. ASSUME NEW i \in Pids, NEW d \in Directories,
             \/ AlreadyThere(i, d) \/ VersionConflict(i, d)
             \/ WriteTemporary(i, d) \/ RenameTemporary(i, d)
      PROVE  RegistryInv'
  BY <1>3, FindKeepsRegistryInv, WriteKeepsRegistryInv, RenameKeepsRegistryInv
<1>4. ASSUME NEW i \in Pids, ReadAgain(i) \/ MarkCurrent(i) \/ Fault(i) PROVE RegistryInv'
  BY <1>4, ReadAgainKeepsRegistryInv, MarkKeepsRegistryInv, FaultKeepsRegistryInv
<1>5. CASE UNCHANGED registryVars
  <2>1. /\ published' = published /\ index' = index /\ installed' = installed
        /\ current' = current /\ process' = process /\ clashed' = clashed
    BY <1>5 DEF registryVars
  <2>2. RegistryTypeOK'
    BY <1>5 DEF registryVars, RegistryInv, RegistryTypeOK
  <2>3. SameWriters'
    BY <2>1 DEF RegistryInv, SameWriters, Agrees, Clash, VersionIn
  <2>4. \A i \in Pids : Busy(i)' => Knows(i)'
    BY <2>1 DEF RegistryInv, Busy, Knows, Clash
  <2> QED
    BY <2>1, <2>2, <2>3, <2>4 DEF RegistryInv, OfItsVersion, PublishedIsServable
<1> QED
  BY <1>1, <1>2, <1>3, <1>4, <1>5 DEF RegistryNext

\* What each process has found stays true until it acts on it, or until two writers
\* of different contents of that version have met (publish_package,
\* install_registry_package, install_package).
THEOREM RegistryInvariant == RegistrySpec => []RegistryInv
  BY InitRegistryInv, NextRegistryInv, PTL DEF RegistrySpec

\* The files and the processes have their types, whoever meets.
THEOREM RegistryTypeCorrect == RegistrySpec => []RegistryTypeOK
<1>1. RegistryInv => RegistryTypeOK
  BY DEF RegistryInv
<1> QED
  BY <1>1, RegistryInvariant, PTL

\* A version in the index can be fetched, through crashes between the package and
\* its record, the files they leave behind and any overlap of publishers but one:
\* two that found no package and rename different ones (publish_package,
\* write_immutable).
THEOREM PublishedStaysServable == RegistrySpec => []PublishedIsServable
<1>1. RegistryInv => PublishedIsServable
  BY DEF RegistryInv
<1> QED
  BY <1>1, RegistryInvariant, PTL

\* What is installed from the registry is what was verified, although it was read
\* again afterwards while others published and installed, with that one exception
\* (install_registry_package, install_package).
THEOREM OnlyVerifiedIsInstalled == RegistrySpec => []InstalledIsVerified
<1>1. RegistryInv => InstalledIsVerified
  BY DEF RegistryInv, InstalledIsVerified, Busy, Knows, VersionIn, Clash
<1> QED
  BY <1>1, RegistryInvariant, PTL
(***************************************************************************)
(* A blob that is fetched, for any sizes, sessions, interruptions, crashes *)
(* and overlaps.                                                           *)
(*                                                                         *)
(* Whatever overlaps, an open file is there and holds units.  A fetch that *)
(* began alone has counted, until another begins, every unit of the        *)
(* partial file: what it verifies is what it renames.                      *)
(***************************************************************************)
BlobUnits == 1..BlobSize \cup {Wrong}
Receiver == [phase : {"idle", "opening", "streaming", "full", "verified"},
             received : 0..BlobSize, file : {"none", "partial", "final", "unlinked"}]

IsFile(stored) == stored = NoFile \/ stored \in Seq(BlobUnits)

\* A file of content that is not longer than the blob.
HoldsUpTo(stored, size) == stored \in Seq(BlobUnits) /\ Len(stored) <= size

BlobTypes ==
    /\ fetch \in [Fetchers -> Receiver]
    /\ IsFile(partial) /\ IsFile(final)
    /\ \A f \in Fetchers :
          /\ fetch[f].file = "partial" => partial \in Seq(BlobUnits)
          /\ fetch[f].file = "final" => final \in Seq(BlobUnits)
    /\ shared \in BOOLEAN
    /\ blobFaults \in 0..MaxBlobFaults

\* What is true of a receiver alone: it has counted what is in the partial file, has
\* it open from its second step on, and what it has verified is the blob.
AtWork(f) ==
    /\ fetch[f].phase = "opening" =>
          fetch[f].received = IF partial = NoFile THEN 0 ELSE Len(partial)
    /\ fetch[f].phase # "opening" =>
          /\ HoldsUpTo(partial, BlobSize)
          /\ fetch[f].received = Len(partial) /\ fetch[f].file = "partial"
    /\ fetch[f].phase = "streaming" => Len(partial) < BlobSize
    /\ fetch[f].phase = "verified" => partial = Whole

OneByOne ==
    /\ partial = NoFile \/ HoldsUpTo(partial, BlobSize)
    /\ final \in {NoFile, Whole}
    /\ \A f \in Fetchers : fetch[f].phase # "idle" => AtWork(f)
    /\ \A f, g \in Fetchers : fetch[f].phase # "idle" /\ fetch[g].phase # "idle" => f = g

BlobInv == BlobTypes /\ (~shared => OneByOne)

LEMMA WholeFile == HoldsUpTo(Whole, BlobSize)
<1>1. BlobSize \in Nat
  BY BlobFetchAssumption
<1>2. \A n \in 1..BlobSize : Whole[n] \in BlobUnits
  BY DEF Whole, BlobUnits
<1>3. Whole \in [1..BlobSize -> BlobUnits]
  BY <1>2 DEF Whole
<1> QED
  BY <1>1, <1>3 DEF HoldsUpTo

\* A chunk, or a beginning of it, ends within the blob.
LEMMA ChunkFits ==
  ASSUME NEW offset \in 0..BlobSize
  PROVE  /\ Chunk(offset) \in Seq(BlobUnits) /\ offset + Len(Chunk(offset)) <= BlobSize
         /\ \A n \in 0..Len(Chunk(offset)) :
               /\ SubSeq(Chunk(offset), 1, n) \in Seq(BlobUnits)
               /\ Len(SubSeq(Chunk(offset), 1, n)) = n
<1> DEFINE ending == IF offset + ChunkSize > BlobSize THEN BlobSize ELSE offset + ChunkSize
           chunk == Chunk(offset)
<1>1. BlobSize \in Nat /\ ChunkSize \in Nat /\ offset \in Nat
  BY BlobFetchAssumption
<1>2. ending - offset \in Nat /\ ending <= BlobSize /\ ending \in Nat
  BY <1>1
<1>3. chunk = [n \in 1..(ending - offset) |-> offset + n]
  BY DEF Chunk
<1> HIDE DEF ending, chunk
<1>4. \A n \in 1..(ending - offset) : offset + n \in BlobUnits
  BY <1>1, <1>2 DEF BlobUnits
<1>5. chunk \in [1..(ending - offset) -> BlobUnits]
  BY <1>3, <1>4
<1>6. chunk \in Seq(BlobUnits) /\ Len(chunk) = ending - offset
  BY <1>2, <1>5
<1>7. ASSUME NEW n \in 0..Len(chunk)
      PROVE  SubSeq(chunk, 1, n) \in Seq(BlobUnits) /\ Len(SubSeq(chunk, 1, n)) = n
  <2>1. \A i \in 1..n : chunk[i] \in BlobUnits
    BY <1>2, <1>6
  <2> QED BY <1>2, <1>6, <2>1, SubSeqProperties
<1> QED
  BY <1>1, <1>2, <1>6, <1>7 DEF chunk

LEMMA LongerFile ==
  ASSUME NEW stored, HoldsUpTo(stored, BlobSize), NEW units \in Seq(BlobUnits),
         Len(stored) + Len(units) <= BlobSize
  PROVE  HoldsUpTo(stored \o units, BlobSize) /\ Len(stored \o units) = Len(stored) + Len(units)
BY ConcatProperties DEF HoldsUpTo

LEMMA InitBlobInv == BlobInit => BlobInv
<1> SUFFICES ASSUME BlobInit PROVE BlobInv
  OBVIOUS
<1>1. BlobSize \in Nat /\ MaxBlobFaults \in Nat
  BY BlobFetchAssumption
<1>2. NoFetch \in Receiver
  BY <1>1 DEF NoFetch, Receiver
<1>3. \A f \in Fetchers : fetch[f].phase = "idle" /\ fetch[f].file = "none"
  BY DEF BlobInit, NoFetch
<1>4. shared \in BOOLEAN
  BY DEF BlobInit
<1>5. BlobTypes
  BY <1>1, <1>2, <1>3, <1>4 DEF BlobInit, BlobTypes, IsFile
<1>6. OneByOne
  BY <1>3 DEF BlobInit, OneByOne
<1> QED
  BY <1>5, <1>6 DEF BlobInv

\* A fetch that begins alone starts the count, and one that does not shares.
LEMMA BeginKeepsBlobInv ==
  ASSUME BlobInv, NEW f \in Fetchers, BeginFetch(f)
  PROVE  BlobInv' /\ final' = final
<1> DEFINE found == IF partial = NoFile THEN 0 ELSE Len(partial)
<1>1. BlobSize \in Nat /\ BlobSize # 0
  BY BlobFetchAssumption
<1>2. found \in 0..BlobSize /\ (partial = NoFile \/ HoldsUpTo(partial, BlobSize))
  BY <1>1 DEF BeginFetch, BlobInv, BlobTypes, IsFile, HoldsUpTo
<1>3. /\ partial' = partial /\ final' = final /\ blobFaults' = blobFaults /\ final = NoFile
      /\ fetch' = [fetch EXCEPT ![f] =
                      [phase |-> "opening", received |-> found, file |-> "none"]]
      /\ shared' = (\E g \in Fetchers : fetch[g].phase # "idle")
      /\ fetch \in [Fetchers -> Receiver]
  BY DEF BeginFetch, BlobInv, BlobTypes
<1>4. found = IF partial' = NoFile THEN 0 ELSE Len(partial')
  BY <1>3
<1> HIDE DEF found
<1>5. /\ fetch'[f].phase = "opening" /\ fetch'[f].received = found /\ fetch'[f].file = "none"
      /\ \A g \in Fetchers : g # f => fetch'[g] = fetch[g]
  BY <1>3
<1>6. fetch' \in [Fetchers -> Receiver]
  BY <1>2, <1>3 DEF Receiver
<1>7. shared' \in BOOLEAN
  BY <1>3
<1>8. BlobTypes'
  BY <1>3, <1>5, <1>6, <1>7 DEF BlobInv, BlobTypes, IsFile
<1>9. AtWork(f)'
  BY <1>4, <1>5 DEF AtWork
<1>10. ~shared' => \A g \in Fetchers : fetch'[g].phase # "idle" => g = f
  BY <1>3, <1>5
<1>11. ~shared' => OneByOne'
  BY <1>2, <1>3, <1>9, <1>10 DEF OneByOne
<1> QED
  BY <1>3, <1>8, <1>11 DEF BlobInv

\* What a step of one receiver leaves to show of a fetch alone.
LEMMA OneReceiver ==
  ASSUME BlobInv, NEW f \in Fetchers, fetch[f].phase # "idle", shared' = shared,
         BlobTypes',
         \A g \in Fetchers : g # f => fetch'[g].phase = fetch[g].phase,
         ~shared /\ AtWork(f) /\ OneByOne =>
            /\ fetch'[f].phase # "idle" => AtWork(f)'
            /\ partial' = NoFile \/ HoldsUpTo(partial', BlobSize)
            /\ final' \in {NoFile, Whole}
  PROVE  BlobInv'
<1>1. SUFFICES ASSUME ~shared PROVE OneByOne'
  BY DEF BlobInv
<1>2. OneByOne /\ AtWork(f)
  BY <1>1 DEF BlobInv, OneByOne
<1>3. ASSUME NEW g \in Fetchers, fetch'[g].phase # "idle" PROVE g = f
  BY <1>2, <1>3 DEF OneByOne
<1> QED
  BY <1>1, <1>2, <1>3 DEF OneByOne

LEMMA OpenKeepsBlobInv ==
  ASSUME BlobInv, NEW f \in Fetchers, OpenPartial(f)
  PROVE  BlobInv' /\ final' = final
<1>1. /\ fetch \in [Fetchers -> Receiver] /\ fetch[f].phase = "opening"
      /\ final' = final /\ shared' = shared /\ blobFaults' = blobFaults
      /\ partial' = IF partial = NoFile THEN << >> ELSE partial
      /\ fetch' = [fetch EXCEPT
            ![f].phase = IF fetch[f].received = BlobSize THEN "full" ELSE "streaming",
            ![f].file = "partial"]
  BY DEF OpenPartial, BlobInv, BlobTypes
<1>2. fetch'[f] = [fetch[f] EXCEPT
            !.phase = IF fetch[f].received = BlobSize THEN "full" ELSE "streaming",
            !.file = "partial"]
  BY <1>1
<1>3. /\ fetch'[f].phase = IF fetch[f].received = BlobSize THEN "full" ELSE "streaming"
      /\ fetch'[f].file = "partial" /\ fetch'[f].received = fetch[f].received
      /\ fetch'[f] \in Receiver /\ fetch[f].received \in 0..BlobSize
  <2>1. fetch[f] \in Receiver
    BY <1>1
  <2>2. fetch'[f].phase = IF fetch[f].received = BlobSize THEN "full" ELSE "streaming"
    BY <1>2, <2>1 DEF Receiver
  <2>3. fetch'[f].file = "partial" /\ fetch'[f].received = fetch[f].received
    BY <1>2, <2>1 DEF Receiver
  <2>4. fetch'[f] \in Receiver
    BY <1>2, <2>1 DEF Receiver
  <2> QED
    BY <2>1, <2>2, <2>3, <2>4 DEF Receiver
<1>4. \A g \in Fetchers : g # f => fetch'[g] = fetch[g]
  BY <1>1
<1>5. fetch' \in [Fetchers -> Receiver]
  BY <1>1, <1>3, <1>4
<1>6. partial' \in Seq(BlobUnits)
  BY <1>1 DEF BlobInv, BlobTypes, IsFile
<1>7. BlobTypes'
  BY <1>1, <1>3, <1>4, <1>5, <1>6 DEF BlobInv, BlobTypes, IsFile
<1>8. ASSUME AtWork(f), OneByOne
      PROVE  AtWork(f)' /\ HoldsUpTo(partial', BlobSize) /\ final' \in {NoFile, Whole}
  <2>1. HoldsUpTo(partial', BlobSize) /\ Len(partial') = fetch[f].received
    BY <1>1, <1>6, <1>8, BlobFetchAssumption DEF AtWork, OneByOne, HoldsUpTo
  <2>2. fetch'[f].phase = "streaming" => Len(partial') < BlobSize
    BY <1>3, <2>1, BlobFetchAssumption
  <2>3. AtWork(f)'
    BY <1>3, <2>1, <2>2 DEF AtWork
  <2> QED
    BY <1>1, <1>8, <2>1, <2>3 DEF OneByOne
<1> QED
  BY <1>1, <1>4, <1>7, <1>8, OneReceiver

\* An open file that is written to holds units as before.
LEMMA AppendKeepsFiles ==
  ASSUME BlobTypes, NEW f \in Fetchers, NEW units \in Seq(BlobUnits), AppendTo(f, units)
  PROVE  /\ IsFile(partial') /\ IsFile(final')
         /\ partial \in Seq(BlobUnits) => partial' \in Seq(BlobUnits)
         /\ final \in Seq(BlobUnits) => final' \in Seq(BlobUnits)
<1>1. \A stored \in Seq(BlobUnits) : stored \o units \in Seq(BlobUnits)
  BY ConcatProperties
<1>2. /\ fetch[f].file = "partial" => partial \in Seq(BlobUnits)
      /\ fetch[f].file = "final" => final \in Seq(BlobUnits)
      /\ IsFile(partial) /\ IsFile(final)
  BY DEF BlobTypes
<1>3. /\ fetch[f].file = "partial" => partial' \in Seq(BlobUnits)
      /\ fetch[f].file # "partial" => partial' = partial
  BY <1>1, <1>2 DEF AppendTo
<1>4. /\ fetch[f].file = "final" => final' \in Seq(BlobUnits)
      /\ fetch[f].file # "final" => final' = final
  BY <1>1, <1>2 DEF AppendTo
<1> QED
  BY <1>2, <1>3, <1>4 DEF IsFile

LEMMA ChunkKeepsBlobInv ==
  ASSUME BlobInv, NEW f \in Fetchers, AcceptChunk(f)
  PROVE  BlobInv' /\ (~shared => final' = final)
<1> DEFINE chunk == Chunk(fetch[f].received)
           ending == fetch[f].received + Len(chunk)
<1>1. /\ fetch[f].phase = "streaming" /\ fetch[f] \in Receiver
      /\ fetch \in [Fetchers -> Receiver] /\ BlobTypes
  BY DEF BlobInv, BlobTypes, AcceptChunk
<1>2. fetch[f].received \in 0..BlobSize
  BY <1>1 DEF Receiver
<1>3. chunk \in Seq(BlobUnits) /\ ending <= BlobSize
  BY <1>2, ChunkFits
<1>4. /\ AppendTo(f, chunk) /\ blobFaults' = blobFaults /\ shared' = shared
      /\ fetch' = [fetch EXCEPT ![f].received = ending,
                                ![f].phase = IF ending = BlobSize THEN "full" ELSE @]
  BY DEF AcceptChunk
<1>5. ending \in 0..BlobSize
  BY <1>2, <1>3, BlobFetchAssumption, LenProperties
<1>6. ~shared => /\ fetch[f].received = Len(partial) /\ fetch[f].file = "partial"
                 /\ HoldsUpTo(partial, BlobSize)
  BY <1>1 DEF BlobInv, OneByOne, AtWork
<1>7. ~shared => /\ partial' = partial \o chunk /\ final' = final
                 /\ HoldsUpTo(partial', BlobSize) /\ Len(partial') = ending
  <2>1. ~shared => partial' = partial \o chunk /\ final' = final
    BY <1>4, <1>6 DEF AppendTo
  <2> HIDE DEF chunk
  <2> QED
    BY <1>3, <1>6, <2>1, LongerFile
<1> HIDE DEF chunk, ending
<1>8. fetch'[f] = [fetch[f] EXCEPT !.received = ending,
                                   !.phase = IF ending = BlobSize THEN "full" ELSE @]
  BY <1>1, <1>4
<1>9. /\ fetch'[f] \in Receiver /\ fetch'[f].received = ending
      /\ fetch'[f].file = fetch[f].file
      /\ fetch'[f].phase = IF ending = BlobSize THEN "full" ELSE "streaming"
  BY <1>1, <1>5, <1>8 DEF Receiver
<1>10. \A g \in Fetchers : g # f => fetch'[g] = fetch[g]
  BY <1>1, <1>4
<1>11. fetch' \in [Fetchers -> Receiver]
  BY <1>1, <1>4, <1>9, <1>10
<1>12. BlobTypes'
  <2>1. /\ IsFile(partial') /\ IsFile(final')
        /\ partial \in Seq(BlobUnits) => partial' \in Seq(BlobUnits)
        /\ final \in Seq(BlobUnits) => final' \in Seq(BlobUnits)
    BY <1>1, <1>3, <1>4, AppendKeepsFiles
  <2>2. \A g \in Fetchers : fetch'[g].file = fetch[g].file
    BY <1>9, <1>10
  <2> QED
    BY <1>1, <1>4, <1>11, <2>1, <2>2 DEF BlobTypes
<1>13. ~shared => AtWork(f)'
  <2>1. fetch'[f].phase = "streaming" => ending < BlobSize
    BY <1>5, <1>9, BlobFetchAssumption
  <2>2. fetch'[f].phase \notin {"opening", "verified"}
    BY <1>9
  <2> QED
    BY <1>6, <1>7, <1>9, <2>1, <2>2 DEF AtWork
<1> QED
  BY <1>1, <1>4, <1>7, <1>10, <1>12, <1>13, OneReceiver DEF OneByOne

\* A file that gets another name, or none, takes the open ones with it.
LEMMA HandlesAfterRename ==
  ASSUME BlobTypes, NEW f \in Fetchers, NEW to \in {"final", "unlinked"},
         fetch' = [Renamed("partial", to) EXCEPT ![f] = NoFetch]
  PROVE  /\ fetch' \in [Fetchers -> Receiver]
         /\ fetch'[f].phase = "idle" /\ fetch'[f].file = "none"
         /\ \A g \in Fetchers : g # f => fetch'[g].phase = fetch[g].phase
         /\ \A g \in Fetchers :
               /\ fetch'[g].file # "partial"
               /\ fetch'[g].file = "final" /\ to = "unlinked" => fetch[g].file = "final"
<1> USE DEF BlobTypes
<1>1. fetch'[f] = NoFetch /\ NoFetch \in Receiver
  BY BlobFetchAssumption DEF Renamed, NoFetch, Receiver
<1>2. ASSUME NEW g \in Fetchers, g # f
      PROVE  /\ fetch'[g] \in Receiver /\ fetch'[g].phase = fetch[g].phase
             /\ fetch'[g].file = IF fetch[g].file = "partial" THEN to
                                 ELSE IF fetch[g].file = to THEN "unlinked"
                                 ELSE fetch[g].file
  <2>1. fetch'[g] = [fetch[g] EXCEPT !.file = IF @ = "partial" THEN to
                                              ELSE IF @ = to THEN "unlinked" ELSE @]
    BY <1>2 DEF Renamed
  <2> QED
    BY <2>1 DEF Receiver
<1>3. fetch' \in [Fetchers -> Receiver]
  BY <1>1, <1>2 DEF Renamed
<1>4. fetch'[f].phase = "idle" /\ fetch'[f].file = "none"
  BY <1>1 DEF NoFetch
<1> QED
  BY <1>2, <1>3, <1>4

\* The fetch of f is over.
LEMMA OverKeepsFetches ==
  ASSUME BlobTypes, NEW f \in Fetchers, fetch' = [fetch EXCEPT ![f] = NoFetch]
  PROVE  /\ fetch' \in [Fetchers -> Receiver]
         /\ fetch'[f].phase = "idle" /\ fetch'[f].file = "none"
         /\ \A g \in Fetchers : g # f => fetch'[g] = fetch[g]
BY BlobFetchAssumption DEF BlobTypes, NoFetch, Receiver

LEMMA VerifyKeepsBlobInv ==
  ASSUME BlobInv, NEW f \in Fetchers, VerifyBlob(f)
  PROVE  BlobInv' /\ final' = final
<1>1. /\ fetch \in [Fetchers -> Receiver] /\ fetch[f].phase = "full" /\ BlobTypes
      /\ final' = final /\ shared' = shared /\ blobFaults' = blobFaults
  BY DEF BlobInv, BlobTypes, VerifyBlob
<1>2. CASE partial = Whole
  <2>1. fetch' = [fetch EXCEPT ![f].phase = "verified"] /\ partial' = partial
    BY <1>2 DEF VerifyBlob, FetchGoes
  <2>2. /\ fetch' \in [Fetchers -> Receiver]
        /\ fetch'[f].phase = "verified" /\ fetch'[f].received = fetch[f].received
        /\ \A g \in Fetchers : fetch'[g].file = fetch[g].file
        /\ \A g \in Fetchers : g # f => fetch'[g].phase = fetch[g].phase
    BY <1>1, <2>1 DEF Receiver
  <2>3. BlobTypes'
    BY <1>1, <2>1, <2>2 DEF BlobTypes
  <2>4. AtWork(f) => AtWork(f)'
    BY <1>1, <1>2, <2>1, <2>2 DEF AtWork
  <2> QED
    BY <1>1, <2>1, <2>2, <2>3, <2>4, OneReceiver DEF OneByOne
<1>3. CASE partial # Whole
  <2>1. /\ partial' = NoFile
        /\ fetch' = [Renamed("partial", "unlinked") EXCEPT ![f] = NoFetch]
    BY <1>3 DEF VerifyBlob, Discarded
  <2>2. /\ fetch' \in [Fetchers -> Receiver] /\ fetch'[f].phase = "idle"
        /\ \A g \in Fetchers : g # f => fetch'[g].phase = fetch[g].phase
        /\ \A g \in Fetchers : /\ fetch'[g].file # "partial"
                               /\ fetch'[g].file = "final" => fetch[g].file = "final"
    BY <1>1, <2>1, HandlesAfterRename
  <2>3. BlobTypes'
    BY <1>1, <2>1, <2>2 DEF BlobTypes, IsFile
  <2> QED
    BY <1>1, <2>1, <2>2, <2>3, OneReceiver DEF OneByOne
<1> QED
  BY <1>1, <1>2, <1>3

\* Only the whole blob gets its name, unless the fetch has shared its file.
LEMMA PublishKeepsBlobInv ==
  ASSUME BlobInv, NEW f \in Fetchers, PublishBlob(f)
  PROVE  BlobInv' /\ (~shared => final' = final \/ final' = Whole)
<1>1. /\ fetch \in [Fetchers -> Receiver] /\ fetch[f].phase = "verified" /\ BlobTypes
      /\ shared' = shared /\ blobFaults' = blobFaults
  BY DEF BlobInv, BlobTypes, PublishBlob
<1>2. CASE partial = NoFile
  <2>1. fetch' = [fetch EXCEPT ![f] = NoFetch] /\ partial' = partial /\ final' = final
    BY <1>2 DEF PublishBlob, FetchOver
  <2>2. /\ fetch' \in [Fetchers -> Receiver]
        /\ fetch'[f].phase = "idle" /\ fetch'[f].file = "none"
        /\ \A g \in Fetchers : g # f => fetch'[g] = fetch[g]
    BY <1>1, <2>1, OverKeepsFetches
  <2>3. BlobTypes'
    BY <1>1, <2>1, <2>2 DEF BlobTypes
  <2> QED
    BY <1>1, <2>1, <2>2, <2>3, OneReceiver DEF OneByOne
<1>3. CASE partial # NoFile
  <2>1. /\ final' = partial /\ partial' = NoFile
        /\ fetch' = [Renamed("partial", "final") EXCEPT ![f] = NoFetch]
    BY <1>3 DEF PublishBlob
  <2>2. /\ fetch' \in [Fetchers -> Receiver] /\ fetch'[f].phase = "idle"
        /\ \A g \in Fetchers : g # f => fetch'[g].phase = fetch[g].phase
        /\ \A g \in Fetchers : fetch'[g].file # "partial"
    BY <1>1, <2>1, HandlesAfterRename
  <2>3. final' \in Seq(BlobUnits)
    BY <1>1, <1>3, <2>1 DEF BlobTypes, IsFile
  <2>4. BlobTypes'
    BY <1>1, <2>1, <2>2, <2>3 DEF BlobTypes, IsFile
  <2>5. ~shared => final' = Whole
    BY <1>1, <2>1 DEF BlobInv, OneByOne, AtWork
  <2> QED
    BY <1>1, <2>1, <2>2, <2>4, <2>5, OneReceiver
<1> QED
  BY <1>2, <1>3

LEMMA InterruptKeepsBlobInv ==
  ASSUME BlobInv, NEW f \in Fetchers, InterruptFetch(f)
  PROVE  BlobInv' /\ (~shared => final' = final)
<1>1. /\ BlobTypes /\ fetch[f] \in Receiver /\ fetch[f].phase # "idle"
      /\ fetch' = [fetch EXCEPT ![f] = NoFetch] /\ shared' = shared
  BY DEF BlobInv, BlobTypes, InterruptFetch, FetchOver
<1>2. blobFaults' \in 0..MaxBlobFaults
  BY BlobFetchAssumption DEF BlobInv, BlobTypes, InterruptFetch, BlobFault
<1>3. /\ fetch' \in [Fetchers -> Receiver]
      /\ fetch'[f].phase = "idle" /\ fetch'[f].file = "none"
      /\ \A g \in Fetchers : g # f => fetch'[g] = fetch[g]
  BY <1>1, OverKeepsFetches
<1>4. CASE fetch[f].phase = "streaming"
  <2> DEFINE chunk == Chunk(fetch[f].received)
  <2>1. fetch[f].received \in 0..BlobSize
    BY <1>1 DEF Receiver
  <2>2. PICK written \in 0..(Len(chunk) - 1) : AppendTo(f, SubSeq(chunk, 1, written))
    BY <1>4 DEF InterruptFetch
  <2> DEFINE units == SubSeq(chunk, 1, written)
  <2>3. Len(chunk) \in Nat
    BY <2>1, ChunkFits
  <2>4. written \in 0..Len(chunk)
    BY <2>3
  <2>5. units \in Seq(BlobUnits) /\ Len(units) = written
    BY <2>1, <2>4, ChunkFits
  <2>6. fetch[f].received + written <= BlobSize
    <3>1. fetch[f].received + Len(chunk) <= BlobSize
      BY <2>1, ChunkFits
    <3> HIDE DEF chunk
    <3> QED
      BY <2>1, <2>3, <2>4, <3>1, BlobFetchAssumption
  <2> HIDE DEF units
  <2>7. AppendTo(f, units)
    BY <2>2 DEF units
  <2>8. /\ IsFile(partial') /\ IsFile(final')
        /\ partial \in Seq(BlobUnits) => partial' \in Seq(BlobUnits)
        /\ final \in Seq(BlobUnits) => final' \in Seq(BlobUnits)
    BY <1>1, <2>5, <2>7, AppendKeepsFiles
  <2>9. BlobTypes'
    BY <1>1, <1>2, <1>3, <2>8 DEF BlobTypes
  <2>10. ~shared => /\ fetch[f].received = Len(partial) /\ fetch[f].file = "partial"
                    /\ HoldsUpTo(partial, BlobSize)
    BY <1>1, <1>4 DEF BlobInv, OneByOne, AtWork
  <2>11. ~shared => partial' = partial \o units /\ final' = final
    BY <2>7, <2>10 DEF AppendTo
  <2>12. ~shared => HoldsUpTo(partial', BlobSize)
    BY <2>5, <2>6, <2>10, <2>11, LongerFile
  <2> QED
    BY <1>1, <1>3, <2>9, <2>11, <2>12, OneReceiver DEF OneByOne
<1>5. CASE fetch[f].phase # "streaming"
  <2>1. partial' = partial /\ final' = final
    BY <1>5 DEF InterruptFetch
  <2>2. BlobTypes'
    BY <1>1, <1>2, <1>3, <2>1 DEF BlobTypes
  <2> QED
    BY <1>1, <1>3, <2>1, <2>2, OneReceiver DEF OneByOne
<1> QED
  BY <1>4, <1>5

LEMMA StopKeepsBlobInv ==
  ASSUME BlobInv, MachineStops
  PROVE  BlobInv' /\ final' = final
<1>1. /\ partial \in Seq(BlobUnits) /\ final' = final /\ shared' = shared
      /\ fetch' = [f \in Fetchers |-> NoFetch]
  BY DEF BlobInv, BlobTypes, IsFile, MachineStops
<1>2. blobFaults' \in 0..MaxBlobFaults
  BY BlobFetchAssumption DEF BlobInv, BlobTypes, MachineStops, BlobFault
<1>3. PICK kept \in 0..Len(partial) :
         \E lost \in SUBSET (1..kept) :
            partial' = [n \in 1..kept |-> IF n \in lost THEN Wrong ELSE partial[n]]
  BY DEF MachineStops
<1>4. Len(partial) \in Nat /\ kept \in Nat /\ kept <= Len(partial)
  BY <1>1
<1>5. \A n \in 1..kept : partial[n] \in BlobUnits /\ Wrong \in BlobUnits
  BY <1>1, <1>4 DEF BlobUnits
<1>6. partial' \in [1..kept -> BlobUnits]
  BY <1>3, <1>5
<1>7. partial' \in Seq(BlobUnits) /\ Len(partial') = kept
  BY <1>4, <1>6
<1>8. NoFetch \in Receiver /\ NoFetch.phase = "idle" /\ NoFetch.file = "none"
  BY BlobFetchAssumption DEF Receiver, NoFetch
<1>9. BlobTypes'
  BY <1>1, <1>2, <1>7, <1>8 DEF BlobInv, BlobTypes, IsFile
<1>10. ~shared => HoldsUpTo(partial', BlobSize)
  <2>1. ~shared => Len(partial) <= BlobSize
    BY DEF BlobInv, OneByOne, HoldsUpTo, MachineStops
  <2> QED
    BY <1>4, <1>7, <2>1, BlobFetchAssumption DEF HoldsUpTo
<1> QED
  BY <1>1, <1>8, <1>9, <1>10 DEF BlobInv, OneByOne

LEMMA NextBlobInv ==
  ASSUME BlobInv, [BlobNext]_blobVars
  PROVE  BlobInv' /\ (~shared => final' = final \/ final' = Whole)
<1>1. CASE UNCHANGED blobVars
  <2>1. /\ partial' = partial /\ final' = final /\ fetch' = fetch
        /\ shared' = shared /\ blobFaults' = blobFaults
    BY <1>1 DEF blobVars
  <2> QED
    BY <2>1 DEF BlobInv, BlobTypes, OneByOne, AtWork
<1> QED
  BY <1>1, BeginKeepsBlobInv, OpenKeepsBlobInv, ChunkKeepsBlobInv, VerifyKeepsBlobInv,
     PublishKeepsBlobInv, InterruptKeepsBlobInv, StopKeepsBlobInv
     DEF BlobNext, FetchGoesOn

\* The inductive invariant of the fetches: an open file is there, and a fetch alone
\* has counted what is in it (BlobReceiver::begin, accept and finalize).
THEOREM BlobInvariant == BlobSpec => []BlobInv
BY InitBlobInv, NextBlobInv, PTL DEF BlobSpec

\* The two files and the receivers have their types, whatever fetches share a file.
THEOREM BlobTypeCorrect == BlobSpec => []BlobTypeOK
<1>1. BlobInv => BlobTypeOK
  BY DEF BlobInv, BlobTypes, IsFile, BlobTypeOK, Receiver, BlobUnits
<1> QED
  BY <1>1, BlobInvariant, PTL

\* Whatever interrupts the fetches of a blob and whatever a crash leaves in its
\* partial file, and also after fetches that shared it, the fetches that follow one
\* another publish nothing but the whole blob under its name, and it stays there
\* (BlobReceiver::finalize).
THEOREM OnlyTheWholeBlobIsPublished ==
  BlobSpec => /\ []BlobIsWhole
              /\ [][~shared /\ final = Whole => final' = Whole]_blobVars
<1>1. BlobInv => BlobIsWhole
  BY DEF BlobInv, OneByOne, BlobIsWhole
<1>2. BlobInv /\ [BlobNext]_blobVars => [~shared /\ final = Whole => final' = Whole]_blobVars
  BY NextBlobInv
<1> QED
  BY <1>1, <1>2, BlobInvariant, PTL DEF BlobSpec

(***************************************************************************)
(* The pairing of the palette.                                             *)
(***************************************************************************)
Trusts == [PeerIds -> {Unpaired, "enabled", "paused"}]
Panels == [active : BOOLEAN, last : 0..MaxPairings, code : Runs \cup {Undecided},
           confirmation : Runs \cup {Undecided}, devices : Trusts]
Channels == [Runs -> Seq({"code", "finished"})]
Decisions == [Runs -> {Undecided, "approved", "rejected", "dropped"}]
Threads == [Runs -> ThreadPhases]

\* Where the pairing n may be: what its thread does, what is in its channel to the
\* palette, and whether the user has been asked and has answered.
UserAsked(n) ==
    \/ events[n] = <<"code">> /\ panel.confirmation = Undecided /\ decision[n] = Undecided
    \/ events[n] = << >> /\ panel.confirmation = n /\ decision[n] = Undecided
    \/ events[n] = << >> /\ panel.confirmation = Undecided
       /\ decision[n] \in {"approved", "rejected"}
PairingState(n) ==
    \/ thread[n] = "connecting" /\ events[n] = << >> /\ panel.confirmation = Undecided
       /\ decision[n] = Undecided
    \/ thread[n] \in {"asking", "timed-out"} /\ UserAsked(n)
    \/ thread[n] \in {"waiting", "failed", "paired"} /\ events[n] = << >>
       /\ panel.confirmation = Undecided
    \/ thread[n] = "none" /\ events[n] = <<"finished">> /\ panel.confirmation = Undecided

\* One pairing at a time: the others have not begun, or have left nothing behind.
OthersOver == \A m \in Runs :
    /\ m > panel.last => decision[m] = Undecided
    /\ ~(panel.active /\ m = panel.last) => thread[m] = "none" /\ events[m] = << >>
    /\ decision[m] # "dropped"

PanelTypes ==
    /\ panel \in Panels /\ thread \in Threads /\ events \in Channels
    /\ decision \in Decisions /\ trust \in Trusts

PanelInv ==
    /\ PanelTypes /\ OthersOver
    /\ panel.active => panel.last \in Runs /\ PairingState(panel.last)
    /\ ~panel.active => panel.confirmation = Undecided

LEMMA InitPanelInv == PanelInit => PanelInv
<1> SUFFICES ASSUME PanelInit PROVE PanelInv
  OBVIOUS
<1>1. MaxPairings \in Nat /\ Undecided # "dropped"
  BY PanelAssumption
<1>2. trust \in Trusts
  BY DEF PanelInit, Trusts
<1>3. panel \in Panels
  BY <1>1, <1>2 DEF PanelInit, Panels
<1>4. thread \in Threads /\ decision \in Decisions
  BY DEF PanelInit, Threads, ThreadPhases, Decisions
<1>5. events \in Channels
  BY DEF PanelInit, Channels
<1> QED
  BY <1>1, <1>2, <1>3, <1>4, <1>5 DEF PanelInit, PanelInv, PanelTypes, OthersOver

\* A step of the pairing of the palette disturbs no other.
LEMMA OnePairing ==
  ASSUME PanelInv, PanelTypes', panel.active, panel'.active, panel'.last = panel.last,
         PairingState(panel.last)',
         \A m \in Runs : /\ m # panel.last => /\ thread'[m] = thread[m]
                                              /\ events'[m] = events[m]
                                              /\ decision'[m] = decision[m]
                         /\ decision'[m] # "dropped"
  PROVE  PanelInv'
<1>1. panel.last \in Runs /\ panel.last \in Nat
  BY PanelAssumption DEF PanelInv, Runs
<1>2. \A m \in Runs : m > panel.last => m # panel.last
  BY <1>1 DEF Runs
<1>3. OthersOver'
  BY <1>2 DEF PanelInv, OthersOver
<1> QED
  BY <1>1, <1>3 DEF PanelInv

\* Only the thread of the palette's pairing runs.
LEMMA Running ==
  ASSUME PanelInv, NEW n \in Runs, thread[n] # "none" \/ events[n] # << >>
  PROVE  panel.active /\ n = panel.last /\ PairingState(n) /\ decision[n] # "dropped"
BY DEF PanelInv, OthersOver

LEMMA ThreadStep ==
  ASSUME PanelInv, NEW n \in Runs,
         \/ AskUser(n) \/ PairingFailed(n) \/ TimeoutWhileAsking(n) \/ ReceiveDecision(n)
         \/ FinishThread(n) \/ \E p \in PeerIds : PeerConfirms(n, p)
  PROVE  PanelInv'
<1>1. PanelTypes /\ panel' = panel /\ decision' = decision
  BY DEF PanelInv, AskUser, PairingFailed, TimeoutWhileAsking, ReceiveDecision, FinishThread,
         PeerConfirms
<1>2. thread[n] # "none"
  BY DEF AskUser, PairingFailed, TimeoutWhileAsking, ReceiveDecision, FinishThread,
         PeerConfirms, ThreadGoes, TimesOut
<1>3. panel.active /\ n = panel.last /\ PairingState(n) /\ decision[n] # "dropped"
  BY <1>2, Running
<1>4. CASE AskUser(n)
  <2>1. /\ thread' = [thread EXCEPT ![n] = "asking"] /\ trust' = trust
        /\ events' = [events EXCEPT ![n] = Append(@, "code")] /\ thread[n] = "connecting"
    BY <1>4 DEF AskUser, ThreadGoes, Send
  <2>2. events[n] = << >> /\ Append(<< >>, "code") = <<"code">>
    BY <1>3, <2>1 DEF PairingState
  <2>3. events' = [events EXCEPT ![n] = <<"code">>]
    BY <2>1, <2>2
  <2>4. <<"code">> \in Seq({"code", "finished"})
    OBVIOUS
  <2>5. PanelTypes'
    BY <1>1, <2>1, <2>3, <2>4 DEF PanelTypes, Threads, ThreadPhases, Channels
  <2>6. PairingState(n)'
    BY <1>1, <1>3, <2>1, <2>3 DEF PairingState, UserAsked, PanelTypes, Threads, Channels
  <2> QED
    BY <1>1, <1>3, <2>1, <2>3, <2>5, <2>6,
       OnePairing DEF PanelInv, OthersOver, PanelTypes, Threads, Channels
<1>5. CASE PairingFailed(n) \/ TimeoutWhileAsking(n) \/ ReceiveDecision(n)
  <2>1. /\ trust' = trust /\ events' = events
        /\ \E to \in {"failed", "waiting", "timed-out"} :
              thread' = [thread EXCEPT ![n] = to] /\ (to = "timed-out" => thread[n] = "asking")
        /\ TimeoutWhileAsking(n) \/ thread'[n] \in {"failed", "waiting"}
        /\ PairingFailed(n) => thread[n] \in {"connecting", "waiting"}
        /\ ReceiveDecision(n) => decision[n] # Undecided /\ thread[n] \in {"asking", "timed-out"}
        /\ TimeoutWhileAsking(n) => thread'[n] = "timed-out"
    BY <1>1, <1>5 DEF PairingFailed, TimeoutWhileAsking, ReceiveDecision, ThreadGoes, TimesOut,
                      PanelTypes, Threads
  <2>2. PanelTypes'
    BY <1>1, <2>1 DEF PanelTypes, Threads, ThreadPhases
  <2>3. PairingState(n)'
    BY <1>1, <1>3, <1>5, <2>1 DEF PairingState, UserAsked, PanelTypes, Threads
  <2> QED
    BY <1>1, <1>3, <2>1, <2>2, <2>3,
       OnePairing DEF PanelInv, OthersOver, PanelTypes, Threads
<1>6. CASE FinishThread(n)
  <2>1. /\ thread' = [thread EXCEPT ![n] = "none"] /\ trust' = trust
        /\ events' = [events EXCEPT ![n] = Append(@, "finished")]
        /\ thread[n] \in {"failed", "paired"}
    BY <1>6 DEF FinishThread, Send
  <2>2. events[n] = << >> /\ Append(<< >>, "finished") = <<"finished">>
    BY <1>3, <2>1 DEF PairingState
  <2>3. events' = [events EXCEPT ![n] = <<"finished">>]
    BY <2>1, <2>2
  <2>4. <<"finished">> \in Seq({"code", "finished"})
    OBVIOUS
  <2>5. PanelTypes'
    BY <1>1, <2>1, <2>3, <2>4 DEF PanelTypes, Threads, ThreadPhases, Channels
  <2>6. PairingState(n)'
    BY <1>1, <1>3, <2>1, <2>3 DEF PairingState, PanelTypes, Threads, Channels
  <2> QED
    BY <1>1, <1>3, <2>1, <2>3, <2>5, <2>6,
       OnePairing DEF PanelInv, OthersOver, PanelTypes, Threads, Channels
<1>7. ASSUME NEW p \in PeerIds, PeerConfirms(n, p) PROVE PanelInv'
  <2>1. /\ thread' = [thread EXCEPT ![n] = "paired"] /\ events' = events
        /\ thread[n] = "waiting" /\ trust' = [trust EXCEPT ![p] = "enabled"]
    BY <1>7 DEF PeerConfirms, ThreadGoes
  <2>2. PanelTypes'
    BY <1>1, <2>1 DEF PanelTypes, Threads, ThreadPhases, Trusts
  <2>3. PairingState(n)'
    BY <1>1, <1>3, <2>1 DEF PairingState, PanelTypes, Threads
  <2> QED
    BY <1>1, <1>3, <2>1, <2>2, <2>3,
       OnePairing DEF PanelInv, OthersOver, PanelTypes, Threads
<1> QED
  BY <1>4, <1>5, <1>6, <1>7

LEMMA StartStep ==
  ASSUME PanelInv, StartPairingHere
  PROVE  PanelInv'
<1>0. PICK n : n = panel.last + 1
  OBVIOUS
<1>1. /\ ~panel.active /\ panel.last \in 0..MaxPairings /\ panel.last < MaxPairings
      /\ panel.confirmation = Undecided /\ PanelTypes
  BY DEF PanelInv, StartPairingHere, PanelTypes, Panels
<1>2. n \in Runs /\ n \in 0..MaxPairings /\ n > panel.last
  BY <1>0, <1>1, PanelAssumption DEF Runs
<1>3. /\ panel' = [panel EXCEPT !.active = TRUE, !.last = n, !.code = Undecided]
      /\ thread' = [thread EXCEPT ![n] = "connecting"] /\ UNCHANGED <<events, decision, trust>>
  BY <1>0 DEF StartPairingHere
<1>4. PanelTypes'
  BY <1>1, <1>2, <1>3 DEF PanelTypes, Panels, Threads, ThreadPhases
<1>5. panel'.active /\ panel'.last = n /\ panel'.confirmation = Undecided
  BY <1>1, <1>3 DEF PanelTypes, Panels
<1>6. \A m \in Runs : m > n => m > panel.last
  BY <1>0, <1>1, <1>2 DEF Runs
<1>7. OthersOver'
  BY <1>1, <1>2, <1>3, <1>5, <1>6 DEF PanelInv, OthersOver, PanelTypes, Threads
<1>8. PairingState(n)'
  BY <1>1, <1>2, <1>3, <1>5 DEF PanelInv, OthersOver, PairingState, PanelTypes, Threads
<1> QED
  BY <1>2, <1>4, <1>5, <1>7, <1>8 DEF PanelInv

LEMMA DrainStep ==
  ASSUME PanelInv, NEW n \in Runs, DrainEvents(n)
  PROVE  PanelInv'
<1>1. /\ PanelTypes /\ events[n] # << >> /\ panel' = Received(n, Head(events[n]))
      /\ events' = [events EXCEPT ![n] = Tail(@)] /\ UNCHANGED <<thread, trust>>
      /\ decision' = [m \in Runs |-> IF panel.confirmation = m /\ panel'.confirmation # m
                                     THEN "dropped" ELSE decision[m]]
  BY DEF PanelInv, DrainEvents
<1>2. /\ panel.active /\ n = panel.last /\ PairingState(n) /\ decision[n] # "dropped"
      /\ panel.confirmation = Undecided
  BY <1>1, Running DEF PairingState, UserAsked
<1>3. decision' = decision
  <2>1. \A m \in Runs : m # Undecided
    BY PanelAssumption DEF Runs
  <2> QED BY <1>1, <1>2, <2>1 DEF PanelTypes, Decisions
<1>4. Tail(<<"code">>) = << >> /\ Tail(<<"finished">>) = << >>
      /\ Head(<<"code">>) = "code" /\ Head(<<"finished">>) = "finished"
      /\ <<"code">> # <<"finished">> /\ <<"code">> # << >>
  OBVIOUS
<1>5. << >> \in Seq({"code", "finished"})
  OBVIOUS
<1>6. CASE events[n] = <<"code">>
  <2>1. /\ panel' = [panel EXCEPT !.code = n, !.confirmation = n]
        /\ events' = [events EXCEPT ![n] = << >>]
    BY <1>1, <1>4, <1>6 DEF Received
  <2>2. PanelTypes'
    <3>1. panel' \in Panels
      BY <1>1, <2>1 DEF PanelTypes, Panels
    <3>2. events' \in Channels
      BY <1>1, <1>5, <2>1 DEF PanelTypes, Channels
    <3> QED BY <1>1, <1>3, <3>1, <3>2 DEF PanelTypes
  <2>3. PairingState(n)'
    BY <1>1, <1>2, <1>3, <1>4, <1>6, <2>1 DEF PairingState, UserAsked, PanelTypes, Panels, Channels
  <2> QED
    BY <1>1, <1>2, <1>3, <2>1, <2>2, <2>3,
       OnePairing DEF PanelInv, OthersOver, PanelTypes, Panels, Channels
<1>7. CASE events[n] # <<"code">>
  <2>1. events[n] = <<"finished">> /\ thread[n] = "none"
    BY <1>1, <1>2, <1>7 DEF PairingState, UserAsked
  <2>2. /\ panel' = [panel EXCEPT !.active = FALSE, !.code = Undecided,
                                  !.confirmation = Undecided, !.devices = trust]
        /\ events' = [events EXCEPT ![n] = << >>]
    BY <1>1, <1>4, <2>1 DEF Received
  <2>3. PanelTypes'
    <3>1. panel' \in Panels
      BY <1>1, <2>2 DEF PanelTypes, Panels
    <3>2. events' \in Channels
      BY <1>1, <1>5, <2>2 DEF PanelTypes, Channels
    <3> QED BY <1>1, <1>3, <3>1, <3>2 DEF PanelTypes
  <2>4. ~panel'.active /\ panel'.confirmation = Undecided /\ panel'.last = panel.last
    BY <1>1, <2>2 DEF PanelTypes, Panels
  <2>5. OthersOver'
    BY <1>1, <1>2, <1>3, <2>1, <2>2, <2>4 DEF PanelInv, OthersOver, PanelTypes, Channels
  <2> QED BY <2>3, <2>4, <2>5 DEF PanelInv
<1> QED
  BY <1>6, <1>7

LEMMA DecideStep ==
  ASSUME PanelInv, NEW approved \in BOOLEAN, Decide(approved)
  PROVE  PanelInv'
<1>0. PICK n : n = panel.confirmation
  OBVIOUS
<1> DEFINE answer == IF approved THEN "approved" ELSE "rejected"
<1>1. /\ PanelTypes /\ n # Undecided /\ panel' = [panel EXCEPT !.confirmation = Undecided]
      /\ decision' = [decision EXCEPT ![n] = answer] /\ UNCHANGED <<thread, events, trust>>
  BY <1>0 DEF PanelInv, Decide
<1>2. panel.active /\ n = panel.last /\ n \in Runs /\ PairingState(n)
  BY <1>0, <1>1 DEF PanelInv, PairingState, UserAsked
<1>3. thread[n] \in {"asking", "timed-out"} /\ events[n] = << >>
  BY <1>0, <1>1, <1>2 DEF PairingState, UserAsked
<1>4. answer \in {"approved", "rejected"}
  OBVIOUS
<1>5. PanelTypes'
  BY <1>1, <1>4 DEF PanelTypes, Panels, Decisions
<1>6. /\ panel'.active /\ panel'.last = panel.last /\ panel'.confirmation = Undecided
      /\ decision'[n] = answer
  BY <1>1, <1>2 DEF PanelTypes, Panels, Decisions
<1>7. PairingState(n)'
  BY <1>1, <1>3, <1>4, <1>6 DEF PairingState, UserAsked
<1> QED
  BY <1>1, <1>2, <1>4, <1>5, <1>6, <1>7, OnePairing DEF PanelInv, OthersOver, PanelTypes, Decisions

\* What changes devices alone concerns no pairing.
LEMMA DevicesStep ==
  ASSUME PanelInv, NEW devices \in Trusts, trust' \in Trusts,
         panel' = [panel EXCEPT !.devices = devices] \/ panel' = panel,
         UNCHANGED <<thread, events, decision>>
  PROVE  PanelInv'
<1>1. /\ panel' \in Panels /\ panel'.active = panel.active /\ panel'.last = panel.last
      /\ panel'.confirmation = panel.confirmation
  BY DEF PanelInv, PanelTypes, Panels
<1> QED
  BY <1>1 DEF PanelInv, PanelTypes, OthersOver, PairingState, UserAsked

LEMMA NextPanelInv == PanelInv /\ [PanelNext]_panelVars => PanelInv'
<1> SUFFICES ASSUME PanelInv, [PanelNext]_panelVars PROVE PanelInv'
  OBVIOUS
<1>1. trust \in Trusts
  BY DEF PanelInv, PanelTypes
<1>2. ASSUME NEW p \in PeerIds, ToggleDevice(p) \/ ForgetDevice(p) \/ OutsideChange(p)
      PROVE  PanelInv'
  <2>1. trust' \in Trusts /\ UNCHANGED <<thread, events, decision>>
    BY <1>1, <1>2 DEF ToggleDevice, ForgetDevice, OutsideChange, Trusts
  <2>2. panel' = [panel EXCEPT !.devices = trust'] \/ panel' = panel
    BY <1>2 DEF ToggleDevice, ForgetDevice, OutsideChange
  <2> QED BY <2>1, <2>2, DevicesStep
<1>3. CASE UNCHANGED panelVars
  BY <1>1, <1>3 DEF panelVars, PanelInv, PanelTypes, OthersOver, PairingState, UserAsked
<1> QED
  BY <1>2, <1>3, ThreadStep, StartStep, DrainStep, DecideStep DEF PanelNext

\* The inductive invariant of the palette's pairing.
THEOREM PanelInvariant == PanelSpec => []PanelInv
BY InitPanelInv, NextPanelInv, PTL DEF PanelSpec

\* The palette, the threads and their channels have their types.
THEOREM PanelTypeCorrect == PanelSpec => []PanelTypeOK
<1>1. PanelInv => PanelTypeOK
  BY DEF PanelInv, PanelTypes, PanelTypeOK, Panels, Threads, Channels, Decisions, Trusts
<1> QED
  BY <1>1, PanelInvariant, PTL

\* Nobody waits for a pairing that nothing can move.  While the palette shows one,
\* its thread runs by itself, or has been answered, or the palette has an event of
\* it to take, or the user has its code to answer; and no other thread is left.
PairingCanMove ==
    /\ panel.active =>
          LET n == panel.last
          IN  \/ thread[n] \in {"connecting", "waiting", "failed", "paired"}
              \/ thread[n] \in {"asking", "timed-out"} /\ decision[n] # Undecided
              \/ events[n] # << >>
              \/ panel.confirmation = n
    /\ \A n \in Runs : thread[n] # "none" => panel.active /\ n = panel.last

\* Whatever times out, fails or is changed from outside, no pairing gets stuck for
\* another reason than a user who does not answer (start_pairing, run_ui_pairing).
THEOREM NoPairingHangs == PanelSpec => []PairingCanMove
<1>1. ASSUME PanelInv PROVE PairingCanMove
  <2>1. Undecided \notin {"approved", "rejected"}
    BY PanelAssumption
  <2>2. \A n \in Runs : thread[n] # "none" => panel.active /\ n = panel.last
    BY <1>1, Running
  <2>3. ASSUME panel.active PROVE PairingState(panel.last)
    BY <1>1, <2>3 DEF PanelInv
  <2>4. <<"code">> # << >> /\ <<"finished">> # << >>
    OBVIOUS
  <2> QED BY <2>1, <2>2, <2>3, <2>4 DEF PairingCanMove, PairingState, UserAsked
<1> QED
  BY <1>1, PanelInvariant, PTL

(***************************************************************************)
(* The nearby devices a palette lists.                                     *)
(***************************************************************************)
\* Nobody lists its own device, or one of another protocol version.
OnlyPeersListed == \A d \in Foreign \cup {Here} : discovered[d] = Gone

LEMMA DiscoveryStep ==
  ASSUME DiscoveryTypeOK, OnlyPeersListed, [DiscoveryNext]_discoveryVars
  PROVE  DiscoveryTypeOK' /\ OnlyPeersListed'
<1> USE DiscoveryAssumption
<1>1. ASSUME NEW d \in Around, NEW a \in Addresses \cup {Gone}, Moves(d, a) \/ MdnsReports(d, a)
      PROVE  DiscoveryTypeOK' /\ OnlyPeersListed'
  BY <1>1 DEF Moves, MdnsReports, DiscoveryTypeOK, OnlyPeersListed
<1>2. ASSUME NEW d \in Around, BeaconArrives(d)
      PROVE  DiscoveryTypeOK' /\ OnlyPeersListed'
  BY <1>2 DEF BeaconArrives, DiscoveryTypeOK, OnlyPeersListed
<1>3. CASE PollDiscovery
  <2>1. ASSUME NEW d \in Around
        PROVE  /\ AfterBeacon(d, AfterReport(d, discovered[d])) \in Addresses \cup {Gone}
               /\ discovered[d] = Gone /\ ~Heard(d)
                     => AfterBeacon(d, AfterReport(d, discovered[d])) = Gone
    BY DEF AfterBeacon, AfterReport, Listed, DiscoveryTypeOK
  <2>2. \A d \in Foreign \cup {Here} : d \in Around /\ ~Heard(d)
    BY DEF Heard
  <2>3. OnlyPeersListed'
    BY <1>3, <2>1, <2>2 DEF PollDiscovery, OnlyPeersListed
  <2>4. DiscoveryTypeOK'
    BY <1>3, <2>1 DEF PollDiscovery, DiscoveryTypeOK
  <2> QED BY <2>3, <2>4
<1>4. CASE RestartDiscovery
  BY <1>4 DEF RestartDiscovery, DiscoveryTypeOK, OnlyPeersListed
<1>5. CASE UNCHANGED discoveryVars
  BY <1>5 DEF discoveryVars, DiscoveryTypeOK, OnlyPeersListed
<1> QED
  BY <1>1, <1>2, <1>3, <1>4, <1>5 DEF DiscoveryNext

\* The network, the queues and the list keep their types, and the list never holds
\* this device or one of another protocol version, whatever mDNS reports, whichever
\* beacons come back and whenever the palette is started again (parse_broadcast_beacon,
\* parse_resolved, the loop over NearbyDiscovery::poll).
THEOREM DiscoveryTypeCorrect == DiscoverySpec => [](DiscoveryTypeOK /\ OnlyPeersListed)
<1>1. DiscoveryInit => DiscoveryTypeOK /\ OnlyPeersListed
  BY DiscoveryAssumption DEF DiscoveryInit, DiscoveryTypeOK, OnlyPeersListed
<1> QED
  BY <1>1, DiscoveryStep, PTL DEF DiscoverySpec
=============================================================================
