-------------------------- MODULE ClipboardHistory --------------------------
(***************************************************************************)
(* The clipboard history of one device: the table of storage/clipboard.rs, *)
(* the content-addressed files of storage/blob.rs, and those who use them  *)
(* together: the background watcher of superspace/main.rs, a Nearby        *)
(* session (poll_local and persist of sync/lib.rs), the palette            *)
(* (ui/clipboard_history.rs) and the command line.                         *)
(*                                                                         *)
(* Every launcher start probes the lock of the watcher and may spawn one.  *)
(* A process is named by its id, which a later process may be given again: *)
(* the name of a temporary blob file holds it.  A value is one content;    *)
(* Text is kept in its row, Rich (HTML, RTF, PNG, file lists) in a blob    *)
(* too, Uncapturable fails to encode.  Rows are in the order of insertion, *)
(* which stands for created_at.                                            *)
(***************************************************************************)
EXTENDS Naturals, FiniteSets

CONSTANTS
    Text, Rich, Uncapturable,   \* the values a user copies
    RemoteValues,               \* the values that arrive from peers
    Launchers,                  \* process ids of launchers' watchers
    Session,                    \* process id of the process with a session
    Nobody, Nothing,            \* a free lock; no value
    MaxLaunches, MaxCopies, MaxRemote, MaxUser, MaxCrashes   \* bounds on what others do

ASSUME HistoryAssumption ==
    /\ {MaxLaunches, MaxCopies, MaxRemote, MaxUser, MaxCrashes} \subseteq Nat
    /\ RemoteValues \subseteq Text \cup Rich
    /\ Text \cap Rich = {} /\ Uncapturable \cap (Text \cup Rich) = {}
    /\ Session \notin Launchers /\ Nobody \notin Launchers
    /\ Nothing \notin Text \cup Rich \cup Uncapturable

VARIABLES
    board,        \* the desktop clipboard
    items,        \* the table clipboard_items
    nextItem,     \* the next row's id and time
    blobFiles,    \* the values whose blob is complete
    temporaries,  \* <<value, process>>: temporary blob files
    watchLock,    \* who holds clipboard-watch.lock
    launcher,     \* launcher[l]: what a launcher does about the watcher
    capture,      \* capture[c]: the capturing process c
    shown,        \* the entries of the palette's last search
    budgets       \* what others have done

historyVars == <<board, items, nextItem, blobFiles, temporaries, watchLock, launcher,
                 capture, shown, budgets>>
store == <<items, nextItem, blobFiles, temporaries>>

Capturers == Launchers \cup {Session}
Captured == Text \cup Rich
Values == Captured \cup Uncapturable
Item == [id : Nat, value : Captured, remote : BOOLEAN, pinned : BOOLEAN]
Stopped == [phase |-> "off", seen |-> Nothing, value |-> Nothing, remote |-> FALSE]

HistoryInit ==
    /\ board = Nothing
    /\ items = {}
    /\ nextItem = 0
    /\ blobFiles = {}
    /\ temporaries = {}
    /\ watchLock = Nobody
    /\ launcher = [l \in Launchers |-> "idle"]
    /\ capture = [c \in Capturers |-> Stopped]
    /\ shown = {}
    /\ budgets = [launches |-> 0, copies |-> 0, remote |-> 0, user |-> 0, crashes |-> 0]

Spend(what, limit) ==
    /\ budgets[what] < limit
    /\ budgets' = [budgets EXCEPT ![what] = @ + 1]
To(c, phase) == capture' = [capture EXCEPT ![c].phase = phase]

(***************************************************************************)
(* Making sure that a watcher runs (ensure_clipboard_watcher).             *)
(***************************************************************************)
\* A launcher starts and tries the lock; if it is taken it is content.
Probe(l) ==
    /\ launcher[l] = "idle" /\ capture[l].phase = "off"
    /\ Spend("launches", MaxLaunches)
    /\ IF watchLock = Nobody
       THEN watchLock' = l /\ launcher' = [launcher EXCEPT ![l] = "probing"]
       ELSE UNCHANGED <<watchLock, launcher>>
    /\ UNCHANGED <<board, store, capture, shown>>

\* Faulty: the lock is kept until the watcher has been spawned.
KeepProbeLock(l) == watchLock' = watchLock
\* The probe's file is closed before the watcher is spawned.
DropProbeLock(l) == watchLock' = Nobody

EndProbe(l) ==
    /\ launcher[l] = "probing"
    /\ DropProbeLock(l)
    /\ launcher' = [launcher EXCEPT ![l] = "spawning"]
    /\ UNCHANGED <<board, store, capture, shown, budgets>>

SpawnWatcher(l) ==
    /\ launcher[l] = "spawning"
    /\ launcher' = [launcher EXCEPT ![l] = "idle"]
    /\ To(l, "starting")
    /\ UNCHANGED <<board, store, watchLock, shown, budgets>>

\* The watcher keeps the lock for as long as it runs, or leaves at once.
StartWatcher(l) ==
    /\ capture[l].phase = "starting"
    /\ IF watchLock = Nobody THEN watchLock' = l /\ To(l, "idle")
       ELSE watchLock' = watchLock /\ To(l, "off")
    /\ UNCHANGED <<board, store, launcher, shown, budgets>>

StartHistorySession ==
    /\ capture[Session].phase = "off"
    /\ Spend("launches", MaxLaunches)
    /\ To(Session, "idle")
    /\ UNCHANGED <<board, store, watchLock, launcher, shown>>

\* A process that ends, by an error or otherwise, keeps no lock and no digest.
Ended(c) ==
    /\ capture' = [capture EXCEPT ![c] = Stopped]
    /\ watchLock' = IF watchLock = c THEN Nobody ELSE watchLock

(***************************************************************************)
(* Capturing (poll_local, persist).                                        *)
(***************************************************************************)
FirstStep(value) == IF value \in Rich THEN "put" ELSE "insert"

\* The clipboard is polled; the digest is remembered before anything is kept.
PollClipboard(c) ==
    /\ capture[c].phase = "idle"
    /\ board # Nothing /\ board # capture[c].seen
    /\ board \in Captured
    /\ capture' = [capture EXCEPT ![c] = [phase |-> FirstStep(board), seen |-> board,
                                          value |-> board, remote |-> FALSE]]
    /\ UNCHANGED <<board, store, watchLock, launcher, shown, budgets>>

\* Copied files, or content that cannot be encoded, end the watcher's loop and
\* the session.
PollFails(c) ==
    /\ capture[c].phase = "idle"
    /\ board \in Uncapturable /\ board # capture[c].seen
    /\ Ended(c)
    /\ UNCHANGED <<board, store, launcher, shown, budgets>>

\* A session applies an event that wins to the clipboard and keeps it, and
\* keeps one that has lost without applying it.
Receive(value, applied) ==
    /\ capture[Session].phase = "idle"
    /\ Spend("remote", MaxRemote)
    /\ board' = IF applied THEN value ELSE board
    /\ capture' = [capture EXCEPT ![Session] =
                      [phase |-> FirstStep(value), value |-> value, remote |-> TRUE,
                       seen |-> IF applied THEN value ELSE @.seen]]
    /\ UNCHANGED <<store, watchLock, launcher, shown>>

\* BlobStore::put.
BlobPresent(c) ==
    /\ capture[c].phase = "put" /\ capture[c].value \in blobFiles
    /\ To(c, "insert")
    /\ UNCHANGED <<board, store, watchLock, launcher, shown, budgets>>

CreateTemporary(c) ==
    /\ capture[c].phase = "put" /\ capture[c].value \notin blobFiles
    /\ <<capture[c].value, c>> \notin temporaries
    /\ temporaries' = temporaries \cup {<<capture[c].value, c>>}
    /\ To(c, "rename")
    /\ UNCHANGED <<board, items, nextItem, blobFiles, watchLock, launcher, shown, budgets>>

\* A temporary file left by an earlier process of the same id is in the way.
TemporaryInTheWay(c) ==
    /\ capture[c].phase = "put" /\ capture[c].value \notin blobFiles
    /\ <<capture[c].value, c>> \in temporaries
    /\ Ended(c)
    /\ UNCHANGED <<board, store, launcher, shown, budgets>>

RenameBlob(c) ==
    /\ capture[c].phase = "rename"
    /\ temporaries' = temporaries \ {<<capture[c].value, c>>}
    /\ blobFiles' = blobFiles \cup {capture[c].value}
    /\ To(c, "insert")
    /\ UNCHANGED <<board, items, nextItem, watchLock, launcher, shown, budgets>>

InsertItem(c) ==
    /\ capture[c].phase = "insert"
    /\ items' = items \cup {[id |-> nextItem, value |-> capture[c].value,
                             remote |-> capture[c].remote, pinned |-> FALSE]}
    /\ nextItem' = nextItem + 1
    /\ To(c, "idle")
    /\ UNCHANGED <<board, blobFiles, temporaries, watchLock, launcher, shown, budgets>>

(***************************************************************************)
(* The palette and the command line.                                       *)
(***************************************************************************)
\* What a search for values of a kind returns, sensitive rows excluded.
Visible(table, kind) == {item \in table : item.value \in kind}
Kinds == {Text, Rich, Captured}

SearchHistory(kind) ==
    /\ shown # Visible(items, kind)
    /\ shown' = Visible(items, kind)
    /\ UNCHANGED <<board, store, watchLock, launcher, capture, budgets>>

\* Restored from the row the palette remembers and the blob on disk.
HasContent(item) == item.value \in Rich => item.value \in blobFiles
Restore(item) ==
    /\ HasContent(item)
    /\ Spend("user", MaxUser)
    /\ board' = item.value
    /\ UNCHANGED <<store, watchLock, launcher, capture, shown>>

WithPin(id, pinned) ==
    {IF item.id = id THEN [item EXCEPT !.pinned = pinned] ELSE item : item \in items}

\* The pin is set to the opposite of what the palette remembers.
TogglePin(item, kind) ==
    /\ Spend("user", MaxUser)
    /\ items' = WithPin(item.id, ~item.pinned)
    /\ shown' = Visible(items', kind)
    /\ UNCHANGED <<board, nextItem, blobFiles, temporaries, watchLock, launcher, capture>>

\* Faulty: the blob goes with the row.
RemovalWithBlob(id) ==
    /\ items' = {item \in items : item.id # id}
    /\ blobFiles' = blobFiles \ {item.value : item \in {i \in items : i.id = id}}
\* The blob stays.
Removal(id) ==
    /\ items' = {item \in items : item.id # id}
    /\ blobFiles' = blobFiles

RemoveShown(item, kind) ==
    /\ Spend("user", MaxUser)
    /\ Removal(item.id)
    /\ shown' = Visible(items', kind)
    /\ UNCHANGED <<board, nextItem, temporaries, watchLock, launcher, capture>>

CliPin(id, pinned) ==
    /\ \E item \in items : item.id = id /\ item.pinned # pinned
    /\ Spend("user", MaxUser)
    /\ items' = WithPin(id, pinned)
    /\ UNCHANGED <<board, nextItem, blobFiles, temporaries, watchLock, launcher, capture, shown>>

CliRemove(id) ==
    /\ \E item \in items : item.id = id
    /\ Spend("user", MaxUser)
    /\ Removal(id)
    /\ UNCHANGED <<board, nextItem, temporaries, watchLock, launcher, capture, shown>>

\* Retention spares pinned rows and rows that are recent enough.
Prune(cutoff) ==
    /\ Spend("user", MaxUser)
    /\ items' = {item \in items : item.pinned \/ item.id >= cutoff}
    /\ items' # items
    /\ UNCHANGED <<board, nextItem, blobFiles, temporaries, watchLock, launcher, capture, shown>>

Copy(value) ==
    /\ board # value
    /\ Spend("copies", MaxCopies)
    /\ board' = value
    /\ UNCHANGED <<store, watchLock, launcher, capture, shown>>

CrashCapturer(c) ==
    /\ capture[c].phase \notin {"off", "starting"}
    /\ Spend("crashes", MaxCrashes)
    /\ Ended(c)
    /\ UNCHANGED <<board, store, launcher, shown>>

\* What a running process does next by itself.
Progress(c) ==
    \/ PollClipboard(c) \/ PollFails(c)
    \/ BlobPresent(c) \/ CreateTemporary(c) \/ TemporaryInTheWay(c)
    \/ RenameBlob(c) \/ InsertItem(c)
Ensure(l) == EndProbe(l) \/ SpawnWatcher(l) \/ StartWatcher(l)

HistoryNext ==
    \/ \E l \in Launchers : Probe(l) \/ Ensure(l)
    \/ StartHistorySession
    \/ \E c \in Capturers : Progress(c) \/ CrashCapturer(c)
    \/ \E value \in RemoteValues, applied \in BOOLEAN : Receive(value, applied)
    \/ \E kind \in Kinds :
          \/ SearchHistory(kind)
          \/ \E item \in shown : TogglePin(item, kind) \/ RemoveShown(item, kind)
    \/ \E item \in shown : Restore(item)
    \/ \E item \in items :
          \/ \E pinned \in BOOLEAN : CliPin(item.id, pinned)
          \/ CliRemove(item.id)
    \/ \E cutoff \in 1..nextItem : Prune(cutoff)
    \/ \E value \in Values : Copy(value)

\* The processes are scheduled; nobody has to start or crash one.
HistoryFairness ==
    /\ \A c \in Capturers : WF_historyVars(Progress(c))
    /\ \A l \in Launchers : WF_historyVars(Ensure(l))

HistorySpec == HistoryInit /\ [][HistoryNext]_historyVars /\ HistoryFairness

(***************************************************************************)
(* Properties.                                                             *)
(***************************************************************************)
HistoryTypeOK ==
    /\ board \in Values \cup {Nothing}
    /\ items \subseteq Item /\ shown \subseteq Item /\ nextItem \in Nat
    /\ blobFiles \subseteq Rich /\ temporaries \subseteq Rich \X Capturers
    /\ watchLock \in Launchers \cup {Nobody}
    /\ launcher \in [Launchers -> {"idle", "probing", "spawning"}]
    /\ capture \in [Capturers ->
          [phase : {"off", "starting", "idle", "put", "rename", "insert"},
           seen : Values \cup {Nothing}, value : Captured \cup {Nothing}, remote : BOOLEAN]]

\* Whatever the palette shows or the table holds can be put back on the
\* clipboard: the blob of a row is complete before the row exists and outlives
\* it, across crashes, concurrent captures of the same content and removals by
\* others (BlobStore::put, persist, restore_history_value).
Restorable == \A item \in items \cup shown : HasContent(item)

Watching(l) == capture[l].phase \notin {"off", "starting"}

\* A launcher that finds no watcher brings one about, although its probe, the
\* probes of others and the watchers they spawn all contend for one lock.
LaunchBringsWatcher ==
    \A l \in Launchers : launcher[l] = "probing" ~> \E w \in Launchers : Watching(w)
=============================================================================
