# Superspace: a TLA+ development

Superspace is a local-first launcher in Rust: search, applications, files, a calculator and
sandboxed extensions, and, between paired computers of a local network, a shared clipboard and file
transfer. This directory holds TLA+ models of its stateful parts, the TLC configurations that check
them and the TLAPS proofs about them. Paths below are relative to the repository (`src/`).

Run in this directory: `tlc -config MCReplicationNetwork.cfg MCReplicationNetwork.tla` checks a
configuration, `tlapm ReplicationNetworkProofs.tla` checks the proofs.

## 1. Inventory

| Component (source) | State | Operations | Talks to | What is hard |
|---|---|---|---|---|
| Hybrid clock (`crates/protocol/src/clock.rs`) | physical and logical counters | `new`, `tick`, `receive` | ledger | wall clocks that run backwards, saturation |
| Replication ledger (`crates/network/src/replication.rs`) | clock, replay filter, current event, queue per peer; in memory only | `record_local`, `receive`, `preview`, `pending_for`, `acknowledge` | coordination | reordering, duplicates, a filter that forgets, restart |
| Clipboard coordination (`crates/sync`, `crates/platform/src/clipboard.rs`) | monitor digest, ledger, history, blobs | `poll_local`, `apply_ready`, `persist`, `receive_blob` | session loop, system clipboard, stores | echoes, writes that fail half way, debug-only effects |
| Clipboard session (`apps/superspace/src/main.rs`, `crates/network/src/session.rs`, `transport.rs`) | one connection, one offer | the select loop, offers, acknowledgements, blob requests | peer's session | cancellation of a half-read request, mutual waiting, idle timeout |
| File transfer (`crates/network/src/transfer.rs`, `session.rs`) | manifest, staging directory, published files | `begin`, `accept`, `finish`, send, cancel | peer, file system | crash and resume, changed sources, races for a name |
| Pairing (`crates/network/src/pairing*.rs`) | handshake, both users' decisions | `pair_outgoing`, `pair_incoming` | trust store, palette | decisions in either order, loss, timeout while asking |
| Device identity (`crates/network/src/identity.rs`) | one file | `load_or_create` | every process | two first processes |
| Trusted devices (`crates/storage/src/trusted.rs`) | table of peers | `upsert`, `set_enabled`, `remove`, `get` | pairing, sessions, palette | revocation against open sessions |
| Clipboard history and blobs (`crates/storage`), watcher (`main.rs`) | table, blob files, lock file | `insert`, `set_pinned`, `remove`, `prune`, `put` | coordination, palette | two writers, crash between blob and row |
| Network blobs (`crates/network/src/blob.rs`) | partial files | `begin`, `accept` | session | resume, two fetches of one blob |
| File index (`crates/files`) | table, generation | `refresh`, `search` | palette | cancelled scans, overlapping generations |
| Extension registry and packages (`crates/extensions`) | published packages, installed files | `publish_package`, `install`, `verify` | host | check and use of one path, immutable writes |
| Launcher palette (`crates/ui/src/shell.rs`, `model.rs`, `mini_tools.rs`) | surface, query, list, selection, emoji rows | `set_surface`, `refresh_results`, `invoke`, `show_currency_result` | everything | late answers, a list replaced under the selection |
| Search field (`crates/ui/src/search_input.rs`) | content, selection, marked range, painted layout | editing, the platform's input method, the pointer | palette | ranges of an earlier text |
| Nearby surface (`shell.rs`) | devices, pairing threads, their events | pair, decide, list, enable, forget | pairing, trust store | a thread that waits for the user |
| Discovery (`crates/network/src/discovery.rs`) | advertisement, beacon socket, mDNS browser | `start`, `poll`, `stop` | Nearby surface | reports of two protocols in any order |
| Preferences and search (`crates/core`) | `launcher.json` | `load`, `save`, alias, favourite, count, rank | palette, command line | two writers of one file |
| Productivity store (`crates/productivity`) | rows and a search table | `save`, `delete`, `search`, `by_keyword` | palette, command line | two tables in step |
| Exchange rates (`crates/ui/src/currency.rs`) | cache file, lock | `convert`, `save_rate` | palette | read, change and write by several threads |
| Application catalogue (`crates/platform/src/apps.rs`) | none, a scan | `discover_apps`, `launch` | palette | files that change during the scan |
| Clipboard values (`crates/platform/src/clipboard.rs`, `crates/sync`) | digest, encodings | `digest`, `encode_value`, `decode_value` | coordination | two values with one digest, a value changed by its way |
| Calculator, model stream, emoji (`crates/calculator`, `ai`, `emoji`) | parser and decoder state | `evaluate`, `push`, `finish` | palette | precedence, text cut anywhere |
| Platform adapters, drawing | system I/O | | | little state that interacts |

What makes each correct:

- clock and ledger: timestamps only grow; devices that saw the same events agree; nothing is applied
  twice; what is owed to a peer stays queued until acknowledged;
- session: an acknowledgement means durable; idle connected devices hold the same clipboard; what a
  session wrote is not sent back; offers are answered;
- file transfer: only whole, verified copies are published, none replaces another file, success is
  reported only after one exists, and leftovers of a failed attempt do not stop the next;
- pairing and trust: whoever is stored was approved by both users in one handshake, and is the
  device that will use the stored identity; a session connects approved devices;
- discovery: a device that stays near and speaks the protocol is listed, at its present address;
- stores, index, registry, preferences, rates: a crash or a second writer leaves every row backed by its content, and
  stale content never replaces newer;
- palette: an answer is shown for the query and surface it was asked for, and loading ends; what is
  highlighted exists; an edit never slices the text inside a character;
- pure parts: a formula means what its precedence says, a stream means the same however it is cut, a
  clipboard value arrives as it was copied.

`PROJECT.json` lists every component with its status, and the hazards at their lines.

## 2. Modules

| Module | Models | Extends |
|---|---|---|
| `HybridClock` | `HybridTimestamp` with its saturating counter | |
| `Ledger` | `ReplicationLedger`: each method an operator on a record | `HybridClock` |
| `ReplicationNetwork` | ledgers of any number of devices; events delivered to anyone, repeatedly, in any order; restarts | `Ledger` |
| `ClipboardSession` | two devices running `clipboard_connection_loop` over one connection | `Ledger` |
| `AtomicDelivery` | what a transfer promises | |
| `FileTransfer` | sender, receiver and staging directory of one manifest | instantiates `AtomicDelivery` |
| `Pairing` | identity file, handshake, trusted peers | |
| `PeerSessions` | session processes and revocation over them | `Pairing` |
| `ClipboardHistory` | history store, blob files, the watcher under its lock, sessions, palette and commands | |
| `FileIndex` | refreshes of the index by several processes | |
| `ExtensionRegistry` | publication and installation of packages | |
| `Launcher` | the palette's surfaces, list, selection, actions, emoji grid and currency answers | |
| `TextField` | the search field with the input method | |
| `LauncherPreferences` | `launcher.json` between processes | |
| `UserTools` | the productivity store's transactions | |
| `NearbyPanel` | pairing threads and devices of the Nearby surface | |
| `BlobFetch` | `request_blob` against `BlobReceiver`: one blob, its partial file, crashes | |
| `Discovery` | mDNS, beacons and the list of nearby devices | |
| `RateCache` | the currency cache under its lock | |
| `AppCatalogue` | the scan of applications, parsing, icons, launching | |
| `ClipboardContent` | one value: encoded, hashed, sent, decoded, written, polled | |
| `Calculator` | the expression parser as recursive functions | |
| `StreamDecoder` | the decoder of model streams | |
| `StoresProofs` | proofs (section 5) | `ClipboardHistory`, `UserTools`, `FileIndex`, `LauncherPreferences`, `RateCache`, `ExtensionRegistry`, `BlobFetch`, `NearbyPanel`, `Discovery` |
| `TextProofs` | proofs (section 5) | `TextField`, `StreamDecoder`, `ClipboardContent` |
| `LauncherProofs` | proofs (section 5) | `Launcher`, `AppCatalogue` |
| `LedgerProofs` | lemmas about clocks and the order of events | `Ledger` |
| the other `*Proofs` | proofs (section 5) | the module they name |
| `MC*` | constants for TLC | the module they name |
| `MCDesktop` | the components of one device, composed | `ClipboardHistory` to `StreamDecoder` |

How state and actions correspond to the code:

- **`ReplicationNetwork`.** `ledger[d]` has the fields of `ReplicationLedger`. `processed[d]` is a
  history variable: what the ledger was given since it was made. A queued event carries its expiry.
- **`ClipboardSession`.** `board` is the system clipboard; `digest`, `ledger`, `outgoing` and `fetch`
  are the session's memory, `history` and `blobs` its disk. `HandleOffer` ... `FinishFetch` are the
  awaits of `handle_peer_request`, during which the select does nothing else. `Interrupted` is the
  select dropping `receive_peer_request` after it has read a part of a frame, at a tick that polls a new
  value (`PollLocal`), at one that has nothing to do, with an offer outstanding or without (`IdleTick`), or
  at an acknowledgement. `StartSession` makes
  two new processes, which know what is on disk. Chunks of a blob are one step.
- **`FileTransfer`.** `partial` and `final` are the staging directory; the offsets of the
  `ReceivingEntry`s are `receiver.received`. `ChooseDestination` and `Publish` are two steps because
  `finish` looks for a name and renames afterwards. Content is a sequence of units, each as the
  manifest's author hashed it or changed. `Retry` starts both sides again with the same manifest:
  the library supports that, and its tests do it; the command line makes a new manifest for each
  process and so starts with an empty staging directory, which is the first attempt of the model.
- **`Pairing`.** `pairing[d].phase` is the await `pair_outgoing` or `pair_incoming` stands at;
  `approvals` is a history variable. Both run under a five-minute timeout. A timeout that comes while
  the user is asked only takes effect once the user answers, since dropping the runtime waits for
  the blocking thread: `TimesOutConfirming`, `LateDecision`. Of two connecting devices the listener
  answers one; the other waits in the queue.
- **`PeerSessions`.** A session process loads the identity, reads the trusted peer and pins it
  (`OpenEndpoint`); from then on only the link matters. `SendEvent` stands for the traffic of
  `ClipboardSession` in the direction that a revocation by the listener is about.

- **`MCDesktop`.** The components of one device share no variable: what they share in the program (a
  process, the SQLite files) is inside one module each. A behaviour therefore exercises one of them,
  chosen by `focus` at the start, and the others stay as they began; every interleaving of the actors
  of one component is explored, and products of independent components are not.
- **`FileIndex`.** `rows` and `search` are the committed tables, `draft` what the writer has written in
  its transaction: SQLite admits one writer, and readers see the committed state. A refresh is `Begin`
  (the generation is read), `Visit`/`Skip` for each entry, and `Finish`, `Cancel` or `Fail`.
- **`ClipboardHistory`.** A capture is a program of steps (read, blob, row), as is the probe of the
  watcher's lock; a crash may come between any two, and process ids come back.
- **`ExtensionRegistry`.** A command is a program of file operations: temporary file, rename, record,
  marker. Commands overlap in any way, on one version too. `InstalledIsVerified` and `PublishedIsServable`
  are about what is on disk. `clashed` is a history variable: the files for which two commands that had
  found none each wrote a different content, which nothing in the code prevents. What a properly ordered
  history guarantees is claimed of the others.
- **`LauncherPreferences`.** A save is open, write, rename or, when that fails, remove; `saving[w].open` is
  the file its descriptor stands for, which follows a rename and outlives a removal. Saves of several
  processes overlap freely. The history variables say which saves have met no other (`alone`) and whether
  saves have met since one was alone to its end (`crossed`).
- **`NearbyPanel`.** The palette reads the devices when it is built, over any trust store, and after a
  pairing and its own changes; not when the surface is entered.
- **`Launcher`.** An action is a whole handler with its trailing `refresh_results`. Fuzzy scores are two
  tiers; lists are sequences, so order and selection are exact. `CurrencyAnswer` is the completion of
  the background task with the query it was spawned for.
- **`TextField`.** A text is a sequence of characters with UTF-8 and UTF-16 widths; offsets are bytes or
  units as in the code. An operation that would slice inside a character sets `panic`.
- **`BlobFetch`.** The partial file is a sequence of units, right or `Wrong`: appended, renamed, or left
  by an interruption with unsynced data lost or damaged. Looking for the files and opening one are two
  steps of `begin`. Sessions may fetch the blob at once, and an open file follows a rename. `shared` is a
  history variable: the present fetch, or the last one, began while another was under way.
- **`Calculator`, `StreamDecoder`, `ClipboardContent`, `AppCatalogue`** translate pure code as operators
  and recursive functions, driven by a small state machine that supplies every input of a small set.
  The properties compare them with a definition of another shape: a formula printed with exactly the
  parentheses it needs, the whole text decoded at once, the identity, the set of applications.

Operators marked *faulty* in the modules are not used by any specification. Each is a plausible bug
in place of the definition after it, with which the property named in `PROJECT.json` fails.

## 3. Runs

| Run | Configuration | Result | States | What it shows |
|---|---|---|---|---|
| `replication` | `MCReplicationNetwork.cfg` | holds | 210 000 | causality, convergence, single application, the bounded filter, the queue |
| `session` | `MCClipboardSession.cfg` | holds | 509 000 | durability of acknowledgements, no echo, convergence, no offer unanswered (debug build) |
| `session_release` | `MCClipboardRelease.cfg` | **violated** | | the release build does not record applied events |
| `session_both_large` | `MCClipboardBothLarge.cfg` | **violated** | | two large images offered at once: both sides wait |
| `file_transfer` | `MCFileTransfer.cfg` | holds | 285 000 | refinement of `AtomicDelivery`, resume, termination, success despite faults |
| `file_collision` | `MCFileCollision.cfg` | **violated** | 49 | a file replaces one published meanwhile |
| `peer_sessions` | `MCPeerSessions.cfg` | holds | 1 607 000 | trust comes from two approvals and stays attached to the identity |
| `revocation` | `MCRevocation.cfg` | **violated** | | a revoked device connects and receives |
| `desktop` | `MCDesktop.cfg` | holds | 167 000 | the components of one device, property by property below |
| `preferences_overlap` | `MCPreferences.cfg` | **violated** | 263 | two saves through one temporary name leave a file of no bytes |
| `file_index_reuse` | `MCFileIndexReuse.cfg` | **violated** | | a cancelled scan's row outlives a complete scan |
| `text_field_panic` | `MCTextField.cfg` | **violated** | | a selection of an earlier text makes the field panic |

The properties of `desktop`: `SearchTableMatchesRows`, `OnlyCompleteScansRemove`, `FreshScanIsExact`
(file index); `Restorable`, `LaunchBringsWatcher` (history); `SelectionInRange`, `ShownIsCurrent`,
`LoadingEnds` (palette); `PublishedIsServable`, `InstalledIsVerified` (registry);
`TypingNeverPanics` (field); `PreferencesAreWhole`; `ToolsFoundOnce`; `PairingEnds` (Nearby surface);
`BlobArrives`; `PresentIsListed` (discovery); `FragmentsDoNotMatter` (stream); `UnderstoodAsMeant`
(calculator); `CatalogueIsRight`; `NoRateForgotten`; `ContentSurvives`. `DesktopTypeOK` is the type
invariant of all of them. The type invariants of the other modules document their variables; those of
`ReplicationNetwork`, `ClipboardSession`, `FileTransfer` and `PeerSessions` are proved, and so are those
of the components of `desktop` that section 5 lists.

The liveness properties are checked as `Focused...`, each for the behaviours of its component: in the
others the component stands still, and TLC follows a property only where it is claimed.

Bounds, and why the interesting cases happen within them:

- `replication`: two devices and two ids, so that two copies can be concurrent, ordered, repeated and
  out of order; clock readings 1 and 2 in any order, so clocks lag and run backwards; the counter
  saturates at 3; the replay filter holds one id, so it forgets; one restart.
- `session`: one device has a large image and a note, the other a text that arrives in several
  packets and files that cannot be read; two copies, one failure, a second session after the first.
  The clocks of the two devices differ and stand still, which is where the logical counter decides.
- `file_transfer`: a file of three units in chunks of two (a full and a partial chunk, so an attempt
  can stop between them) and an empty file (complete before any chunk). Two faults and four attempts:
  more attempts than faults, foreign publications and the first try together need.
- `peer_sessions`: the listener, a device it was paired with before, and a new one without an identity
  file; one handshake, which either may win; one change of the trusted peers, before, during or after
  it. Removing the bound on changes, or allowing two handshakes between two devices, was tried and
  found no error either; the runs would take too long to repeat each time.

- `desktop`: two processes index two scopes, one inside the other, with three refreshes and one change
  (no property tells sizes and dates of files apart, so there is one of each), which is a cancelled refresh, a complete one and a third to see its effects; two launchers, one
  session, one crash and one copy for the history, with a value from a peer; a query of every kind the
  palette tells apart (tool keyword without arguments, which no property is about, money, formula, prefix, letters); three runs of the registry
  by two processes over two versions, one of which has two packages, so that publishers and an installation
  of one version overlap; a text of two characters, one of which takes four
  bytes and two units; two writers of preferences that save at once or in turn and four changes or cuts; three transactions of two tools;
  two pairings and one change from outside; a blob of a full and a partial chunk, two sessions, two
  faults; three devices, one of another version, with two moves and two reports; streams of every
  provider cut at every place; formulas of every pair of operators with unary signs, percentages and
  calls; two roots and two file names with every content twice; two threads and three conversions;
  values that divide the same bytes differently among their fields.
- `file_index_reuse` and `text_field_panic` use the bounds of `desktop`, `preferences_overlap` two changes.

No configuration excludes an overlap of processes that the code allows, but for `RateCache`, which has the threads
of one palette, since its lock is one process's. Three files are shared without a lock:
a registry's packages, `launcher.json.tmp` and the partial file of a blob. The models let their users overlap,
a history variable (`clashed`, `crossed`, `shared`) notes where they did in the way that matters, and
`PublishedIsServable`, `InstalledIsVerified`, `PreferencesAreWhole` and `BlobArrives` say what holds apart from
that: also while others overlap elsewhere, and after overlaps whose damage has been made good. Section 6 says what
becomes of the rest.

Deadlock is checked except where the system may stop: when the copies, sessions or attempts that the
bounds allow are used up.

## 4. Fairness

- `ClipboardSession`: weak fairness of each device's own steps. The steps are those of one tokio task
  whose select is woken by each of its three branches. The user, failures, and the idle timeout have
  none: `OfferAnswered` must hold without the timeout.
- `FileTransfer`: weak fairness of the two sides, of the exit of a process that has its result, and
  of another attempt while attempts are left (the users do not give up). Faults, cancellations,
  changes and foreign publications have none. A side takes several different steps under one
  fairness condition, so no step is favoured over another.
- `desktop`, each condition for the behaviours of its component only:
  - the watcher's loop and a launcher's probe are programs that nothing blocks (`Progress`, `Ensure`);
  - a conversion ends, because its request has a timeout (`currency.rs`, eight seconds);
  - the threads of the Nearby surface run, its timer drains their events, and the user at last
    answers a code that is shown: without an answer a pairing never ends (`PairingEnds`);
  - a fetch that has begun goes on until it ends or is interrupted (`FetchGoesOn`). Nothing makes a fetch
    begin: an interruption ends the session, the queue of pending events is lost with it, and what is then
    copied or offered is up to the users. So `BlobArrives` is about the fetches that do follow one another:
    they publish the blob, unless no session asks for it any more. A disk with space is assumed, and faults
    are bounded;
  - beacons of a running device arrive (one each second) and the palette polls (every 350 ms).
- The safety properties need none.

## 5. Proofs

TLC checks a small instance; the theorems hold for every value of the constants that satisfies the
named assumptions. All proofs have the same plan: an invariant that is inductive, one lemma per action
(or group of actions) that shows it kept, and the property as a consequence.

| Module | Theorems | Rests on |
|---|---|---|
| `ReplicationNetworkProofs` | `Invariance`, `TypeCorrect`, `SeenBounded`, `LastWriterWins`, `Converges`, `Causality`, `AppliedOnce`, `PendingKept` | ids and devices are ordered, the capacity and the counter's limit are positive, no event is `NoEvent` |
| `FileTransferProofs` | `TransferInvariant`, `TransferDelivers` (the refinement of `AtomicDelivery`), `FoldersReplaceNothing`, `TransferTypeCorrect` | `TransferAssumption`; `FoldersReplaceNothing` also that the transfer is not of a single file |
| `PeerSessionsProofs` | `PeersInvariant`, `NothingStoredUnapproved`, `StoredIdentityStays`, `SessionsAreApproved`, `PeersTypeCorrect` | `PairingAssumption` |
| `ClipboardSessionProofs` | `SessionInvariant`, `AcknowledgedIsDurable`, `OfferedIsServable`, `WritesAreNotEchoed`, `IdleMonitorsAgree`, `CopiesConverge`, `SessionTypeCorrect` | `SessionAssumption`, `NoEventAssumption`, `NothingAssumption` and those of the ledger; `OfferedIsServable` also that only images are too large to be sent inline; `IdleMonitorsAgree` and `CopiesConverge` (`QuiescentConvergence`) that debug assertions are on and the counter cannot saturate |
| `StoresProofs` | `HistoryInvariant`, `HistoryIsRestorable`, `HistoryTypeCorrect`; `ToolsInvariant`, `ToolsAreFoundOnce`, `ToolsTypeCorrect`; `IndexInvariant`, `FilesTypeCorrect`, `SearchTableFollowsRows`, `RemovalOnlyByCompleteScans`, `FreshScansAreExact`; `PreferencesInvariant`, `PreferencesStayWhole`, `PreferencesTypeCorrect`; `RateInvariant`, `NoRateIsForgotten`, `RatesTypeCorrect`; `RegistryInvariant`, `PublishedStaysServable`, `OnlyVerifiedIsInstalled`, `RegistryTypeCorrect`; `BlobInvariant`, `OnlyTheWholeBlobIsPublished`, `BlobTypeCorrect`; `PanelInvariant`, `NoPairingHangs`, `PanelTypeCorrect`; `DiscoveryTypeCorrect` | `HistoryAssumption`; `UserToolsAssumption`; the assumptions of `FileIndex`; `PreferencesAssumption` and `FileAssumption`; `RateAssumption`; `RegistryAssumption`; `BlobFetchAssumption`; `PanelAssumption`; `DiscoveryAssumption` |
| `TextProofs` | `TypingIsSafe`, `FieldTypeCorrect`; `CutsDoNotMatter`, `StreamTypeCorrect`; `ValuesSurvive`, `ContentTypeCorrect` | `TextFieldAssumption`; `StreamAssumption`; `ContentAssumption` |
| `LauncherProofs` | `SelectionStaysInRange`, `ListIsCurrent`, `LauncherTypeCorrect`; `CatalogueInvariant`, `EveryApplicationIsListedOnce`, `CatalogueTypeCorrect` | `LauncherAssumption`; `CatalogueAssumption`, `CommandsAssumption` |

**Replication.** That the current event is the newest one is kept by `ReceiveEvent` only because the
order on events is total, which needs ids to be unique (`UniqueIds`); it is kept by `LocalCopy` only
because the clock is ahead of every processed event (`ClockAheadOfProcessed`); and `AppliesOnce` holds
after the replay filter has forgotten an event only because the event then does not beat the current
one. `IInv` is the conjunction of those parts. An event whose logical counter has saturated is excepted
where it must be: the code then orders it by timestamp alone. A step changes one device, so each action
has one lemma about one ledger (`DeviceInv`, `IInvByDevice`, `OneDeviceSteps`).

**Clipboard session.** A device acknowledges a duplicate without keeping it again, and its replay filter
knows ids only; so the acknowledgement is right because an id names one event (`OneEvent`) and the
filter knows the ids of kept events only (`Kept`). What is acknowledged is what the request was about,
because requests in flight and a fetch under way belong to the offer the sender still waits for
(`Conversation`), also after a select has dropped one. The proof covers both builds: an applied event the
release build does not record is kept nevertheless. `OfferedIsServable` needs the assumption that only images
are above the inline limit: the blob of a text above it is stored by nobody (section 6).

**File transfer.** The staging directory outlives attempts, so what holds of it may not depend on the
attempt: a renamed entry is whole (`OnDisk`). While a receiver runs, its offsets are what is staged, and
an entry that is full has been renamed, hence verified (`InMemory`); so when no offset is short
everything is whole, and that is what is published. An acknowledgement, on the stream or read, stands
for a copy (`Promised`). A step that stages, reads or fails maps to a stutter of `AtomicDelivery`;
`Publish` to its `Publish`, or to a stutter when it replaces an equal copy; `SenderReadsAck` to `Tell`.
What another process publishes is not part of the mapping.

**Pairing and sessions.** What is stored at the end of a handshake was said at its beginning and decided
on both sides in between. `PeerInv` says what each packet on a stream can be when each side is at each
phase, and that the two sides, while they talk, have one transcript; streams break and are made again
while the listener is busy with an old one, so the transcript of a stream and that of a side are not the
same thing. Then it says that a stored row stands for two approvals and for the identity file, which
never changes once written, and that a session has pinned rows of such peers.

**File index.** `IndexInv`: both tables in step (`Follows`) in the committed and in the writer's view;
the writer is a running scan; a scan has seen exactly the files whose rows it wrote. The second is what
makes removal and freshness provable while other scans commit in between.

**Registry.** Nothing is locked, and commands overlap. A process about to rename has found no file or its own
content; if another one about to rename the same file has a different content, they have met, and the file is in
`clashed`. Every other published version never changes its content: whoever renames it has the same, or it was
not there (`SameWriters`), so what a process has found or verified stays true behind it (`Knows`).

**History.** A capture on its way to its row has its blob on disk already (`Underway`), and blobs are never
removed, so a row refers to what is there, whoever crashes or removes rows meanwhile.

**Preferences, tools, rates.** A save that no other has met (`Undisturbed`) has the temporary file to itself, though
one that was cut off may have left half of it: it truncates the file, so what it renames is its own and whole. As
long as none have met, every save under way is such a one; and after saves that met, the rename of one that was
alone to its end puts a whole file in place, with no other writer left on it (`PreferencesInv`). Between the statements of a transaction its two tables disagree about
one tool; the invariant says how after each (`Halfway`). The holder of `CACHE_WRITE` has every rate of
the file in its copy, and after the write in the temporary file.

**No echo and convergence.** Both are about what a monitor believes. `NoEcho`: until the user copies, the
digest is what the clipboard shows, or nothing in a new process (`Echoes`); so a poll that finds something
new finds a copy of the user's, or is the first. That also counts the events there can be (`Budget`).
Convergence (`Agreement`): while the connection is open, a device shows the newest event its ledger knows
(`Following`), and the peer knows it too unless the offer of it is still under way (`Settled`). With
nothing under way each of the two current events is at least as new as the other, and as an id names one
event they are the same. `Following` fails in the release build, where an applied event is not recorded
(finding 1, run `session_release`), so `DebugAssertions` is a hypothesis. The other one,
`3 * (MaxCopies + 2 * MaxSessions) <= LogicalMax`, says that the counter does not saturate: an event adds
three at most, two where it is created and one where it is received (`Counted`). `MCClipboardSession.cfg`
satisfies both (18 <= 20); the counter of the code has 32 bits. `IdleMonitorsAgree` states the same in each
state that has seen few enough events, whatever the bounds.

**Search field.** Nothing is known of the selection, which may be one of an earlier text (finding 6). Text is
replaced all the same at the nearest boundaries before its ends (`Clamped`), the result of a composition is
marked where it was put, and an edit that does not mark unmarks: so the mark is always a range of the text
(`Sound`), and replacing and painting never slice a character. What a text of any length weighs in bytes and
units are sums over its characters; the lemmas say that they grow and that boundaries lie between them.

**Stream.** Decoding a stream cut anywhere emits what decoding the whole does: what the decoder has emitted
and what it holds back together stand for the text fed so far, since a cut can only fall inside the last,
unfinished line. **Clipboard values.** What `encode_value` writes, `decode_value` reads back
(`FlattenSeq`, the offsets of the fields and `DecodePaths` undo each other), and the digest separates any two
values that a transfer accepts. Both are about recursive functions, and the library's induction theorems
cannot be instantiated with an operator here. The proofs therefore take a set of naturals at which a fact
holds and show, by the least element of its complement, that it is all of them.

**Palette.** Every handler that changes what is listed must leave a selection that fits, and a list that is
the one for the query, also when an answer or a change of the favourites comes from elsewhere. The invariant
is that an open palette is settled (`Settled`): its list is what a refresh would make of the other fields
(`Listing`). Two parts of it are there only because a handler does less than a refresh. A favourite that
changes ranks the candidates again, in whatever surface it was chosen; that is a refresh because an
application is listed only where the candidates are those of the launcher without a conversion. An answer
lists its result at once; that is a refresh because a conversion is on record only while the list is its own,
so one that is asked for by an earlier query is not shown. The grid is scrolled to the row of the
selection: its rows hold each place of the list once (`EmojiGrid`), so there is one such row.
`LauncherAssumption` says of the data what the code fixes: groups are different, every emoji is in one, and
no entry that is not an application has the id of one (ids of applications begin with `app:`,
`ui/src/shell.rs:243`). The entries and queries may be any, also the number of each.

**Application catalogue.** What the scan has left behind is listed or has changed (`NothingMissed`), and what
is listed was read where it says, from the first root that has it (`ListedWell`). The second needs the first:
an application is new to a root because every root before has been read whole. Entries may change at any
time, also behind the scan, so both are about entries that have been left alone (`Steady`). Sorting permutes
the list, and resolving changes icons only. That the icons are the largest is an induction over the themes
and over the files of each, in any order (`IndexFits`: what is found is at least as large as what was seen,
and as early in the themes if it is as large). That a command runs with the words it was written with is an
induction over characters: `split_exec` after a quoted word is where it was before, with one more argument
(`SplitsLine`). `CommandsAssumption` leaves out the empty word, which the code drops even where it is quoted,
`%%`, which it turns into `%`, and commands of which only field codes are left, which are no commands. Names
and icons may be any, the order of names too, except that an icon has a size and a theme finitely many
icons.

**Blob fetch.** Of sessions that fetch at once nothing is claimed but types. A fetch that began alone, with none
begun since, has the partial file open and has counted what is in it, whatever a crash or earlier fetches have made
of the content; no other writer has a file open under either name; and once it has verified the file, the file is
whole. So a rename publishes nothing else, and a published blob is not written on (`BlobIsWhole`). That fetches
which follow one another end in a published blob (`BlobArrives`) is liveness and only checked.

**Pairing of the palette.** A thread, its channel to the palette, the question to the user and the channel
back are at one of nine points together, and every other pairing is over (`PairingState`, `OthersOver`). So
while a pairing is active either its thread can move, or an event waits for the palette, or the user has the
code to answer (`PairingCanMove`): nothing hangs but on the user. `PairingEnds` adds fairness to that and is
only checked.

**Discovery.** A list of nearby devices holds other devices of this protocol version only, by one step for
each queue. What makes discovery useful, `PresentIsListed`, is liveness.

With these every conjunct of `DesktopTypeOK` is a theorem about its component.

Only model-checked: `Calculator` (`UnderstoodAsMeant`), the composition in `MCDesktop` (`DesktopTypeOK` as one
invariant of it), and all liveness: `OfferAnswered`, `SucceedsDespiteFaults`, `AttemptEnds`, `LoadingEnds`,
`LaunchBringsWatcher`, `BlobArrives`, `PairingEnds` and `PresentIsListed`. Liveness under fairness, ENABLED, and
anything about RECURSIVE operators are out of the prover's reach; `MCDesktop` reaches those of the
calculator. The calculator could be proved only by induction over formulas of any depth, which the set-form
induction above does not give without an order on them.

## 6. Findings

With a run that shows them:

1. `crates/sync/src/lib.rs:313`: the call that records an applied event is the argument of
   `debug_assert_eq!`. The release profile (`Cargo.toml:74`) leaves it out: the ledger stays behind and
   two devices may settle on different clipboards (`session_release`).
2. `apps/superspace/src/main.rs:387`: the loop that serves the peer's blob requests is blocked while it
   waits for the peer's blob (`session_both_large`). QUIC's idle timeout (quinn's default; no keep-alive
   is configured) ends the session.
3. `crates/network/src/transfer.rs:553`: a name is looked up and used later, and renaming a file
   replaces (`file_collision`). A directory is safe: it does not replace one with entries
   (`FoldersReplaceNothing`).
4. `apps/superspace/src/main.rs:256`: trust is read once per process, so a revoked device still connects
   to a process that is open, and keeps its session (`revocation`).
5. `crates/files/src/lib.rs:132`: the generation is read from the rows, so a refresh after a cancelled
   one takes the number the cancelled one wrote, and a row it wrote for a file that has gone outlives a
   complete scan (`file_index_reuse`).
6. `crates/ui/src/search_input.rs:276`: the selection the input method asks for is computed in a text
   that a later edit has replaced; the next edit slices inside a character (`text_field_panic`).
7. `crates/core/src/preferences.rs:66`: `launcher.json.tmp` is one file for all writers. A save that overlaps
   another has its file truncated before the rename, or renamed by the other; a reader finds a file of no bytes
   or half of one, which the palette takes for the defaults and then overwrites (`preferences_overlap`).
   `PreferencesAreWhole` says what holds of saves that do not meet.

Met while modelling, without a run of their own (the first three are in the models):

- text above the inline limit is offered as a blob (`sync/src/lib.rs:18`), but `persist` (`sync/src/lib.rs:327`)
  puts only images and files into the blob store: the peer asks for it, there is no such file, and the session ends.
  `OfferedBlobIsServable` is violated as soon as a text is in `Large`;
- two publishers of different packages of one version that both find no file both rename theirs
  (`registry.rs:332` checks, then writes; `clashed`): the later one wins, also over a package that was recorded or
  verified in between, and a record that does not match its package makes `load_registry` (`registry.rs:147`)
  reject the whole catalogue. So does a temporary file that a crash has left in the index;
- two sessions that fetch one blob append to one partial file (`network/src/blob.rs:60`; `shared`). The file may
  become longer than the blob, which every later fetch refuses (`InvalidPartial`), and one of them may write on in
  the published blob, which later fetches then find damaged (`ExistingContentMismatch`);
- `CACHE_WRITE` (`ui/src/currency.rs:79`) does not exclude a second process; a slow answer may replace a
  newer rate, a failed conversion is not tried again for the same query, and an answer that cannot be
  read is an error although a kept rate exists;
- the clipboard's list is ranked by title (`shell.rs:766` calls `replace_entries`) although the query
  orders pins first and then by recency (`storage/src/clipboard.rs:233`);
- the arguments of a keyword tool stay with the tool after the query has changed (`mini_tools.rs:61`);
- "move by one visual row" (`ui/src/model.rs:212`) is eight entries, which is not a row where a section
  ends in an incomplete one;
- the children of the Nearby surface are kept (`shell.rs:215`) but neither waited for nor killed, where
  `HANDOFF.md:130` says that they end with the app; a second listener on a taken port is announced as
  ready;
- a device heard of only by a beacon is never taken off the list;
- a hidden desktop entry of the user does not hide the system's (`platform/src/apps.rs:164`); an icon
  name with dots keeps only what precedes the last one (`apps.rs:295`), so such names may share an icon;
  `Exec` drops an empty argument and words that contain `%%` beside other text (`apps.rs:501`);
- an image larger than `MAX_DECODED_IMAGE_BYTES` (`sync/src/lib.rs:520`) is encoded, kept and sent, and
  can be decoded nowhere;
- a stream decoder that meets an error drops the events it had decoded of the same fragment;
- a path that is not UTF-8 is altered (`to_string_lossy`) in the digest of copied files
  (`platform/src/clipboard.rs:83`) and in the history (`sync/src/lib.rs:546`): two such paths may share a
  digest, and a list with one is not restored as it was (`Lossy` and `Portable` in `ClipboardContent`);
- copying files ends the session and the watcher that poll them (`sync/src/lib.rs:133`, passed on at
  `main.rs:336` and `main.rs:547`; in both models), and the next launcher starts another watcher.

## 7. Not modelled

- Cryptography, TLS, QUIC and frame encoding: a connection delivers frames in order or closes; a
  handshake has one transcript; a hash identifies a content.
- Crashes of the machine: a write that returned is durable, except in `BlobFetch`, where unsynced data
  may be lost or damaged.
- Path validation, symbolic links, permissions, manifests' size limits, the walk of a folder, message
  validation; the validation of extension packages, policies and views, and the WebAssembly engine.
- In `Launcher`: file and intent rows, and that the clipboard's list is shorter after a removal (its rows are a
  constant, the removal refreshes the list). In `AppCatalogue`: the commands `CommandsAssumption` leaves out.
- Policies of foreground applications; HTML and RTF, which no backend produces.
- Parsing of dates, units, money and locale tables; fuzzy scores, which are two tiers; the catalogue of
  emoji, which is data; floating point.
- Drawing (about 1 500 lines of `shell.rs`), operating-system adapters, the processes the palette starts.
- `record_local_files` and `receive_files` of `crates/sync`, which no program calls.

## 8. Plan

What would add most next:

1. An abstract last-writer register that `ReplicationNetwork` implements: `LastWriterWins` and
   `AppliedOnce` are its two halves.
2. A session that carries the traffic of `ClipboardSession` over the links of `PeerSessions`, so that a
   revocation meets offers and blobs; the two are checked apart because their product is too large.
3. The palette's list of discovered devices over `Discovery` (`Launcher` and `Discovery` meet only in
   `MCDesktop`).
