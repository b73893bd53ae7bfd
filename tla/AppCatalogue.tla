---------------------------- MODULE AppCatalogue ----------------------------
(***************************************************************************)
(* The application catalogue (platform/apps.rs): the palette and the       *)
(* commands apps and launch-app read the desktop entries of Linux, or the  *)
(* bundles of macOS, under an ordered list of roots, while packages are    *)
(* installed, removed and written.  The entries of a root come in any      *)
(* order.                                                                  *)
(*                                                                         *)
(* A desktop file is a sequence of lines <<key, value>>, a group header    *)
(* the line <<"[]", name>>; an Exec value is a sequence of characters.     *)
(* An icon's name is a sequence of the parts between its dots, one that is *)
(* a path begins with "/".                                                 *)
(***************************************************************************)
EXTENDS Naturals, Sequences, SequencesExt, FiniteSets

CONSTANTS
    PlatformNames,   \* "linux", "macos"
    Roots,           \* how many roots, in order of precedence
    FileNames,       \* FileNames[platform]: names of entries
    Installed,       \* Installed[platform]: what the roots hold when the scan starts
    Contents,        \* Contents[platform]: what an entry may hold
    StemOf,          \* StemOf[f]: the file name f without its extension
    Rank,            \* Rank[n]: place of a name or an id in their order
    IconRoots,       \* the icon themes: a sequence of sets of [name, size, format]
    IconPaths,       \* the paths of icons that are files
    Commands,        \* commands of desktop entries, as lists of words
    NoEntry, Unreadable, NoValue,
    MaxPackageChanges   \* bound on packages changing under the scan

ASSUME CatalogueAssumption ==
    /\ Roots \in Nat \ {0} /\ MaxPackageChanges \in Nat
    /\ \A platform \in PlatformNames :
          Installed[platform] \subseteq
             [1..Roots -> [FileNames[platform] -> Contents[platform] \cup {NoEntry, Unreadable}]]
    /\ IconRoots \in Seq(Range(IconRoots))
    /\ \A themes \in Range(IconRoots) :
          IsFiniteSet(themes) /\ \A i \in themes : i # NoValue /\ i.size \in Nat

\* What can be written in an entry so that a word of it is left.
ASSUME CommandsAssumption ==
    \A words \in Commands :
       /\ words \in Seq(Seq(STRING))
       /\ \A i \in DOMAIN words : words[i] # << >> /\ words[i] # <<"%", "%">>
       /\ \E i \in DOMAIN words : "%" \notin Range(words[i])

VARIABLE
    catalogue    \* platform, files, the scan and the application launched last

(***************************************************************************)
(* Desktop entries.                                                        *)
(***************************************************************************)
\* The group of line i is that of the last header above it.
InEntry(file, i) ==
    \E h \in 1..i-1 : /\ file[h] = <<"[]", "Desktop Entry">>
                      /\ \A j \in h+1..i : file[j][1] # "[]"
\* Of several lines of one key the last counts.
LastValue(file, key) ==
    LET lines == {i \in DOMAIN file : file[i][1] = key /\ InEntry(file, i)}
    IN  IF lines = {} THEN NoValue
        ELSE file[CHOOSE i \in lines : \A j \in lines : j <= i][2]

\* push_exec_argument: a word with a field code is left out.
Pushed(arguments, word) ==
    CASE word = <<"%", "%">> -> Append(arguments, <<"%">>)
      [] word # <<"%", "%">> /\ "%" \in Range(word) -> arguments
      [] OTHER -> Append(arguments, word)

\* split_exec, one character at a time.
SplitStep(s, c) ==
    CASE s.escaped -> [s EXCEPT !.current = Append(@, c), !.escaped = FALSE]
      [] ~s.escaped /\ c = "\\" -> [s EXCEPT !.escaped = TRUE]
      [] ~s.escaped /\ c = "\"" -> [s EXCEPT !.quoted = ~@]
      [] ~s.escaped /\ c = " " /\ ~s.quoted ->
            [s EXCEPT !.arguments = IF s.current = << >> THEN @ ELSE Pushed(@, s.current),
                      !.current = << >>]
      [] OTHER -> [s EXCEPT !.current = Append(@, c)]
NothingSplit == [arguments |-> << >>, current |-> << >>, quoted |-> FALSE, escaped |-> FALSE]
SplitExec(text) ==
    LET split[n \in 0..Len(text)] ==
            IF n = 0 THEN NothingSplit ELSE SplitStep(split[n - 1], text[n])
        s == split[Len(text)]
        all == IF s.current = << >> THEN s.arguments ELSE Pushed(s.arguments, s.current)
    IN  IF s.quoted \/ s.escaped \/ all = << >> THEN NoValue ELSE all

DesktopEntry(f, file) ==
    LET exec == LastValue(file, "Exec")
        command == IF exec = NoValue THEN NoValue ELSE SplitExec(exec)
        valid == /\ LastValue(file, "Type") = "Application"
                 /\ LastValue(file, "Hidden") # "true" /\ LastValue(file, "NoDisplay") # "true"
                 /\ LastValue(file, "Name") # NoValue
                 /\ command # NoValue
    IN  IF valid THEN [id |-> f, name |-> LastValue(file, "Name"), icon |-> LastValue(file, "Icon"),
                       command |-> command,
                       terminal |-> LastValue(file, "Terminal") = "true"]
        ELSE NoEntry

(***************************************************************************)
(* Bundles: [identifier, name, icon, resources], an icon and a resource    *)
(* being <<stem, extension>>.                                              *)
(***************************************************************************)
\* The icon the bundle names, as it is or as an icns file, or any icns file.
BundleIcons(bundle) ==
    LET named == IF bundle.icon = NoValue THEN {}
                 ELSE ({bundle.icon} \cup (IF bundle.icon[2] = "" THEN {<<bundle.icon[1], "icns">>}
                                           ELSE {})) \cap bundle.resources
        any == {r \in bundle.resources : r[2] = "icns"}
    IN  CASE bundle.icon \in named -> {bundle.icon}
          [] bundle.icon \notin named /\ named # {} -> named
          [] named = {} /\ any # {} -> any
          [] OTHER -> {NoValue}

\* The entries a bundle may be read as.
BundleEntries(f, bundle) ==
    LET id == IF bundle.identifier = NoValue THEN StemOf[f] ELSE bundle.identifier
    IN  IF id = "" THEN {}
        ELSE {[id |-> id, name |-> IF bundle.name = NoValue THEN StemOf[f] ELSE bundle.name,
               icon |-> i, command |-> <<<<"open">>, <<"-a">>, <<f>>>>, terminal |-> FALSE]
               : i \in BundleIcons(bundle)}

(***************************************************************************)
(* Icons of Linux.                                                         *)
(***************************************************************************)
\* icon_name drops what follows the last dot.
IconKey(name) == IF Len(name) > 1 THEN Front(name) ELSE name

\* index_linux_icons: one file, and one root with its files in this order.
WithFile(found, i) ==
    LET key == IconKey(i.name)
    IN  IF i.format = "svg" \/ (found[key] # NoValue /\ i.size <= found[key].size) THEN found
        ELSE [found EXCEPT ![key] = i]
Indexed(found, files) ==
    LET after[n \in 0..Len(files)] ==
            IF n = 0 THEN found ELSE WithFile(after[n - 1], files[n])
    IN  after[Len(files)]

IconKeys == {IconKey(i.name) : i \in UNION Range(IconRoots)}
            \cup {IconKey(app.icon) : app \in {a \in Range(catalogue.listed) : a.icon # NoValue}}
Orders == {o \in [DOMAIN IconRoots -> UNION {SetToSeqs(r) : r \in Range(IconRoots)}] :
              \A n \in DOMAIN IconRoots : o[n] \in SetToSeqs(IconRoots[n])}
IndexedInAll(order) ==
    LET through[r \in 0..Len(IconRoots)] ==
            IF r = 0 THEN [k \in IconKeys |-> NoValue] ELSE Indexed(through[r - 1], order[r])
    IN  through[Len(IconRoots)]

\* resolve_linux_icons, which makes of a name <<"theme", file>>.  Where no icon has to be looked up none is changed.
IsPath(icon) == icon[1] = "/"
WithIcon(app, found) ==
    CASE app.icon = NoValue -> app
      [] app.icon # NoValue /\ IsPath(app.icon) ->
            [app EXCEPT !.icon = IF @ \in IconPaths THEN @ ELSE NoValue]
      [] OTHER -> [app EXCEPT !.icon = IF found[IconKey(@)] = NoValue THEN NoValue
                                       ELSE <<"theme", found[IconKey(@)]>>]
Resolved(apps, found) ==
    IF \A i \in DOMAIN apps : apps[i].icon = NoValue \/ IsPath(apps[i].icon) THEN apps
    ELSE [i \in DOMAIN apps |-> WithIcon(apps[i], found)]

(***************************************************************************)
(* The scan.                                                               *)
(***************************************************************************)
EntryAt(r, f) == catalogue.files[r][f]
MayHold(platform) == Contents[platform] \cup {NoEntry, Unreadable}

Catalogues ==
    UNION {{[platform |-> platform, files |-> files, root |-> 1, read |-> {}, changed |-> {},
             seen |-> {}, listed |-> << >>, launched |-> NoValue]
               : files \in Installed[platform]} : platform \in PlatformNames}
CatalogueInit == catalogue \in Catalogues

Scanning == catalogue.root <= Roots

\* A package is installed, replaced or removed.
PackageChanges(r, f) ==
    /\ Scanning /\ Cardinality(catalogue.changed) < MaxPackageChanges
    /\ \E content \in MayHold(catalogue.platform) \ {EntryAt(r, f)} :
          catalogue' = [catalogue EXCEPT !.files[r][f] = content,
                                         !.changed = @ \cup {<<r, f>>}]

EntriesIn(f, content) ==
    IF content \in {NoEntry, Unreadable} THEN {}
    ELSE IF catalogue.platform = "macos" THEN BundleEntries(f, content)
    ELSE {DesktopEntry(f, content)} \ {NoEntry}

ListedAs(app, r, f) ==
    [id |-> app.id, name |-> app.name, icon |-> app.icon, command |-> app.command,
     terminal |-> app.terminal, from |-> <<r, f>>]

\* Faulty: an id is taken before its entry has been understood.
SeenAtOnce(f, apps) ==
    catalogue.seen \cup (IF apps = {} THEN {f} ELSE {a.id : a \in apps})
Seen(f, apps) == catalogue.seen \cup {a.id : a \in apps}

\* On Linux the file name is the id, and one that is taken is not read at all.
ReadEntry(f) ==
    /\ Scanning
    /\ f \notin catalogue.read
    /\ EntryAt(catalogue.root, f) # NoEntry
    /\ LET apps == {a \in EntriesIn(f, EntryAt(catalogue.root, f)) : a.id \notin catalogue.seen}
           reading == [catalogue EXCEPT !.read = @ \cup {f}]
       IN  IF apps = {} THEN catalogue' = [reading EXCEPT !.seen = Seen(f, {})]
           ELSE \E app \in apps :
                   catalogue' = [reading EXCEPT
                       !.listed = Append(@, ListedAs(app, catalogue.root, f)),
                       !.seen = Seen(f, {app})]

\* A directory lists every file that was there all the time.
RootRead ==
    \A f \in FileNames[catalogue.platform] :
       f \in catalogue.read \/ EntryAt(catalogue.root, f) = NoEntry
       \/ <<catalogue.root, f>> \in catalogue.changed

NextRoot ==
    /\ Scanning /\ catalogue.root < Roots /\ RootRead
    /\ catalogue' = [catalogue EXCEPT !.root = @ + 1, !.read = {}]

\* By name in lower case, then by id.
Precedes(a, b) ==
    \/ Rank[a.name] < Rank[b.name]
    \/ Rank[a.name] = Rank[b.name] /\ Rank[a.id] < Rank[b.id]
Sorted(apps) ==
    {[i \in DOMAIN apps |-> apps[place[i]]] :
        place \in {p \in Bijection(DOMAIN apps, DOMAIN apps) :
                     \A i, j \in DOMAIN apps : i < j => ~Precedes(apps[p[j]], apps[p[i]])}}

FinishScan ==
    /\ catalogue.root = Roots /\ RootRead
    /\ \E order \in Orders :
       \E sorted \in Sorted(IF catalogue.platform = "linux"
                            THEN Resolved(catalogue.listed, IndexedInAll(order))
                            ELSE catalogue.listed) :
          catalogue' = [catalogue EXCEPT !.root = @ + 1, !.read = {}, !.listed = sorted]

Launch(i) ==
    /\ ~Scanning
    /\ catalogue' =
          LET app == catalogue.listed[i]
          IN  [catalogue EXCEPT !.launched =
                  (IF app.terminal THEN <<<<"x-terminal-emulator">>, <<"-e">>>> ELSE << >>)
                  \o app.command]

CatalogueNext ==
    \/ \E r \in 1..Roots, f \in FileNames[catalogue.platform] : PackageChanges(r, f)
    \/ \E f \in FileNames[catalogue.platform] : ReadEntry(f)
    \/ NextRoot \/ FinishScan
    \/ \E i \in DOMAIN catalogue.listed : Launch(i)

CatalogueSpec == CatalogueInit /\ [][CatalogueNext]_catalogue

(***************************************************************************)
(* Properties.                                                             *)
(***************************************************************************)
CatalogueTypeOK ==
    /\ catalogue.platform \in PlatformNames
    /\ catalogue.files \in [1..Roots -> [FileNames[catalogue.platform] ->
                                            MayHold(catalogue.platform)]]
    /\ catalogue.root \in 1..Roots+1
    /\ catalogue.read \subseteq FileNames[catalogue.platform]
    /\ catalogue.seen = {app.id : app \in Range(catalogue.listed)}

\* A command as the desktop entry specification has it written: words in quotes,
\* a quote or a backslash in them behind a backslash, a blank between them.
Quoted(word) ==
    <<"\"">> \o FlattenSeq([i \in DOMAIN word |-> IF word[i] \in {"\"", "\\"} THEN <<"\\", word[i]>>
                                                  ELSE <<word[i]>>]) \o <<"\"">>
CommandLine(words) == FlattenSeq([i \in DOMAIN words |-> Quoted(words[i]) \o <<" ">>])
WithoutFieldCodes(words) ==
    FlattenSeq([i \in DOMAIN words |-> IF "%" \in Range(words[i]) THEN << >> ELSE <<words[i]>>])

Steady == {e \in (1..Roots) \X FileNames[catalogue.platform] : e \notin catalogue.changed}
AppsOf(e) == EntriesIn(e[2], EntryAt(e[1], e[2]))
IdsOf(e) == {app.id : app \in AppsOf(e)}

\* Every application that stays installed during the scan is listed exactly once,
\* as the first root that has it describes it, however its packages and the others
\* come, change or break meanwhile.
ListedOnce ==
    /\ \A e \in Steady : IdsOf(e) \subseteq {app.id : app \in Range(catalogue.listed)}
    /\ \A i, j \in DOMAIN catalogue.listed :
          catalogue.listed[i].id = catalogue.listed[j].id => i = j
    /\ \A app \in Range(catalogue.listed) :
          /\ app.from \in Steady =>
                \E read \in AppsOf(app.from) : app.id = read.id /\ app.command = read.command
          /\ \A e \in Steady : e[1] < app.from[1] => app.id \notin IdsOf(e)

\* An application of Linux gets the largest icon of its name, of the first theme
\* that has one so large.
LargestIcons ==
    \A app \in Range(catalogue.listed), r \in DOMAIN IconRoots :
       catalogue.platform = "linux" /\ app.icon # NoValue /\ app.icon[1] = "theme" =>
          \A i \in IconRoots[r] :
             IconKey(i.name) = IconKey(app.icon[2].name) /\ i.format # "svg" =>
                /\ i.size <= app.icon[2].size
                /\ i.size = app.icon[2].size => \E q \in 1..r : app.icon[2] \in IconRoots[q]

\* A command runs with the words its entry was written with, those with field codes
\* left out (split_exec).
RunAsWritten ==
    \A words \in Commands : SplitExec(CommandLine(words)) = WithoutFieldCodes(words)

\* The catalogue is right once the scan is over (discover_apps, discover_root,
\* resolve_linux_icons), and a command runs with the words its entry was written
\* with, those with field codes left out (split_exec).
CatalogueIsRight ==
    /\ ~Scanning => ListedOnce /\ LargestIcons
    /\ RunAsWritten
=============================================================================
