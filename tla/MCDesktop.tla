------------------------------ MODULE MCDesktop ------------------------------
(***************************************************************************)
(* The components of one device, for one run of the model checker.  In     *)
(* these models they share no state, so each behaviour is one component's, *)
(* named by focus: states add up instead of multiplying.                   *)
(***************************************************************************)
EXTENDS FileIndex, ClipboardHistory, Launcher, ExtensionRegistry, TextField,
        LauncherPreferences, UserTools, NearbyPanel, BlobFetch, Discovery,
        StreamDecoder, Calculator, AppCatalogue, RateCache, ClipboardContent, TLC

VARIABLE focus

desktopVars == <<focus, fileVars, historyVars, launcherVars, registryVars, field,
                 preferenceVars, toolVars, panelVars, blobVars, discoveryVars,
                 streamVars, calculatorVars, catalogue, exchange, content>>

CONSTANTS home, docs    \* a scope inside another
CONSTANTS note, draft   \* files

MCWithin == home :> {note, draft} @@ docs :> {draft}
MCVersionOf == "first" :> "1.0" @@ "other" :> "1.0" @@ "next" :> "2.0"

(* A letter, and an emoji of four bytes and two units. *)
MCUtf8 == "a" :> 1 @@ "smile" :> 4
MCUtf16 == "a" :> 1 @@ "smile" :> 2
MCPieces == {<<"a">>, <<"smile">>}
MCPlaceholder == <<"a">>

MCMoney == [q \in Queries |-> CASE q = "5 eur" -> "eur" [] q = "5.0 eur" -> "eur"
                                [] q = "7 usd" -> "usd" [] OTHER -> None]
(* A keyword without arguments, which no property tells apart. *)
MCKeyword == [q \in Queries |-> IF q = "gh" THEN "tool" ELSE None]
MCRest == [q \in Queries |-> None]
MCBase == <<"clipboard", "currency", "editor", "emoji", "nearby", "tool">>
MCPrefixed == [q \in Queries |-> IF q = "e" THEN {"editor", "c2"} ELSE {}]
MCFuzzy == [q \in Queries |-> CASE q = "e" -> {"clipboard", "currency", "c1", "e2"}
                                [] q = "gh" -> {"tool"}
                                [] OTHER -> {}]
MCClips == "all" :> <<"c1", "c2">> @@ "text" :> <<"c1">>
MCEmojiOrder == <<"e1", "e2">>
MCSymbolOrder == <<"s1">>
MCFrequent == <<"f1">>
MCGroups == <<"faces", "symbols">>
MCEmojiTiers == [q \in Queries |-> CASE q = "" -> <<{"e1", "e2"}>>
                                      [] q = "e" -> <<{"e2"}, {"e1"}>>
                                      [] OTHER -> << >>]
MCSymbolsFor == [q \in Queries |-> IF q \in {"", "e"} THEN {"s1"} ELSE {}]
MCGroupOf == "f1" :> "frequent" @@ "e1" :> "faces" @@ "e2" :> "symbols" @@ "s1" :> "symbols"

\* A text in two events, an answer that fails, and one that is malformed.
MCStreams ==
    {<<"data:", " ", "{", "}", "\r", "\n", "\n", "data:", "{", "}", "\n", "data:", "[DONE]", "\n">>,
     <<"data:", "{", "}", "\n", "data:", "{type}", "\n", "data:", "{error}", "\n", "data:", "{">>,
     <<" ", "\n", "data:", "{", "\n", "}", "\n">>}

(* Desktop entries: an application, one with an action and a terminal, a hidden *)
(* one, and one that is written only in part; and bundles of macOS.            *)
DesktopHeader == <<"[]", "Desktop Entry">>
AppType == <<"Type", "Application">>
MCDrawCommand == <<<<"d">>, <<"a", " ", "b">>, <<"%", "U">>>>
MCViewCommand == <<<<"v">>, <<"a", "\"", "\\">>>>
MCDraw == <<DesktopHeader, AppType, <<"Name", "Draw">>, <<"Icon", <<"draw">>>>, <<"Exec", CommandLine(MCDrawCommand)>>>>
MCView == <<DesktopHeader, AppType, <<"Name", "View">>, <<"Icon", <<"org", "view">>>>, <<"Terminal", "true">>,
          <<"Exec", CommandLine(MCViewCommand)>>,
          <<"[]", "Desktop Action new">>, <<"Name", "New">>, <<"Exec", CommandLine(MCDrawCommand)>>>>
MCHid == MCDraw \o <<<<"NoDisplay", "true">>>>
MCCut == <<DesktopHeader, AppType, <<"Name", "View">>, <<"Exec", <<"\"", "v">>>>>>
MCCommands == {MCDrawCommand, MCViewCommand}
MCBundle == [identifier |-> "org.draw", name |-> "Draw", icon |-> <<"draw", "">>,
           resources |-> {<<"draw", "icns">>, <<"other", "icns">>}]
MCPlain == [identifier |-> NoValue, name |-> NoValue, icon |-> NoValue,
          resources |-> {<<"draw", "icns">>, <<"other", "icns">>}]
MCContents == [linux |-> {MCDraw, MCView, MCHid, MCCut}, macos |-> {MCBundle, MCPlain}]
MCFileNames == [linux |-> {"d.desktop", "v.desktop"}, macos |-> {"D.app", "V.app"}]
MCTwo(f, g, a, b) == f :> a @@ g :> b
MCInstalled ==
  [linux |-> {<<MCTwo("d.desktop", "v.desktop", a, b), MCTwo("d.desktop", "v.desktop", MCDraw, c)>> :
                a \in {NoEntry, MCView, MCHid, Unreadable}, b \in {NoEntry, MCCut}, c \in {NoEntry, MCView}},
   macos |-> {<<MCTwo("D.app", "V.app", a, b), MCTwo("D.app", "V.app", c, NoEntry)>> :
                a \in {MCBundle, Unreadable}, b \in {NoEntry, MCBundle, MCPlain}, c \in {NoEntry, MCBundle}}]
MCStemOf == "D.app" :> "D" @@ "V.app" :> "V"
MCRank == "D" :> 1 @@ "Draw" :> 2 @@ "V" :> 3 @@ "View" :> 4 @@ "d.desktop" :> 5 @@ "org.draw" :> 6 @@ "v.desktop" :> 7
MCIcon(n, s, f) == [name |-> n, size |-> s, format |-> f]
MCIconRoots == <<{MCIcon(<<"draw">>, 48, "png"), MCIcon(<<"org", "view">>, 32, "png")},
                 {MCIcon(<<"draw">>, 48, "png"), MCIcon(<<"org", "view">>, 64, "png"), MCIcon(<<"draw">>, 512, "svg")}>>

(* Values that differ in how their bytes are divided among their fields. *)
MCStrings == {<<1>>, <<2>>, <<2, 1>>, <<1, 1>>, <<1, 2, 1>>}
MCTextOf(s) == [kind |-> "text", fields |-> <<s>>]
MCImageOf(w, h, p) == [kind |-> "image", fields |-> <<<<w, h>>, p>>]
MCNativeValues ==
    {MCTextOf(s) : s \in MCStrings \cup {<< >>}}
    \cup {MCImageOf(1, 1, <<0>>), MCImageOf(2, 1, <<0, 1>>), MCImageOf(1, 2, <<0, 1>>),
          MCImageOf(2, 2, <<0, 0, 0, 1>>), MCImageOf(0, 1, << >>)}
    \cup {[kind |-> "files", fields |-> f] : f \in {<<<<2>>>>, <<<<2, 1>>, <<2>>>>, <<<<2, 1, 2>>>>, <<<<2, 3>>>>, <<<<2, 0>>>>}}
MCRichValues == [kind : {"html", "rtf"}, fields : MCStrings \X MCStrings]

DesktopInit ==
    /\ focus \in {"files", "history", "launcher", "registry", "field", "preferences",
                  "tools", "panel", "blobs", "discovery", "stream", "calculator",
                  "catalogue", "exchange", "content"}
    /\ FilesInit /\ (focus # "files" => \A f \in Files : files[f] = Missing)
    /\ HistoryInit /\ LauncherInit /\ RegistryInit /\ TextFieldInit
    /\ PreferencesInit /\ ToolsInit
    /\ PanelInit /\ (focus # "panel" => \A p \in PeerIds : trust[p] = Unpaired)
    /\ BlobInit /\ DiscoveryInit
    /\ StreamInit /\ (focus # "stream" => arriving.stream = CHOOSE s \in Streams : TRUE)
    /\ CalculatorInit
    /\ CatalogueInit /\ (focus # "catalogue" => catalogue = CHOOSE c \in Catalogues : TRUE)
    /\ RateInit
    /\ ContentInit /\ (focus # "content" => content.copied = CHOOSE v \in NativeValues : TRUE)

DesktopNext ==
    /\ UNCHANGED focus
    /\ IF focus = "files" THEN FilesNext ELSE UNCHANGED fileVars
    /\ IF focus = "history" THEN HistoryNext ELSE UNCHANGED historyVars
    /\ IF focus = "launcher" THEN LauncherNext ELSE UNCHANGED launcherVars
    /\ IF focus = "registry" THEN RegistryNext ELSE UNCHANGED registryVars
    /\ IF focus = "field" THEN TextFieldNext ELSE UNCHANGED field
    /\ IF focus = "preferences" THEN PreferencesNext ELSE UNCHANGED preferenceVars
    /\ IF focus = "tools" THEN ToolsNext ELSE UNCHANGED toolVars
    /\ IF focus = "panel" THEN PanelNext ELSE UNCHANGED panelVars
    /\ IF focus = "blobs" THEN BlobNext ELSE UNCHANGED blobVars
    /\ IF focus = "discovery" THEN DiscoveryNext ELSE UNCHANGED discoveryVars
    /\ IF focus = "stream" THEN StreamNext ELSE UNCHANGED streamVars
    /\ IF focus = "calculator" THEN CalculatorNext ELSE UNCHANGED calculatorVars
    /\ IF focus = "catalogue" THEN CatalogueNext ELSE UNCHANGED catalogue
    /\ IF focus = "exchange" THEN RateNext ELSE UNCHANGED exchange
    /\ IF focus = "content" THEN ContentNext ELSE UNCHANGED content

(* The fairness of each component, for the behaviours that are its own. *)
DesktopFairness ==
    /\ \A c \in Capturers : WF_historyVars(focus = "history" /\ Progress(c))
    /\ \A l \in Launchers : WF_historyVars(focus = "history" /\ Ensure(l))
    /\ \A c \in Conversions : WF_launcherVars(focus = "launcher" /\ CurrencyAnswer(c))
    /\ \A n \in Runs :
          /\ WF_panelVars(focus = "panel" /\ PairingFailed(n))
          /\ WF_panelVars(focus = "panel" /\ ReceiveDecision(n))
          /\ WF_panelVars(focus = "panel" /\ FinishThread(n))
          /\ WF_panelVars(focus = "panel" /\ DrainEvents(n))
    /\ WF_panelVars(focus = "panel" /\ \E approved \in BOOLEAN : Decide(approved))
    /\ \A f \in Fetchers : WF_blobVars(focus = "blobs" /\ FetchGoesOn(f))
    /\ \A d \in Around : WF_discoveryVars(focus = "discovery" /\ BeaconArrives(d))
    /\ WF_discoveryVars(focus = "discovery" /\ PollDiscovery)

DesktopSpec == DesktopInit /\ [][DesktopNext]_desktopVars /\ DesktopFairness

(* Liveness of each component, of the behaviours that are its own.  (TLC then  *)
(* follows each property in those alone.)                                     *)
FocusedLaunchBringsWatcher == focus = "history" => LaunchBringsWatcher
FocusedLoadingEnds == focus = "launcher" => LoadingEnds
FocusedPairingEnds == focus = "panel" => PairingEnds
FocusedBlobArrives == focus = "blobs" => BlobArrives
FocusedPresentIsListed == focus = "discovery" => PresentIsListed

DesktopTypeOK ==
    /\ FilesTypeOK /\ HistoryTypeOK /\ LauncherTypeOK /\ RegistryTypeOK
    /\ TextFieldTypeOK /\ PreferencesTypeOK /\ ToolsTypeOK /\ PanelTypeOK
    /\ BlobTypeOK /\ DiscoveryTypeOK /\ StreamTypeOK /\ CatalogueTypeOK /\ RateTypeOK
    /\ ContentTypeOK
=============================================================================
