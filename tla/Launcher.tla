------------------------------ MODULE Launcher ------------------------------
(***************************************************************************)
(* The launcher's palette: the Palette of ui/shell.rs with its surfaces,   *)
(* the PaletteModel of ui/model.rs that ranks candidates and keeps the     *)
(* selection, the keyword tools of ui/mini_tools.rs, and the currency      *)
(* conversions that are answered in the background.                        *)
(*                                                                         *)
(* All of it runs on one thread, one handler at a time; what it lists is   *)
(* also changed by answers that arrive later.  A query is one text; the    *)
(* constants say what the parsers and the stores make of it.  An entry is  *)
(* its id, on which selection and actions depend.  The text field tells    *)
(* the palette of a change after the handler that made it, so entering a   *)
(* surface refreshes twice, the first time with the old query.             *)
(***************************************************************************)
EXTENDS Naturals, Sequences, SequencesExt, Functions

CONSTANTS
    Queries, Empty,    \* texts of the search field; the empty one
    Money,             \* Money[q]: the conversion q asks for, or None
    Calculated,        \* the queries the calculator or the time converter answers
    Keyword, Rest,     \* Keyword[q]: the tool q starts the keyword of, or None;
                       \* Rest[q]: the text after the keyword
    Prefixed, Fuzzy,   \* the entries whose title starts with q, and those that match
                       \* it otherwise, by their letters or a keyword
    Base,              \* the entries listed without a query
    Apps, Tools,       \* those of Base that are applications, and user tools
    Clips,             \* Clips[f]: history entries under the clipboard filter f
    EmojiOrder,        \* the emoji in the order of the catalogue
    EmojiTiers,        \* EmojiTiers[q]: the emoji q finds, best matches first
    SymbolOrder,       \* the symbols
    SymbolsFor,        \* SymbolsFor[q]: the symbols q finds
    Frequent,          \* second entries of the emoji used most
    Groups,            \* the groups, in the order of their sections
    GroupOf,           \* GroupOf[e]: group of an entry, "frequent" of a second one
    Columns,           \* EMOJI_COLUMNS
    None,              \* no conversion, no tool, no arguments
    MaxAsked           \* bound on conversions asked for at one time

Surfaces == {"launcher", "clipboard", "emoji", "currency", "nearby"}
Conversions == {Money[q] : q \in Queries} \ {None}
Filters == DOMAIN Clips
Categories == {"all"} \cup Range(Groups)
Loading == "loading"
Converted == "converted"
Answer == "answer"
Fallback == <<"web", "files">>
OpensSurface == [clipboard |-> "clipboard", nearby |-> "nearby",
                 currency |-> "currency", emoji |-> "emoji"]

HistoryEntries == UNION {Range(Clips[f]) : f \in Filters}
\* What is listed beside applications and commands; the ids of an application
\* begin with "app:", and those of the others do not.
ListedElsewhere == Range(Fallback) \cup {Loading, Converted, Answer}
                   \cup HistoryEntries
                   \cup Range(Frequent) \cup Range(EmojiOrder) \cup Range(SymbolOrder)
Entries == Range(Base) \cup ListedElsewhere

ASSUME LauncherAssumption ==
    /\ \A list \in {Base, Frequent, EmojiOrder, SymbolOrder, Groups} \cup Range(Clips) :
          list \in Seq(Range(list))
    /\ \A q \in Queries : EmojiTiers[q] \in Seq(SUBSET Range(EmojiOrder))
    /\ Empty \in Queries
    /\ Money[Empty] = None /\ Keyword[Empty] = None /\ Empty \notin Calculated
    /\ \A q \in Queries : Keyword[q] \in Tools \cup {None}
    /\ \A q \in Queries : Prefixed[q] \cap Fuzzy[q] = {}
    /\ Apps \cup Tools \subseteq Range(Base)
    /\ Apps \cap ListedElsewhere = {}
    /\ "all" \in Filters
    /\ \A e \in Range(EmojiOrder) \cup Range(SymbolOrder) : GroupOf[e] \in Range(Groups)
    /\ \A e \in Range(Frequent) : GroupOf[e] = "frequent"
    /\ IsInjective(Groups) /\ "frequent" \notin Range(Groups)
    /\ MaxAsked \in Nat \ {0} /\ Columns \in Nat \ {0}

VARIABLES
    palette,     \* the palette's own state, or None when its window is closed
    favorites,   \* the favourites, in memory and saved
    asked        \* asked[c]: answers under way for conversion c

launcherVars == <<palette, favorites, asked>>

(***************************************************************************)
(* PaletteModel.                                                           *)
(***************************************************************************)
\* The entries of a list that are in a set, in its order.  (The prover cannot open
\* the definition of SelectSeq.)
Kept(list, set) ==
    LET kept[n \in 0..Len(list)] ==
            IF n = 0 THEN << >>
            ELSE IF list[n] \in set THEN Append(kept[n - 1], list[n]) ELSE kept[n - 1]
    IN  kept[Len(list)]

\* rank_candidates.  A title that starts with the query beats whatever only
\* contains its letters, a favourite what is not one; ties are in the order of the
\* titles, in which the constants list the entries.
Ranked(favored, q, candidates) ==
    LET tier(entries) == Kept(candidates, entries \cap favored)
                         \o Kept(candidates, entries \ favored)
    IN  IF q = Empty THEN tier(Range(candidates)) ELSE tier(Prefixed[q]) \o tier(Fuzzy[q])

SelectedEntry(p) == IF p.selected \in DOMAIN p.matches THEN p.matches[p.selected] ELSE None

ActionsOf(e) ==
    CASE e \in Apps -> <<"launch", "favorite">>
      [] e \in HistoryEntries -> <<"restore", "pin", "remove">>
      [] e = Loading -> << >>
      [] OTHER -> <<"open">>

AtTop(p) == [p EXCEPT !.selected = 1, !.mode = "results", !.action = 1]

Reranked(p) == AtTop([p EXCEPT !.matches = Ranked(favorites', p.query, p.candidates)])

\* replace_entries keeps the selected entry selected where it is still listed.
Replaced(p, entries) ==
    LET new == Reranked([p EXCEPT !.candidates = entries])
        kept == {i \in DOMAIN new.matches : new.matches[i] = SelectedEntry(p)}
    IN  IF kept = {} THEN new
        ELSE [new EXCEPT !.selected = CHOOSE i \in kept : \A j \in kept : i <= j]

\* Faulty: the selection is left where it was.
OrderedKeepingSelection(p, entries) ==
    [p EXCEPT !.candidates = entries, !.matches = entries]
ReplacedOrdered(p, entries) ==
    AtTop([p EXCEPT !.candidates = entries, !.matches = entries])

\* Faulty: rows are counted from zero.
MovedFromZero(at, delta, length) == IF length = 0 THEN at ELSE (at + delta) % length
\* move_selection: past the first row to the last, past the last around.
Moved(at, delta, length) ==
    IF length = 0 THEN at
    ELSE IF at + delta < 1 THEN length
    ELSE ((at + delta - 1) % length) + 1

(***************************************************************************)
(* refresh_results: what the palette lists.                                *)
(***************************************************************************)
\* Faulty: the conversion stays on record without its answer.
AnswerForgotten(p) == [p EXCEPT !.answer = "none"]
NoCurrency(p) == [p EXCEPT !.conversion = None, !.answer = "none"]

\* An answer is a value or an error; an error is a notice and no entry.
CurrencyEntries(p) ==
    (CASE p.answer = "value" -> <<Converted>>
       [] p.answer = "none" /\ p.conversion # None -> <<Loading>>
       [] OTHER -> << >>)
    \o (IF p.query = Empty THEN << >> ELSE Fallback)
ShowCurrency(p) == ReplacedOrdered(p, CurrencyEntries(p))

\* An answer that is shown or under way is not asked for again.
Asks(p) == Money[p.query] # None /\ p.conversion # Money[p.query]
RefreshedCurrency(p) ==
    IF Money[p.query] = None THEN Replaced(NoCurrency(p), << >>)
    ELSE IF Asks(p) THEN ShowCurrency([p EXCEPT !.conversion = Money[p.query],
                                                !.answer = "none"])
    ELSE ShowCurrency(p)

\* A leading keyword brings up its tool, with the text that follows.
WithKeyword(p) ==
    IF Keyword[p.query] = None THEN p
    ELSE [p EXCEPT !.arguments[Keyword[p.query]] = Rest[p.query]]
KeywordEntry(q) == IF Keyword[q] = None THEN << >> ELSE <<Keyword[q]>>

RefreshedLauncher(p) ==
    LET cleared == WithKeyword(NoCurrency(p))
        listed == Replaced(cleared, Base \o KeywordEntry(p.query))
    IN  IF p.query \in Calculated THEN ReplacedOrdered(cleared, <<Answer>> \o Fallback)
        ELSE IF p.query # Empty /\ listed.matches = << >>
             THEN ReplacedOrdered(listed, Fallback)
        ELSE listed

ListsCurrency(p) ==
    p.surface = "currency" \/ (p.surface = "launcher" /\ Money[p.query] # None)

(***************************************************************************)
(* The emoji picker, a grid of rows of entries under headers.              *)
(***************************************************************************)
\* emoji_entries: all of the catalogue, in its order, for no query.
EmojiEntries(q) ==
    (IF q = Empty THEN Frequent ELSE << >>)
    \o FlattenSeq([tier \in DOMAIN EmojiTiers[q] |->
                      Kept(EmojiOrder, EmojiTiers[q][tier])])
    \o Kept(SymbolOrder, SymbolsFor[q])

\* A category shows its own emoji, once each.
InCategory(category, entries) ==
    IF category = "all" THEN entries
    ELSE Kept(entries, {e \in Range(entries) : GroupOf[e] = category})

\* Rows of Columns places, the last one of what is left.
Chunks(indices) ==
    [row \in 1..(Len(indices) + Columns - 1) \div Columns |->
        SubSeq(indices, (row - 1) * Columns + 1,
               IF row * Columns <= Len(indices) THEN row * Columns ELSE Len(indices))]

Places(entries) == [i \in DOMAIN entries |-> i]
Section(name, entries) ==
    Kept(Places(entries), {i \in DOMAIN entries : GroupOf[entries[i]] = name})

\* build_emoji_rows: rows of places in the list, a header being an empty row.
WithHeader(indices) == IF indices = << >> THEN << >> ELSE <<<< >>>> \o Chunks(indices)
EmojiRows(entries, q) ==
    IF q # Empty THEN WithHeader(Places(entries))
    ELSE FlattenSeq([n \in 1..Len(Groups) + 1 |->
                        WithHeader(Section((<<"frequent">> \o Groups)[n], entries))])

RebuiltRows(p) == [p EXCEPT !.rows = EmojiRows(p.matches, p.query)]

\* The row a moved selection is scrolled to.
RowOf(p) == {row \in DOMAIN p.rows : p.selected \in Range(p.rows[row])}

Refreshed(p) ==
    CASE ListsCurrency(p) -> RefreshedCurrency(p)
      [] p.surface = "launcher" /\ Money[p.query] = None -> RefreshedLauncher(p)
      [] p.surface = "nearby" -> Replaced(p, << >>)
      [] p.surface = "clipboard" -> Replaced(p, Clips[p.filter])
      [] p.surface = "emoji" ->
            RebuiltRows(ReplacedOrdered(p, InCategory(p.category, EmojiEntries(p.query))))

\* A refresh starts a conversion in the background where it needs one.
Starts(p) == [c \in Conversions |->
                 IF ListsCurrency(p) /\ Asks(p) /\ c = Money[p.query] THEN 1 ELSE 0]
MayAsk == FoldFunction(+, 0, asked) < MaxAsked

Become(p) ==
    /\ ListsCurrency(p) /\ Asks(p) => MayAsk
    /\ palette' = Refreshed(p)
    /\ asked' = [c \in Conversions |-> asked[c] + Starts(p)[c]]

Opening == Reranked([surface |-> "launcher", query |-> Empty, filter |-> "all",
                     category |-> "all", popup |-> FALSE, candidates |-> Base,
                     matches |-> << >>, selected |-> 1, mode |-> "results", action |-> 1,
                     conversion |-> None, answer |-> "none", rows |-> << >>,
                     arguments |-> [t \in Tools |-> None]])

LauncherInit ==
    /\ favorites = {}
    /\ palette = None
    /\ asked = [c \in Conversions |-> 0]

\* The launcher is started; its base entries carry the saved preferences.
Open ==
    /\ palette = None
    /\ UNCHANGED <<favorites, asked>>
    /\ palette' = Opening

\* The window goes, and with it the process and what it was waiting for.
Closes ==
    /\ palette' = None
    /\ asked' = [c \in Conversions |-> 0]

(***************************************************************************)
(* Input.                                                                  *)
(***************************************************************************)
IsOpen == palette # None

\* A query reranks what is listed, which may move the selection, and then
\* replaces it.
WithQuery(p, q) == Reranked([p EXCEPT !.query = q])

Type(q) ==
    /\ IsOpen
    /\ q # palette.query
    /\ UNCHANGED favorites
    /\ Become(WithQuery(palette, q))

\* enter_surface, and the event of the field it resets.
Enter(surface) ==
    LET first == [palette EXCEPT !.surface = surface, !.popup = FALSE]
        second == WithQuery(Refreshed(first), Empty)
    IN  /\ ListsCurrency(first) /\ Asks(first) => MayAsk
        /\ palette' = Refreshed(second)
        /\ asked' = [c \in Conversions |-> asked[c] + Starts(first)[c]]

Back ==
    /\ IsOpen /\ palette.surface \in {"clipboard", "emoji", "nearby"}
    /\ UNCHANGED favorites
    /\ Enter("launcher")

\* The popups with the clipboard's kinds and the emoji categories.
TogglePopup ==
    /\ IsOpen /\ palette.surface \in {"clipboard", "emoji"}
    /\ palette' = [palette EXCEPT !.popup = ~@]
    /\ UNCHANGED <<favorites, asked>>

ChooseFilter(filter) ==
    /\ IsOpen /\ palette.surface = "clipboard" /\ palette.popup
    /\ UNCHANGED favorites
    /\ \E popup \in BOOLEAN :     \* the arrow keys leave it open
          Become([palette EXCEPT !.filter = filter, !.popup = popup])

ChooseCategory(category) ==
    /\ IsOpen /\ palette.surface = "emoji" /\ palette.popup
    /\ UNCHANGED favorites
    /\ Become([palette EXCEPT !.category = category, !.popup = FALSE])

\* Keys go to the popup of the clipboard surface while it is open.
KeysReachList == IsOpen /\ ~(palette.surface = "clipboard" /\ palette.popup)

Rows(p) == IF p.mode = "results" THEN Len(p.matches) ELSE Len(ActionsOf(SelectedEntry(p)))

MoveSelection(down) ==
    /\ KeysReachList
    /\ palette' =
         LET step == IF palette.surface = "emoji" /\ palette.mode = "results" THEN Columns ELSE 1
             to(at) == IF down THEN Moved(at, step, Rows(palette))
                       ELSE IF Rows(palette) = 0 THEN at
                       ELSE IF at <= step THEN Rows(palette) ELSE at - step
         IN  IF palette.mode = "results" THEN [palette EXCEPT !.selected = to(@)]
             ELSE [palette EXCEPT !.action = to(@)]
    /\ UNCHANGED <<favorites, asked>>

Click(row) ==
    /\ IsOpen
    /\ row \in 1..Rows(palette)
    /\ palette' = IF palette.mode = "results" THEN [palette EXCEPT !.selected = row]
                  ELSE [palette EXCEPT !.action = row]
    /\ UNCHANGED <<favorites, asked>>

OpenActions ==
    /\ KeysReachList
    /\ SelectedEntry(palette) # None /\ ActionsOf(SelectedEntry(palette)) # << >>
    /\ palette' = [palette EXCEPT !.mode = "actions", !.action = 1]
    /\ UNCHANGED <<favorites, asked>>

\* Escape closes the actions, clears the query, leaves the surface and closes
\* the window, in this order.
LeavesSurface(p) == p.query = Empty /\ p.surface # "launcher"

Escape ==
    /\ KeysReachList
    /\ IF palette.mode = "actions"
       THEN /\ palette' = [palette EXCEPT !.mode = "results", !.action = 1]
            /\ UNCHANGED <<favorites, asked>>
       ELSE /\ UNCHANGED favorites
            /\ IF LeavesSurface(palette) THEN Enter("launcher")
               ELSE IF palette.query # Empty THEN Become(WithQuery(palette, Empty))
               ELSE Closes

(***************************************************************************)
(* Actions of the selected entry (invoke).                                 *)
(***************************************************************************)
Invoked ==
    LET actions == ActionsOf(SelectedEntry(palette))
        at == IF palette.mode = "results" THEN 1 ELSE palette.action
    IN  IF SelectedEntry(palette) # None /\ at \in DOMAIN actions THEN actions[at] ELSE None

\* By Enter, which on the Nearby surface starts a pairing instead, or by a double
\* click, which an open popup does not keep away.
CanInvoke == IsOpen /\ palette.surface # "nearby" /\ Invoked # None

OpenSurface ==
    /\ CanInvoke
    /\ SelectedEntry(palette) \in DOMAIN OpensSurface
    /\ UNCHANGED favorites
    /\ Enter(OpensSurface[SelectedEntry(palette)])

\* A favourite is kept in both lists and in the file.
ToggleFavorite ==
    /\ CanInvoke /\ Invoked = "favorite"
    /\ favorites' = IF SelectedEntry(palette) \in favorites
                    THEN favorites \ {SelectedEntry(palette)}
                    ELSE favorites \cup {SelectedEntry(palette)}
    /\ palette' = Reranked(palette)
    /\ UNCHANGED asked

\* Restoring, launching, opening a file, a link or a command closes the window
\* when it succeeds; copying leaves it open.
Leave ==
    /\ CanInvoke
    /\ SelectedEntry(palette) \notin DOMAIN OpensSurface \cup {Answer, Converted}
    /\ Invoked \in {"launch", "restore", "open"}
    /\ Closes
    /\ UNCHANGED favorites

\* Pinning or removing a history entry lists the history again.
ChangeHistory ==
    /\ CanInvoke /\ Invoked \in {"pin", "remove"}
    /\ UNCHANGED favorites
    /\ Become(palette)

(***************************************************************************)
(* Answers.                                                                *)
(***************************************************************************)
\* Faulty: whatever answer comes is shown.
AnyAnswer(p, c) == TRUE
\* An answer counts if its conversion is still the one asked for.
Wanted(p, c) == p.conversion = c

CurrencyAnswer(c) ==
    /\ IsOpen /\ asked[c] > 0
    /\ asked' = [asked EXCEPT ![c] = @ - 1]
    /\ UNCHANGED favorites
    /\ \E answer \in {"value", "error"} :
          palette' = IF Wanted(palette, c)
                     THEN ShowCurrency([palette EXCEPT !.conversion = c, !.answer = answer])
                     ELSE palette

LauncherNext ==
    \/ Open
    \/ \E q \in Queries : Type(q)
    \/ Back
    \/ TogglePopup
    \/ \E f \in Filters : ChooseFilter(f)
    \/ \E c \in Categories : ChooseCategory(c)
    \/ \E down \in BOOLEAN : MoveSelection(down)
    \/ IsOpen /\ \E row \in 1..Rows(palette) : Click(row)
    \/ OpenActions \/ Escape
    \/ OpenSurface \/ ToggleFavorite \/ Leave \/ ChangeHistory
    \/ \E c \in Conversions : CurrencyAnswer(c)

\* A conversion ends: fetching a rate has a timeout of eight seconds.
LauncherFairness == \A c \in Conversions : WF_launcherVars(CurrencyAnswer(c))

LauncherSpec == LauncherInit /\ [][LauncherNext]_launcherVars /\ LauncherFairness

(***************************************************************************)
(* Properties.                                                             *)
(***************************************************************************)
LauncherTypeOK ==
    /\ favorites \subseteq Apps
    /\ asked \in [Conversions -> Nat]
    /\ palette = None \/
          /\ palette.surface \in Surfaces /\ palette.query \in Queries
          /\ palette.filter \in Filters /\ palette.category \in Categories
          /\ palette.mode \in {"results", "actions"} /\ palette.popup \in BOOLEAN
          /\ Range(palette.candidates) \cup Range(palette.matches) \subseteq Entries
          /\ palette.selected \in Nat \ {0} /\ palette.action \in Nat \ {0}
          /\ palette.conversion \in Conversions \cup {None}
          /\ palette.answer \in {"none", "value", "error"}
          /\ UNION {Range(palette.rows[r]) : r \in DOMAIN palette.rows} \subseteq Nat

\* The row that is highlighted exists whenever there is one to highlight, and so
\* does the action, whatever list an answer or a refresh has put in place of the
\* one the keys were moving in; and the emoji grid, which is built apart from the
\* list and only by a refresh, shows what is selected in exactly one of its rows
\* (PaletteModel::move_selection, replace_entries, build_emoji_rows,
\* reveal_selected_emoji).
SelectionInRange ==
    palette # None =>
       /\ palette.matches # << >> => palette.selected \in DOMAIN palette.matches
       /\ palette.mode = "actions" =>
             palette.action \in DOMAIN ActionsOf(SelectedEntry(palette))
       /\ palette.surface = "emoji" /\ palette.matches # << >> =>
             \E row \in DOMAIN palette.rows : RowOf(palette) = {row}

\* What is listed is always what a new refresh would list: no late answer, for
\* a query that has changed or a surface that was left, and no favourite puts
\* the list of something else on the screen (refresh_results, show_currency_result).
ShownIsCurrent ==
    [][palette' # None => Refreshed(palette').matches = palette'.matches]_launcherVars

\* A conversion shown as loading is answered, or the user has moved on: giving
\* up on a conversion and asking for it again does not leave it loading.
Waiting(c) == palette # None /\ palette.conversion = c /\ palette.answer = "none"
LoadingEnds == \A c \in Conversions : Waiting(c) ~> ~Waiting(c)
=============================================================================
