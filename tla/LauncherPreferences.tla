------------------------- MODULE LauncherPreferences -------------------------
(***************************************************************************)
(* launcher.json, the aliases, favourites and invocation counts of the     *)
(* launcher (core/preferences.rs), between the palette, which reads it     *)
(* once and saves all it has in memory after every change, and runs of     *)
(* `superspace launcher`, which read, change and save it.                  *)
(*                                                                         *)
(* A save opens launcher.json.tmp, which truncates it, writes it and       *)
(* renames it.  The name of the temporary file is the same for every       *)
(* process and nothing is locked: two saves may have one file open, and an *)
(* open file follows a rename.  Preferences are a function from items to   *)
(* what is kept of an item.                                                *)
(***************************************************************************)
EXTENDS Naturals

CONSTANTS
    Items, Aliases,
    Writers,          \* the palette and the runs of the command
    PaletteProcess,   \* the one of them that reads once
    NoAlias,
    NoPreferences,    \* no file; nothing in memory
    NoBytes, Torn,    \* a file of no bytes; one that is not valid JSON
    MaxFrequency,     \* u32::MAX, where the count stays
    MaxChanges        \* bound on changes, crashes and failed writes

ASSUME PreferencesAssumption ==
    /\ PaletteProcess \in Writers
    /\ NoAlias \notin Aliases
    /\ {MaxFrequency, MaxChanges} \subseteq Nat

VARIABLES
    file,        \* launcher.json
    temporary,   \* launcher.json.tmp
    memory,      \* memory[w]: the preferences process w has read and changed
    saving,      \* saving[w]: how far the save of w is, and the file it has open
    changes,     \* what has been used of the bound
    alone,       \* history: the saves under way that no other has met
    crossed      \* history: saves have met since one was alone to its end

preferenceVars == <<file, temporary, memory, saving, changes, alone, crossed>>

Default == [alias |-> NoAlias, favorite |-> FALSE, frequency |-> 0]
Defaults == [item \in Items |-> Default]
Preference == [alias : Aliases \cup {NoAlias}, favorite : BOOLEAN, frequency : 0..MaxFrequency]
Preferences == [Items -> Preference]
Malformed == {NoBytes, Torn}
NotSaving == [phase |-> "no", open |-> "none"]

ASSUME FileAssumption ==
    /\ (Malformed \cup {NoPreferences}) \cap Preferences = {}
    /\ NoPreferences \notin Malformed /\ NoBytes # Torn

PreferencesInit ==
    /\ file = NoPreferences
    /\ temporary = NoPreferences
    /\ memory = [w \in Writers |-> NoPreferences]
    /\ saving = [w \in Writers |-> NotSaving]
    /\ changes = 0
    /\ alone = {}
    /\ crossed = FALSE

Change == changes < MaxChanges /\ changes' = changes + 1

\* A missing file is the defaults.  A malformed one ends the command, and is the
\* defaults to the palette, whose next save replaces it.
Load(w) ==
    /\ memory[w] = NoPreferences
    /\ file \in Malformed => w = PaletteProcess
    /\ memory' = [memory EXCEPT ![w] =
                     IF file \in Malformed \cup {NoPreferences} THEN Defaults ELSE file]
    /\ UNCHANGED <<file, temporary, saving, changes, alone, crossed>>

StartSaving(w, preferences) ==
    /\ memory[w] # NoPreferences
    /\ saving[w].phase = "no"
    /\ Change
    /\ memory' = [memory EXCEPT ![w] = preferences]
    /\ saving' = [saving EXCEPT ![w].phase = "open"]
    /\ UNCHANGED <<file, temporary, alone, crossed>>

SetAlias(w, item, alias) ==
    w # PaletteProcess /\ StartSaving(w, [memory[w] EXCEPT ![item].alias = alias])
ToggleFavoriteOf(w, item) ==
    StartSaving(w, [memory[w] EXCEPT ![item].favorite = ~@])
RecordInvocation(w, item) ==
    /\ w = PaletteProcess
    /\ StartSaving(w, [memory[w] EXCEPT ![item].frequency =
                          IF @ = MaxFrequency THEN @ ELSE @ + 1])

(***************************************************************************)
(* One save.                                                               *)
(***************************************************************************)
UnderWay(w) == saving[w].phase \in {"write", "rename", "remove"}

\* The save of w ends, and the command with it.
Done(w) == [memory EXCEPT ![w] = IF w = PaletteProcess THEN @ ELSE NoPreferences]

\* Faulty: what an earlier save has left is not cut off.
Continued(content) == IF content = NoPreferences THEN NoBytes ELSE content
Truncated(content) == NoBytes

\* fs::write creates the temporary file, or truncates the one that is there.
OpenTemporary(w) ==
    LET met == {other \in Writers : UnderWay(other)}
    IN  /\ saving[w].phase = "open"
        /\ temporary' = Truncated(temporary)
        /\ saving' = [saving EXCEPT ![w] = [phase |-> "write", open |-> "temporary"]]
        /\ alone' = IF met = {} THEN alone \cup {w} ELSE alone \ met
        /\ crossed' = (crossed \/ met # {})
        /\ UNCHANGED <<file, memory, changes>>

\* The file that w has open gets this content, under the name it now has.
Store(w, content) ==
    /\ temporary' = IF saving[w].open = "temporary" THEN content ELSE temporary
    /\ file' = IF saving[w].open = "file" THEN content ELSE file
Opened(w) ==
    CASE saving[w].open = "temporary" -> temporary
      [] saving[w].open = "file" -> file
      [] OTHER -> NoBytes

\* Written over what another save wrote to the same file, the end of that may stay.
WriteAll(w) ==
    /\ saving[w].phase = "write"
    /\ \/ Store(w, memory[w])
       \/ Opened(w) \notin {NoBytes, memory[w]} /\ Store(w, Torn)
    /\ saving' = [saving EXCEPT ![w] = [phase |-> "rename", open |-> "none"]]
    /\ UNCHANGED <<memory, changes, alone, crossed>>

\* The saves after w's, when the file they may have open changes its name.
HandlesAfter(w, from, to) == [other \in Writers |->
    IF other = w THEN NotSaving
    ELSE [saving[other] EXCEPT !.open = IF @ = from THEN to ELSE IF @ = to THEN "unlinked" ELSE @]]

RenameIntoPlace(w) ==
    /\ saving[w].phase = "rename"
    /\ temporary # NoPreferences
    /\ file' = temporary
    /\ temporary' = NoPreferences
    /\ saving' = HandlesAfter(w, "temporary", "file")
    /\ memory' = Done(w)
    /\ alone' = alone \ {w}
    /\ crossed' = (crossed /\ w \notin alone)
    /\ UNCHANGED changes

\* Another save has renamed the file: an error, after which the temporary file,
\* which may be a third one's, is removed.
RenameFails(w) ==
    /\ saving[w].phase = "rename"
    /\ temporary = NoPreferences
    /\ saving' = [saving EXCEPT ![w].phase = "remove"]
    /\ UNCHANGED <<file, temporary, memory, changes, alone, crossed>>
RemoveTemporary(w) ==
    /\ saving[w].phase = "remove"
    /\ temporary' = NoPreferences
    /\ saving' = HandlesAfter(w, "temporary", "unlinked")
    /\ memory' = Done(w)
    /\ alone' = alone \ {w}
    /\ UNCHANGED <<file, changes, crossed>>

\* A process ends between two steps, or opening or writing the file fails, which
\* the palette outlives with its changes in memory.  Part of a write may be done.
CutOff(w) ==
    /\ memory[w] # NoPreferences
    /\ Change
    /\ \/ memory' = [memory EXCEPT ![w] = NoPreferences]
       \/ saving[w].phase \in {"open", "write"} /\ memory' = Done(w)
    /\ saving' = [saving EXCEPT ![w] = NotSaving]
    /\ \/ UNCHANGED <<file, temporary>>
       \/ saving[w].phase = "write" /\ Store(w, Torn)
    /\ alone' = alone \ {w}
    /\ UNCHANGED crossed

PreferencesNext ==
    \E w \in Writers :
       \/ Load(w) \/ OpenTemporary(w) \/ WriteAll(w) \/ RenameIntoPlace(w)
       \/ RenameFails(w) \/ RemoveTemporary(w) \/ CutOff(w)
       \/ \E item \in Items :
             \/ \E alias \in Aliases \cup {NoAlias} : SetAlias(w, item, alias)
             \/ ToggleFavoriteOf(w, item)
             \/ RecordInvocation(w, item)

PreferencesSpec == PreferencesInit /\ [][PreferencesNext]_preferenceVars

(***************************************************************************)
(* Properties.                                                             *)
(***************************************************************************)
PreferencesTypeOK ==
    /\ {file, temporary} \subseteq Preferences \cup Malformed \cup {NoPreferences}
    /\ memory \in [Writers -> Preferences \cup {NoPreferences}]
    /\ saving \in [Writers -> [phase : {"no", "open", "write", "rename", "remove"},
                               open : {"none", "temporary", "file", "unlinked"}]]
    /\ changes \in 0..MaxChanges
    /\ alone \subseteq Writers /\ crossed \in BOOLEAN

\* "Atomically persist preferences" (preferences.rs:57), of a writer alone: as long
\* as no two saves have met, a reader never finds half a file, wherever saves were
\* cut off and whatever they have left behind; and after saves that met, one that
\* nobody meets makes the file whole again.
PreferencesAreWhole == ~crossed => file \notin Malformed

\* "Atomically persist preferences next to the destination file" (preferences.rs:57),
\* of every save: a reader never finds half a file.
PersistsAtomically == file \notin Malformed
=============================================================================
