------------------------------ MODULE TextField ------------------------------
(***************************************************************************)
(* The palette's text field (ui/search_input.rs) and the platform's input  *)
(* method that edits it from outside (EntityInputHandler).                 *)
(*                                                                         *)
(* The field keeps ranges as byte offsets into its UTF-8 text; the         *)
(* platform speaks of UTF-16 units, and may be late: the ranges it names   *)
(* and the layout a pointer is looked up in can be those of an earlier     *)
(* text.  Slicing a text off its character boundaries panics.  A character *)
(* is its width in either encoding, and a grapheme of its own.             *)
(***************************************************************************)
EXTENDS Integers, Sequences

CONSTANTS
    Chars,
    Utf8, Utf16,     \* widths of a character
    Pieces,          \* texts that are typed, composed or pasted
    Placeholder,     \* the text painted while the field is empty
    MaxText,         \* bound on the characters of the field
    MaxUnits,        \* bound on the offsets the platform names
    NoRange          \* nothing marked; no range named; no panic

ASSUME TextFieldAssumption ==
    /\ {Utf8, Utf16} \subseteq [Chars -> 1..4]
    /\ Pieces \cup {Placeholder} \subseteq Seq(Chars)
    /\ << >> \notin Pieces
    /\ {MaxText, MaxUnits} \subseteq Nat
    /\ NoRange \notin {"replace", "paint"}

VARIABLE field

\* The offsets of a text's boundaries, from the first to the last.
Offsets(w, text) ==
    LET upTo[n \in 0..Len(text)] == IF n = 0 THEN 0 ELSE upTo[n - 1] + w[text[n]]
    IN  upTo
Bytes(text) == Offsets(Utf8, text)[Len(text)]
Units(text) == Offsets(Utf16, text)[Len(text)]
Boundaries(text) == LET at == Offsets(Utf8, text) IN {at[n] : n \in DOMAIN at}
Least(S) == CHOOSE m \in S : \A n \in S : m <= n
Greatest(S) == CHOOSE m \in S : \A n \in S : m >= n

\* The characters of a text from one boundary to another.
CharsOf(text, from, to) ==
    LET at == Offsets(Utf8, text)
        inside == {n \in DOMAIN text : from <= at[n - 1] /\ at[n - 1] < to}
    IN  IF inside = {} THEN << >> ELSE SubSeq(text, Least(inside), Greatest(inside))

Sliceable(text, range) == range.start <= range.end /\ {range.start, range.end} \subseteq Boundaries(text)

TextFieldInit ==
    field = [content |-> << >>, selected |-> [start |-> 0, end |-> 0], reversed |-> FALSE,
             marked |-> NoRange, painted |-> << >>, selecting |-> FALSE,
             panic |-> NoRange]

Alive == field.panic = NoRange
Ranges16(max) == {r \in [start : 0..max, end : 0..max] : r.start <= r.end} \cup {NoRange}
Becomes(f) == Alive /\ field' = f
Panics(f, where) == [f EXCEPT !.panic = where]

(***************************************************************************)
(* Offsets.                                                                *)
(***************************************************************************)
Cursor(f) == IF f.reversed THEN f.selected.start ELSE f.selected.end
IsEmpty(range) == range.start >= range.end

MoveTo(f, at) == [f EXCEPT !.selected = [start |-> at, end |-> at], !.reversed = FALSE]

\* The ends of the selection are swapped when they pass each other.
SelectTo(f, at) ==
    LET new == IF f.reversed THEN [f.selected EXCEPT !.start = at]
               ELSE [f.selected EXCEPT !.end = at]
    IN  IF new.end < new.start
        THEN [f EXCEPT !.selected = [start |-> new.end, end |-> new.start],
                       !.reversed = ~f.reversed]
        ELSE [f EXCEPT !.selected = new]

Starts8(text) == Boundaries(text) \ {Bytes(text)}
Previous(f, at) ==
    LET before == {b \in Starts8(f.content) : b < at}
    IN  IF before = {} THEN 0 ELSE Greatest(before)
Following(f, at) ==
    LET after == {b \in Starts8(f.content) : b > at}
    IN  IF after = {} THEN Bytes(f.content) ELSE Least(after)

\* offset_from_utf16: the first character at or after the unit, or the end.
FromUtf16(text, unit) ==
    LET chars == {n \in DOMAIN text : Offsets(Utf16, text)[n - 1] >= unit}
    IN  IF chars = {} THEN Bytes(text) ELSE Offsets(Utf8, text)[Least(chars) - 1]

RangeFromUtf16(text, range) ==
    [start |-> FromUtf16(text, range.start), end |-> FromUtf16(text, range.end)]

\* offset_to_utf16 slices the text at the offset.
HasUtf16(f, range) == {range.start, range.end} \subseteq Boundaries(f.content)

(***************************************************************************)
(* Replacing text.                                                         *)
(***************************************************************************)
\* Faulty: a range is used as it was given.
Unclamped(text, at) == at
\* clamped_char_boundary.
Clamped(text, at) == Greatest({b \in Boundaries(text) : b <= at})

\* replace_text, and replace_text_in_range, for the range named, else the marked
\* one, else the selection.
Replace(f, range16, piece) ==
    LET range == IF range16 # NoRange THEN RangeFromUtf16(f.content, range16)
                 ELSE IF f.marked # NoRange THEN f.marked ELSE f.selected
        start == Clamped(f.content, range.start)
        last == Clamped(f.content, range.end)
        end == IF last < start THEN start ELSE last
        cursor == start + Bytes(piece)
    IN  IF ~Sliceable(f.content, [start |-> start, end |-> end]) THEN Panics(f, "replace")
        ELSE [f EXCEPT !.content = CharsOf(f.content, 0, start) \o piece
                                   \o CharsOf(f.content, end, Bytes(f.content)),
                       !.selected = [start |-> cursor, end |-> cursor],
                       !.marked = NoRange]

Fits(f) == Len(f.content) <= MaxText
Edits(f) == Fits(f) /\ Becomes(f)

\* replace_and_mark_text_in_range: a composition.  The selection within the new
\* text is converted by the widths of the whole content.
Marked(f, range16, piece, selection16) ==
    LET g == Replace(f, range16, piece)
        end == g.selected.end
        start == end - Bytes(piece)
        within == RangeFromUtf16(g.content, selection16)
        h == [g EXCEPT !.marked = [start |-> start, end |-> end]]
    IN  IF g.panic # NoRange \/ piece = << >> THEN g
        ELSE IF selection16 = NoRange THEN h
        ELSE [h EXCEPT !.selected = [start |-> start + within.start, end |-> start + within.end]]

(***************************************************************************)
(* The keys.                                                               *)
(***************************************************************************)
Left == Becomes(IF IsEmpty(field.selected) THEN MoveTo(field, Previous(field, Cursor(field)))
                ELSE MoveTo(field, field.selected.start))
Right == Becomes(IF IsEmpty(field.selected) THEN MoveTo(field, Following(field, Cursor(field)))
                 ELSE MoveTo(field, field.selected.end))
SelectLeft == Becomes(SelectTo(field, Previous(field, Cursor(field))))
SelectRight == Becomes(SelectTo(field, Following(field, Cursor(field))))
SelectAll == Becomes(SelectTo(MoveTo(field, 0), Bytes(field.content)))
Home == Becomes(MoveTo(field, 0))
End == Becomes(MoveTo(field, Bytes(field.content)))

\* Backspace and Delete select a character where nothing is selected.
Erase(to) ==
    IF IsEmpty(field.selected)
    THEN to # Cursor(field) /\ Edits(Replace(SelectTo(field, to), NoRange, << >>))
    ELSE Edits(Replace(field, NoRange, << >>))
Backspace == Erase(Previous(field, Cursor(field)))
Delete == Erase(Following(field, Cursor(field)))

Paste(piece) == Edits(Replace(field, NoRange, piece))

CopyText ==
    /\ ~IsEmpty(field.selected) /\ ~Sliceable(field.content, field.selected)
    /\ Becomes(Panics(field, "copy"))
CutText ==
    /\ ~IsEmpty(field.selected)
    /\ IF Sliceable(field.content, field.selected) THEN Edits(Replace(field, NoRange, << >>))
       ELSE Becomes(Panics(field, "copy"))

\* SearchInput::clear: Escape, or another surface.
Clear ==
    Becomes([field EXCEPT !.content = << >>, !.selected = [start |-> 0, end |-> 0],
                          !.reversed = FALSE, !.marked = NoRange])

(***************************************************************************)
(* The pointer and the platform.                                           *)
(***************************************************************************)
\* An index is looked up in the text that was painted last, if any.
PointedAt == IF field.painted = << >> THEN {0}
             ELSE Boundaries(field.painted) \cup {Bytes(field.content)}

MouseDown(at, shift) ==
    Becomes([(IF shift THEN SelectTo(field, at) ELSE MoveTo(field, at)) EXCEPT !.selecting = TRUE])
MouseMove(at) == field.selecting /\ Becomes(SelectTo(field, at))
MouseUp == field.selecting /\ Becomes([field EXCEPT !.selecting = FALSE])

Insert(range16, piece) == Edits(Replace(field, range16, piece))
Compose(range16, piece, selection16) == Edits(Marked(field, range16, piece, selection16))
Unmark == field.marked # NoRange /\ Becomes([field EXCEPT !.marked = NoRange])

\* The platform asks for the selection, the marked range or the character at a
\* point; the answer is in UTF-16 units.
Ask(range) == ~HasUtf16(field, range) /\ Becomes(Panics(field, "utf16"))
AskSelection == Ask(field.selected)
AskMarked == field.marked # NoRange /\ Ask(field.marked)
AskIndex(at) == Ask([start |-> at, end |-> at])

\* The text is painted in runs before, in and after the marked range.
Paint ==
    Becomes(IF field.marked # NoRange /\ field.content # << >>
                 /\ field.marked.end > Bytes(field.content)
            THEN Panics(field, "paint")
            ELSE [field EXCEPT !.painted = IF field.content = << >> THEN Placeholder
                                           ELSE field.content])

TextFieldNext ==
    \/ Left \/ Right \/ SelectLeft \/ SelectRight \/ SelectAll \/ Home \/ End
    \/ Backspace \/ Delete \/ CopyText \/ CutText \/ Clear
    \/ \E piece \in Pieces : Paste(piece)
    \/ \E at \in PointedAt :
          \/ \E shift \in BOOLEAN : MouseDown(at, shift)
          \/ MouseMove(at) \/ AskIndex(at)
    \/ MouseUp
    \/ \E range \in Ranges16(MaxUnits), piece \in Pieces \cup {<< >>} :
          \/ Insert(range, piece)
          \/ \E selection \in Ranges16(Units(piece)) : Compose(range, piece, selection)
    \/ Unmark \/ AskSelection \/ AskMarked \/ Paint

TextFieldSpec == TextFieldInit /\ [][TextFieldNext]_field

(***************************************************************************)
(* Properties.                                                             *)
(***************************************************************************)
TextFieldTypeOK ==
    /\ field.content \in Seq(Chars) /\ Fits(field)
    /\ field.selected.start \in Nat /\ field.selected.end \in Nat
    /\ field.reversed \in BOOLEAN /\ field.selecting \in BOOLEAN
    /\ field.panic \in {NoRange, "replace", "copy", "utf16", "paint"}

\* Typing and painting survive whatever range the platform, the pointer or an
\* earlier text has left behind: the selection may lie, but text is replaced at
\* character boundaries, and the marked range is always one of the text
\* (replace_text, clamped_char_boundary, prepaint).
TypingNeverPanics ==
    /\ field.panic \notin {"replace", "paint"}
    /\ field.marked # NoRange => Sliceable(field.content, field.marked)

\* "stale_platform_range_is_clamped_after_input_is_cleared" (search_input.rs:631):
\* a range that is no longer one of the text does no harm anywhere in the field.
\* A click on the placeholder of an empty field selects offsets of that text.
FieldNeverPanics == Alive
=============================================================================
