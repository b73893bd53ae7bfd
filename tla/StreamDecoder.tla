---------------------------- MODULE StreamDecoder ----------------------------
(***************************************************************************)
(* The decoder of a model's streamed answer in ai/src/stream.rs.  The      *)
(* transport cuts the stream where it likes; the decoder keeps what        *)
(* follows the last line break until the rest of its line arrives.         *)
(*                                                                         *)
(* A symbol is a character or an undivided piece of one line: the prefix   *)
(* of a server-sent event, the two halves of a JSON object with text, an   *)
(* object without, an error object, the mark of the end.  The three        *)
(* protocols of server-sent events read alike; Ollama's lines have no      *)
(* prefix.                                                                 *)
(***************************************************************************)
EXTENDS Naturals, Sequences, SequencesExt

CONSTANT Streams    \* what a provider may send

DataPrefix == "data:"
LineBreak == "\n"
CarriageReturn == "\r"
Blank == " "
Half1 == "{"
Half2 == "}"
OtherObject == "{type}"
ErrorObject == "{error}"
DoneMark == "[DONE]"

Symbols == {DataPrefix, LineBreak, CarriageReturn, Blank, Half1, Half2, OtherObject,
            ErrorObject, DoneMark}

ASSUME StreamAssumption == Streams \subseteq Seq(Symbols)

VARIABLES
    arriving,      \* the stream, and how much of it has been pushed
    pendingLine,   \* the decoder's incomplete line
    answered,      \* events returned so far
    ending         \* "open", or how the stream has ended

streamVars == <<arriving, pendingLine, answered, ending>>

StreamInit ==
    /\ \E s \in Streams : arriving = [stream |-> s, pushed |-> 0]
    /\ pendingLine = << >> /\ answered = << >> /\ ending = "open"

(***************************************************************************)
(* One line.                                                               *)
(***************************************************************************)
Trimmed(s) == SelectSeq(s, LAMBDA c : c \notin {Blank, CarriageReturn})

\* Lines without the prefix, comments of the protocol among them, say nothing.
Payload(line) == IF line # << >> /\ Head(line) = DataPrefix THEN Trimmed(Tail(line)) ELSE << >>

DecodeLine(line) ==
    CASE Payload(line) \in {<< >>, <<OtherObject>>} -> "nothing"
      [] Payload(line) = <<DoneMark>> -> "done"
      [] Payload(line) = <<Half1, Half2>> -> "text"
      [] OTHER -> "error"

(***************************************************************************)
(* The lines of a text, and what follows the last of them.                 *)
(***************************************************************************)
\* The last line break before a place, or the place before the text.
LastBreak(s, n) ==
    CHOOSE b \in 0..n - 1 : /\ b = 0 \/ s[b] = LineBreak
                            /\ \A m \in b + 1..n - 1 : s[m] # LineBreak
Remainder(s) == SubSeq(s, LastBreak(s, Len(s) + 1) + 1, Len(s))
LineAt(s, n) == SubSeq(s, LastBreak(s, n) + 1, n - 1)

\* The events before a place, failed lines among them, and then those up to it.
WithLine(s, n, events) ==
    IF s[n] # LineBreak \/ DecodeLine(LineAt(s, n)) = "nothing" THEN events
    ELSE Append(events, DecodeLine(LineAt(s, n)))
Decoding(s) ==
    LET upTo[n \in 0..Len(s)] == IF n = 0 THEN << >> ELSE WithLine(s, n, upTo[n - 1])
    IN  upTo
Decoded(s) == Decoding(s)[Len(s)]

(***************************************************************************)
(* Actions.                                                                *)
(***************************************************************************)
\* Faulty: what follows the last line is taken for a line without events.
RemainderForgotten(s) == << >>
KeptPending(s) == Remainder(s)

\* StreamDecoder::push.  An error ends the answer, and the events that the same
\* push had decoded before it are not returned.
PushFragment(length) ==
    /\ ending = "open"
    /\ arriving.pushed + length <= Len(arriving.stream)
    /\ LET text == pendingLine \o SubSeq(arriving.stream, arriving.pushed + 1,
                                     arriving.pushed + length)
       IN  IF "error" \in ToSet(Decoded(text))
           THEN ending' = "error" /\ UNCHANGED <<pendingLine, answered>>
           ELSE /\ pendingLine' = KeptPending(text)
                /\ answered' = answered \o Decoded(text)
                /\ UNCHANGED ending
    /\ arriving' = [arriving EXCEPT !.pushed = @ + length]

\* StreamDecoder::finish, when the stream closes, where it should or before.
FinishStream ==
    /\ ending = "open"
    /\ ending' = IF Trimmed(pendingLine) = << >> THEN "complete" ELSE "truncated"
    /\ UNCHANGED <<arriving, pendingLine, answered>>

StreamNext ==
    \/ \E length \in 1..Len(arriving.stream) : PushFragment(length)
    \/ FinishStream

StreamSpec == StreamInit /\ [][StreamNext]_streamVars

(***************************************************************************)
(* Properties.                                                             *)
(***************************************************************************)
StreamTypeOK ==
    /\ arriving.stream \in Streams /\ arriving.pushed \in 0..Len(arriving.stream)
    /\ pendingLine \in Seq(Symbols) /\ answered \in Seq({"text", "done"})
    /\ ending \in {"open", "complete", "truncated", "error"}

\* However the transport cuts a stream, the answer is the one that its text gives
\* when it is decoded at once: the same events in the same order while no line
\* fails; an error only for a line that fails, and then a beginning of the events;
\* and no clean end in the middle of a line (StreamDecoder::push and finish).
FragmentsDoNotMatter ==
    LET text == SubSeq(arriving.stream, 1, arriving.pushed)
    IN  /\ (ending = "error") = ("error" \in ToSet(Decoded(text)))
        /\ IF ending = "error" THEN IsPrefix(answered, Decoded(text))
                               ELSE answered = Decoded(text)
        /\ ending = "complete" => Trimmed(Remainder(text)) = << >>
=============================================================================
