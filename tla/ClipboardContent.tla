-------------------------- MODULE ClipboardContent --------------------------
(***************************************************************************)
(* What a clipboard value becomes on its way from one device's clipboard   *)
(* to another's: digests and representations (platform/clipboard.rs), the  *)
(* encodings of events and of the blobs behind history rows (sync/lib.rs), *)
(* and what of it a native clipboard takes and gives back.                 *)
(*                                                                         *)
(* Bytes are numbers and a length prefix is one of them.  The byte 0 is    *)
(* not UTF-8, the byte 2 is the slash of an absolute path, the byte 3 is   *)
(* what a lossy conversion puts in place of others, a pixel is one byte.   *)
(* A value is [kind, fields], its fields being sequences; a path is one of *)
(* its names.                                                              *)
(***************************************************************************)
EXTENDS Naturals, Sequences, SequencesExt

CONSTANTS
    NativeValues,    \* what a native clipboard can hold
    RichValues,      \* HTML and RTF with their plain text
    InlineBytes,     \* MAX_INLINE_CLIPBOARD_BYTES
    DecodedBytes,    \* MAX_DECODED_IMAGE_BYTES
    FilesWritable,   \* macOS, where file lists can be written back
    Invalid          \* an error


VARIABLE
    content      \* phase; copied: the value of one device; event; bytes: what its
                 \* history keeps; board and seen: clipboard and last_digest of the other

Slash == 2
IsText(bytes) == 0 \notin Range(bytes)
IsAbsolute(path) == path # << >> /\ path[1] = Slash

\* to_string_lossy, for paths that are not UTF-8.
Lossy(path) == [i \in DOMAIN path |-> IF path[i] = 0 THEN 3 ELSE path[i]]

\* What ClipboardValue can hold: strings are UTF-8, an image has two measures.
ContentKinds == {"text", "html", "rtf", "image", "files"}
ContentValues ==
    {v \in [kind : ContentKinds, fields : Seq(Seq(Nat))] :
        CASE v.kind = "text" -> Len(v.fields) = 1 /\ IsText(v.fields[1])
          [] v.kind \in {"html", "rtf"} ->
               Len(v.fields) = 2 /\ IsText(v.fields[1]) /\ IsText(v.fields[2])
          [] v.kind = "image" -> Len(v.fields) = 2 /\ Len(v.fields[1]) = 2
          [] v.kind = "files" -> TRUE}

ASSUME ContentAssumption ==
    /\ InlineBytes \in Nat /\ DecodedBytes \in Nat
    /\ FilesWritable \in BOOLEAN
    /\ NativeValues \subseteq {v \in ContentValues : v.kind \in {"text", "image", "files"}}
    /\ RichValues \subseteq {v \in ContentValues : v.kind \in {"html", "rtf"}}
    /\ Invalid \notin Seq(Seq(Nat)) \cup [kind : ContentKinds, fields : Seq(Seq(Nat))]
                     \cup [kind : ContentKinds, hashed : Seq(Nat)]

(***************************************************************************)
(* Digests.  A digest stands for the bytes that were hashed.               *)
(***************************************************************************)
WellFormed(v) ==
    CASE v.kind \in {"text", "html", "rtf"} -> \A i \in DOMAIN v.fields : v.fields[i] # << >>
      [] v.kind = "image" -> LET w == v.fields[1][1]
                                 h == v.fields[1][2]
                             IN  w > 0 /\ h > 0 /\ w * h = Len(v.fields[2])
      [] v.kind = "files" -> v.fields # << >>
                             /\ \A i \in DOMAIN v.fields : IsAbsolute(v.fields[i])

\* prepare and portable_relative_path refuse names that are not UTF-8.
Portable(v) ==
    WellFormed(v) /\ (v.kind = "files" => \A i \in DOMAIN v.fields : IsText(v.fields[i]))

\* Faulty: fields follow each other with nothing between them.
Bare(bytes) == bytes
\* hash_field: a field after its length.
HashField(bytes) == <<Len(bytes)>> \o bytes

Digest(v) ==
    IF ~WellFormed(v) THEN Invalid
    ELSE [kind |-> v.kind,
          hashed |-> FlattenSeq(
             CASE v.kind \in {"text", "image"} -> v.fields
               [] v.kind \in {"html", "rtf"} -> [i \in DOMAIN v.fields |-> HashField(v.fields[i])]
               [] v.kind = "files" -> [i \in DOMAIN v.fields |-> HashField(Lossy(v.fields[i]))])]

(***************************************************************************)
(* Encodings.                                                              *)
(***************************************************************************)
\* encode_rich and encode_paths; of rich text only the plain part has a length.
EncodeRich(v) ==
    IF \E i \in DOMAIN v.fields : v.fields[i] = << >> THEN Invalid
    ELSE <<Len(v.fields[1])>> \o v.fields[1] \o v.fields[2]
EncodePath(path) == <<Len(Lossy(path))>> \o Lossy(path)
EncodePaths(v) == FlattenSeq([i \in DOMAIN v.fields |-> EncodePath(v.fields[i])])

\* encode_value, and encode_paths where a transfer carries the files.
Encode(v) ==
    CASE v.kind = "text" -> v.fields[1]
      [] v.kind \in {"html", "rtf"} -> EncodeRich(v)
      [] v.kind = "image" -> IF Digest(v) = Invalid THEN Invalid ELSE FlattenSeq(v.fields)
      [] v.kind = "files" -> EncodePaths(v)

DecodeRich(kind, bytes) ==
    LET boundary == 1 + bytes[1]
        plain == SubSeq(bytes, 2, boundary)
        rich == SubSeq(bytes, boundary + 1, Len(bytes))
    IN  IF bytes = << >> \/ boundary > Len(bytes) THEN Invalid
        ELSE IF ~IsText(plain \o rich) \/ plain = << >> \/ rich = << >> THEN Invalid
        ELSE [kind |-> kind, fields |-> <<plain, rich>>]

\* decode_png, within its limit.
DecodePng(bytes) ==
    LET value == [kind |-> "image",
                  fields |-> <<SubSeq(bytes, 1, 2), SubSeq(bytes, 3, Len(bytes))>>]
    IN  IF Len(bytes) < 2 \/ Len(bytes) - 2 > DecodedBytes \/ Digest(value) = Invalid
        THEN Invalid ELSE value

\* decode_paths, from each offset on.
DecodePaths(bytes) ==
    LET from[at \in 1..Len(bytes)+1] ==
            IF at = Len(bytes) + 1 THEN << >>
            ELSE LET end == at + bytes[at]
                     path == SubSeq(bytes, at + 1, end)
                 IN  IF end > Len(bytes) \/ ~IsText(path) \/ ~IsAbsolute(path)
                        \/ from[end + 1] = Invalid
                     THEN Invalid ELSE <<path>> \o from[end + 1]
        paths == from[1]
    IN  IF paths = Invalid \/ paths = << >> THEN Invalid
        ELSE [kind |-> "files", fields |-> paths]

\* decode_value, and decode_paths for what history keeps of files.
Decode(kind, bytes) ==
    CASE kind = "text" -> IF bytes = << >> \/ ~IsText(bytes) THEN Invalid
                          ELSE [kind |-> "text", fields |-> <<bytes>>]
      [] kind \in {"html", "rtf"} -> DecodeRich(kind, bytes)
      [] kind = "image" -> DecodePng(bytes)
      [] kind = "files" -> DecodePaths(bytes)

(***************************************************************************)
(* The native clipboard and its monitor.                                   *)
(***************************************************************************)
\* What is on the clipboard after a write, or Invalid where it is refused.
OnBoard(v) ==
    CASE v.kind = "text" -> v
      [] v.kind \in {"html", "rtf"} -> [kind |-> "text", fields |-> <<v.fields[1]>>]
      [] v.kind = "image" -> IF Digest(v) = Invalid THEN Invalid ELSE v
      [] v.kind = "files" -> IF FilesWritable THEN v ELSE Invalid

ContentInit ==
    \E v \in NativeValues :
       content = [phase |-> "copied", copied |-> v, event |-> Invalid, bytes |-> Invalid,
                  board |-> Invalid, seen |-> Invalid]

ContentEnds(phase) == content' = [content EXCEPT !.phase = phase]

\* local_event: the encoding travels in the event or as a blob next to it.
EventOf(v) ==
    [kind |-> v.kind,
     content |-> CASE v.kind = "files" -> "transfer"
                   [] v.kind # "files" /\ Len(Encode(v)) <= InlineBytes -> "inline"
                   [] OTHER -> "blob"]

\* The monitor's poll and the coordinator's: a malformed value is an error; files
\* are recorded with the transfer that carries them, if there can be one.
CaptureCopied ==
    /\ content.phase = "copied"
    /\ IF Digest(content.copied) = Invalid \/ ~Portable(content.copied) THEN ContentEnds("refused")
       ELSE content' = [content EXCEPT !.phase = "offered", !.event = EventOf(content.copied),
                                       !.bytes = Encode(content.copied)]

\* Whether the decoded value is applied or refused.
Applied(v) ==
    IF v = Invalid \/ Digest(v) = Invalid \/ OnBoard(v) = Invalid THEN ContentEnds("failed")
    ELSE content' = [content EXCEPT !.phase = "applied", !.board = OnBoard(v),
                                    !.seen = Digest(v)]

\* receive, for a value that is in the event.
ReceiveInline ==
    /\ content.phase = "offered" /\ content.event.content = "inline"
    /\ Applied(Decode(content.event.kind, content.bytes))

\* receive_blob: bytes that are not the event's are refused before they are read.
ReceiveContentBlob ==
    /\ content.phase = "offered" /\ content.event.content = "blob"
    /\ \E bytes \in {content.bytes, Front(content.bytes)} :
          IF bytes # content.bytes THEN ContentEnds("failed")
          ELSE Applied(Decode(content.event.kind, bytes))

\* receive_files: the list is the one published destination.
ReceivePublished ==
    /\ content.phase = "offered" /\ content.event.content = "transfer"
    /\ Applied([kind |-> "files", fields |-> <<content.copied.fields[1]>>])

\* The other device polls: what it sees now is a copy of its user's, or nothing.
PollApplied ==
    /\ content.phase = "applied"
    /\ ContentEnds(IF Digest(content.board) = content.seen THEN "settled" ELSE "echoed")

ContentNext ==
    \/ CaptureCopied \/ ReceiveInline \/ ReceiveContentBlob \/ ReceivePublished \/ PollApplied

ContentSpec == ContentInit /\ [][ContentNext]_content

(***************************************************************************)
(* Properties.                                                             *)
(***************************************************************************)
ContentTypeOK ==
    /\ content.phase \in {"copied", "refused", "offered", "failed", "applied", "settled",
                          "echoed"}
    /\ content.copied \in NativeValues

AllValues == NativeValues \cup RichValues
Decodable(v) == Portable(v) /\ (v.kind = "image" => Len(v.fields[2]) <= DecodedBytes)

\* A value comes out of history and off the wire as it went in, if its paths are UTF-8
\* and its image is not too large; values that differ have different digests, so that
\* no copy is taken for one already seen; and a value the other device applied is the
\* one that was copied and is not captured there again (encode_value, decode_value,
\* decode_paths, digest, apply_remote).
ContentSurvives ==
    /\ content.phase = "offered" =>
         /\ \A v \in AllValues : Decodable(v) => Decode(v.kind, Encode(v)) = v
         /\ \A v, w \in AllValues : Portable(v) /\ Portable(w) /\ Digest(v) = Digest(w) => v = w
    /\ content.phase # "echoed"
    /\ content.phase = "settled" /\ content.event.content # "transfer" =>
          content.board = content.copied
=============================================================================
