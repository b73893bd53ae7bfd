---------------------------- MODULE FileTransfer ----------------------------
(***************************************************************************)
(* File and folder transfer: send_transfer_with_progress and               *)
(* receive_with_progress of network/src/session.rs over the receiver and   *)
(* its staging directory of network/src/transfer.rs.                       *)
(*                                                                         *)
(* The sender keeps its manifest and may try again after an attempt has    *)
(* failed; the receiver starts each attempt from what earlier attempts     *)
(* left in the staging directory.  The user may rewrite, truncate or       *)
(* extend the source files, and another receiving process of the device    *)
(* may publish something of the same name.                                 *)
(*                                                                         *)
(* Files are measured in units of which a chunk holds ChunkSize.  A unit   *)
(* of content is Prepared, as it was when the manifest was made, or        *)
(* Changed; a file passes verify_hash when it is all Prepared.             *)
(***************************************************************************)
EXTENDS Naturals, Sequences, SequencesExt

CONSTANTS
    Size,           \* Size[i]: size of entry i of the manifest
    SingleFile,     \* one file, which is published without a directory around it
    ChunkSize,      \* MAX_CHUNK_SIZE
    Foreign,        \* what the other process publishes
    MaxAttempts,    \* bound on the sender's attempts
    MaxFaults,      \* bound on crashes, lost connections and full disks
    MaxChanges,     \* bound on changes of the source files
    MaxCancels,     \* bound on cancellations
    MaxForeign      \* bound on what the other process publishes

ASSUME TransferAssumption ==
    /\ Size \in Seq(Nat) /\ Size # << >>
    /\ SingleFile \in BOOLEAN /\ SingleFile => Len(Size) = 1
    /\ Foreign # [i \in DOMAIN Size |-> [unit \in 1..Size[i] |-> "prepared"]]
    /\ ChunkSize \in Nat \ {0}
    /\ {MaxAttempts, MaxFaults, MaxChanges, MaxCancels, MaxForeign} \subseteq Nat

VARIABLES
    source,       \* source[i]: the source file of entry i
    sender,       \* phase, offsets and result of the sending side
    receiver,     \* phase, offsets and result of the receiving side
    partial,      \* partial[i]: the bytes staged for entry i, on disk
    final,        \* final[i]: entry i has been verified and renamed, on disk
    incoming,     \* the published destinations: a sequence indexed by name suffix
    toReceiver,   \* frames on the stream from the sender
    toSender,     \* frames on the stream from the receiver
    connected,    \* the connection is open
    cancelled,    \* the sides whose cancellation flag is set
    attempts, faults, changes, cancels, foreign     \* what has been used of the bounds

vars == <<source, sender, receiver, partial, final, incoming, toReceiver, toSender,
          connected, cancelled, attempts, faults, changes, cancels, foreign>>
disk == <<partial, final, incoming>>
wires == <<toReceiver, toSender, connected>>
budget == <<attempts, faults, changes, cancels, foreign>>

Entries == DOMAIN Size
Prepared == "prepared"
Changed == "changed"
Whole(i) == [unit \in 1..Size[i] |-> Prepared]
Manifest == [i \in Entries |-> Whole(i)]

\* A faulty verify_hash, which compares lengths only.
RightLength(i, bytes) == Len(bytes) = Size[i]
Verified(i, bytes) == bytes = Whole(i)

IdleSender == [phase |-> "idle", offsets |-> << >>, result |-> "none"]
Listening == [phase |-> "listening", received |-> << >>, name |-> 0, result |-> "none"]

Init ==
    /\ source = Manifest
    /\ sender = IdleSender
    /\ receiver = Listening
    /\ partial = [i \in Entries |-> << >>]
    /\ final = [i \in Entries |-> FALSE]
    /\ incoming = << >>
    /\ toReceiver = << >>
    /\ toSender = << >>
    /\ connected = FALSE
    /\ cancelled = {}
    /\ attempts = 0 /\ faults = 0 /\ changes = 0 /\ cancels = 0 /\ foreign = 0

SenderEnds(result) ==
    sender' = [sender EXCEPT !.phase = "ended", !.result = result]
ReceiverEnds(result) ==
    receiver' = [receiver EXCEPT !.phase = "ended", !.result = result]

Send(frame) == toReceiver' = Append(toReceiver, frame)
Reply(frame) == toSender' = Append(toSender, frame)
NextFrame(kind) == toReceiver # << >> /\ Head(toReceiver).kind = kind
NextReply(kind) == toSender # << >> /\ Head(toSender).kind = kind

\* Frames that have arrived can be read after the connection has closed; the
\* rest of them never arrive.
Arrived(frames) == {SubSeq(frames, 1, n) : n \in 0..Len(frames)}

-----------------------------------------------------------------------------
(* The sending side: send_transfer_with_progress.                          *)

SendOffer ==
    /\ sender.phase = "idle" /\ receiver.phase = "listening" /\ ~ connected
    /\ attempts < MaxAttempts
    /\ attempts' = attempts + 1
    /\ connected' = TRUE
    /\ sender' = [sender EXCEPT !.phase = "offered"]
    /\ Send([kind |-> "offer"])
    /\ UNCHANGED <<source, receiver, disk, toSender, cancelled, faults, changes, cancels, foreign>>

ResumeOffsets(resume) == resume.offsets

ReadResume ==
    /\ sender.phase = "offered"
    /\ NextReply("resume")
    /\ sender' = [sender EXCEPT !.phase = "sending", !.offsets = ResumeOffsets(Head(toSender))]
    /\ toSender' = Tail(toSender)
    /\ UNCHANGED <<source, receiver, disk, toReceiver, connected, cancelled, budget>>

Unsent == {i \in Entries : sender.offsets[i] < Size[i]}
Sending == sender.phase = "sending" /\ Unsent # {}

\* The entry the two nested loops have come to.
Current(i) == i \in Unsent /\ \A j \in Unsent : i <= j

Smaller(m, n) == IF m < n THEN m ELSE n

\* read_transfer_chunk reads the source as it is now.
ReadChunk(i, offset) ==
    SubSeq(source[i], offset + 1, Smaller(offset + ChunkSize, Len(source[i])))

SendChunk ==
    /\ Sending /\ "sender" \notin cancelled
    /\ connected /\ receiver.phase # "ended"
    /\ \E i \in Entries :
        LET bytes == ReadChunk(i, sender.offsets[i])
        IN  /\ Current(i) /\ bytes # << >>
            /\ Send([kind |-> "chunk", entry |-> i, offset |-> sender.offsets[i],
                        bytes |-> bytes])
            /\ sender' = [sender EXCEPT !.offsets =
                            [@ EXCEPT ![i] = sender.offsets[i] + Len(bytes)]]
    /\ UNCHANGED <<source, receiver, disk, toSender, connected, cancelled, budget>>

\* The source has become shorter than the manifest says.
SourceRanOut ==
    /\ Sending /\ "sender" \notin cancelled
    /\ \E i \in Entries : Current(i) /\ ReadChunk(i, sender.offsets[i]) = << >>
    /\ SenderEnds("failed")
    /\ UNCHANGED <<source, receiver, disk, wires, cancelled, budget>>

\* The cancellation flag is read between two chunks only.
SendCancel ==
    /\ Sending /\ "sender" \in cancelled /\ connected
    /\ Send([kind |-> "cancel"])
    /\ SenderEnds("cancelled")
    /\ UNCHANGED <<source, receiver, disk, toSender, connected, cancelled, budget>>

SenderReadsCancel ==
    /\ sender.phase = "sending"
    /\ NextReply("cancel")
    /\ SenderEnds("cancelled")
    /\ toSender' = Tail(toSender)
    /\ UNCHANGED <<source, receiver, disk, toReceiver, connected, cancelled, budget>>

\* Once every chunk is sent only the response is left to wait for.
SenderReadsAck ==
    /\ sender.phase = "sending" /\ Unsent = {}
    /\ NextReply("ack")
    /\ SenderEnds("ok")
    /\ toSender' = Tail(toSender)
    /\ UNCHANGED <<source, receiver, disk, toReceiver, connected, cancelled, budget>>

\* The response ends without a frame to read, or writing a chunk fails because
\* the connection is closed or the receiving side has dropped the stream: the
\* select may see that before it sees the receiver's last frame.
ReceiverDropped == receiver.phase = "ended"     \* faulty: a lost connection goes unnoticed
ResponseEnded == ~ connected \/ receiver.phase = "ended"
SenderFails ==
    /\ ResponseEnded
    /\ \/ sender.phase \in {"offered", "sending"} /\ toSender = << >>
       \/ Sending
    /\ SenderEnds("failed")
    /\ UNCHANGED <<source, receiver, disk, wires, cancelled, budget>>

-----------------------------------------------------------------------------
(* The receiving side: TransferReceiver and receive_with_progress.         *)

\* A faulty begin, which refuses the files of an earlier attempt.
LeftOver(i) == partial[i] # << >>

\* A full partial file of other bytes than the manifest's.
Spoiled(i) ==
    /\ ~ final[i]
    /\ Len(partial[i]) = Size[i] /\ ~ Verified(i, partial[i])

\* TransferReceiver::begin opens the entries in order, verifying and renaming
\* the ones that are full, and stops at the first that fails.
Opened == {i \in Entries : \A j \in 1..i : ~ Spoiled(j)}
Promoted ==
    [i \in Entries |-> final[i] \/ (i \in Opened /\ Len(partial[i]) = Size[i])]

Begin ==
    /\ receiver.phase = "listening" /\ NextFrame("offer")
    /\ toReceiver' = Tail(toReceiver)
    /\ final' = Promoted
    /\ LET offsets == [i \in Entries |-> Len(partial[i])]
       IN  IF Opened = Entries /\ connected
           THEN /\ receiver' = [receiver EXCEPT !.phase = "receiving", !.received = offsets]
                /\ Reply([kind |-> "resume", offsets |-> offsets])
           ELSE ReceiverEnds("failed") /\ UNCHANGED toSender
    /\ UNCHANGED <<source, sender, partial, incoming, connected, cancelled, budget>>

Missing == {i \in Entries : receiver.received[i] < Size[i]}

\* The head of the loop, where the cancellation flag is read.
AwaitFrame ==
    /\ receiver.phase = "receiving" /\ Missing # {}
    /\ "receiver" \notin cancelled
    /\ receiver' = [receiver EXCEPT !.phase = "reading"]
    /\ UNCHANGED <<source, sender, disk, wires, cancelled, budget>>

ReceiverCancels ==
    /\ receiver.phase = "receiving" /\ Missing # {}
    /\ "receiver" \in cancelled /\ connected
    /\ Reply([kind |-> "cancel"])
    /\ ReceiverEnds("cancelled")
    /\ UNCHANGED <<source, sender, disk, toReceiver, connected, cancelled, budget>>

\* TransferReceiver::accept.  A file that fails its check stays where it is.
Accept ==
    /\ receiver.phase = "reading" /\ NextFrame("chunk")
    /\ toReceiver' = Tail(toReceiver)
    /\ LET chunk == Head(toReceiver)
           i == chunk.entry
           bytes == partial[i] \o chunk.bytes
           fits == /\ ~ final[i]
                   /\ chunk.offset = receiver.received[i]
                   /\ Len(bytes) <= Size[i]
           full == Len(bytes) = Size[i]
       IN  /\ partial' = IF fits THEN [partial EXCEPT ![i] = bytes] ELSE partial
           /\ final' = [final EXCEPT ![i] = @ \/ (fits /\ full /\ Verified(i, bytes))]
           /\ IF fits /\ (full => Verified(i, bytes))
              THEN receiver' = [receiver EXCEPT !.phase = "receiving",
                                  !.received = [@ EXCEPT ![i] = Len(bytes)]]
              ELSE ReceiverEnds("failed")
    /\ UNCHANGED <<source, sender, incoming, toSender, connected, cancelled, budget>>

ReceiverReadsCancel ==
    /\ receiver.phase = "reading" /\ NextFrame("cancel")
    /\ ReceiverEnds("cancelled")
    /\ toReceiver' = Tail(toReceiver)
    /\ UNCHANGED <<source, sender, disk, toSender, connected, cancelled, budget>>

\* available_destination: the first name suffix that is not taken.
ChooseDestination ==
    /\ receiver.phase = "receiving" /\ Missing = {}
    /\ receiver' = [receiver EXCEPT !.phase = "publishing", !.name = Len(incoming) + 1]
    /\ UNCHANGED <<source, sender, disk, wires, cancelled, budget>>

\* The rename that publishes.  A file replaces a file of the same name, a
\* directory does not replace a directory that has entries.
Taken == receiver.name <= Len(incoming)
RemovedFirst == TRUE     \* faulty: a destination that exists is removed first
Renames == SingleFile \/ ~ Taken
Publish ==
    /\ receiver.phase = "publishing"
    /\ Renames
    /\ incoming' = IF Taken THEN [incoming EXCEPT ![receiver.name] = partial]
                   ELSE Append(incoming, partial)
    /\ partial' = [i \in Entries |-> << >>]
    /\ final' = [i \in Entries |-> FALSE]
    /\ receiver' = [receiver EXCEPT !.phase = "published"]
    /\ UNCHANGED <<source, sender, wires, cancelled, budget>>

PublishFails ==
    /\ receiver.phase = "publishing"
    /\ ~ Renames
    /\ ReceiverEnds("failed")
    /\ UNCHANGED <<source, sender, disk, wires, cancelled, budget>>

SendAck ==
    /\ receiver.phase = "published" /\ connected
    /\ Reply([kind |-> "ack"])
    /\ receiver' = [receiver EXCEPT !.phase = "closing"]
    /\ UNCHANGED <<source, sender, disk, toReceiver, connected, cancelled, budget>>

\* stopped() returns once the sender's transport has the whole response.
ReceiverSucceeds ==
    /\ receiver.phase = "closing" /\ connected
    /\ ReceiverEnds("ok")
    /\ UNCHANGED <<source, sender, disk, wires, cancelled, budget>>

\* The stream from the sender ended, or the response cannot be written.
ReceiverFails ==
    /\ \/ /\ receiver.phase = "reading" /\ toReceiver = << >>
          /\ ~ connected \/ sender.phase = "ended"
       \/ receiver.phase = "receiving" /\ "receiver" \in cancelled /\ ~ connected
       \/ receiver.phase \in {"published", "closing"} /\ ~ connected
    /\ ReceiverEnds("failed")
    /\ UNCHANGED <<source, sender, disk, wires, cancelled, budget>>

-----------------------------------------------------------------------------
(* The environment.                                                        *)

\* The connection closes.  The response of a receiver that has seen it arrive
\* is not lost.
Close ==
    /\ connected
    /\ connected' = FALSE
    /\ \E frames \in Arrived(toReceiver) : toReceiver' = frames
    /\ \E frames \in Arrived(toSender) :
        /\ receiver.result = "ok" => frames = toSender
        /\ toSender' = frames

\* A process that has its result exits.
Exit ==
    /\ "ended" \in {sender.phase, receiver.phase}
    /\ Close
    /\ UNCHANGED <<source, sender, receiver, disk, cancelled, budget>>

\* The users start both sides again, the sender with the same manifest.
Retry ==
    /\ ~ connected
    /\ sender.phase = "ended" /\ sender.result # "ok"
    /\ receiver.phase \in {"ended", "listening"}
    /\ attempts < MaxAttempts
    /\ sender' = IdleSender
    /\ receiver' = Listening
    /\ cancelled' = {}
    /\ toReceiver' = << >>
    /\ toSender' = << >>
    /\ UNCHANGED <<source, disk, connected, budget>>

Cancel(side) ==
    /\ connected /\ side \notin cancelled
    /\ cancels < MaxCancels
    /\ cancels' = cancels + 1
    /\ cancelled' = cancelled \cup {side}
    /\ UNCHANGED <<source, sender, receiver, disk, wires, attempts, faults, changes, foreign>>

Fault == faults < MaxFaults /\ faults' = faults + 1

LoseConnection ==
    /\ Fault
    /\ Close
    /\ UNCHANGED <<source, sender, receiver, disk, cancelled, attempts, changes, cancels, foreign>>

\* The receiving process dies; the staging directory stays.
CrashReceiver ==
    /\ Fault
    /\ receiver.phase \notin {"listening", "ended"}
    /\ ReceiverEnds("failed")
    /\ IF connected THEN Close ELSE UNCHANGED wires
    /\ UNCHANGED <<source, sender, disk, cancelled, attempts, changes, cancels, foreign>>

\* The preflight finds too little space, after the entries have been opened.
DiskFull ==
    /\ Fault
    /\ receiver.phase = "listening" /\ NextFrame("offer")
    /\ toReceiver' = Tail(toReceiver)
    /\ final' = Promoted
    /\ ReceiverEnds("failed")
    /\ UNCHANGED <<source, sender, partial, incoming, toSender, connected, cancelled,
                   attempts, changes, cancels, foreign>>

\* The user rewrites, extends, truncates or restores a source file.
Edits(i) ==
    {Whole(i), [unit \in 1..Size[i] |-> Changed], Append(Whole(i), Changed), << >>}

ChangeSource(i) ==
    /\ changes < MaxChanges
    /\ changes' = changes + 1
    /\ \E bytes \in Edits(i) \ {source[i]} : source' = [source EXCEPT ![i] = bytes]
    /\ UNCHANGED <<sender, receiver, disk, wires, cancelled, attempts, faults, cancels, foreign>>

\* Another process of the device publishes under the same name, in one step.
ForeignPublish ==
    /\ foreign < MaxForeign
    /\ foreign' = foreign + 1
    /\ incoming' = Append(incoming, Foreign)
    /\ UNCHANGED <<source, sender, receiver, partial, final, wires, cancelled,
                   attempts, faults, changes, cancels>>

SenderStep ==
    \/ SendOffer \/ ReadResume \/ SendChunk \/ SourceRanOut \/ SendCancel
    \/ SenderReadsCancel \/ SenderReadsAck \/ SenderFails

ReceiverStep ==
    \/ Begin \/ AwaitFrame \/ ReceiverCancels \/ Accept \/ ReceiverReadsCancel
    \/ ChooseDestination \/ Publish \/ PublishFails
    \/ SendAck \/ ReceiverSucceeds \/ ReceiverFails

Environment ==
    \/ LoseConnection \/ CrashReceiver \/ DiskFull \/ ForeignPublish
    \/ \E side \in {"sender", "receiver"} : Cancel(side)
    \/ \E i \in Entries : ChangeSource(i)

Next == SenderStep \/ ReceiverStep \/ Exit \/ Retry \/ Environment

\* Both processes run until they have a result, which ends them, and the users
\* do not give up before the attempts are used up.
Spec ==
    /\ Init /\ [][Next]_vars
    /\ WF_vars(SenderStep) /\ WF_vars(ReceiverStep) /\ WF_vars(Exit) /\ WF_vars(Retry)

-----------------------------------------------------------------------------
Phases == {"listening", "receiving", "reading", "publishing", "published", "closing", "ended"}
Results == {"none", "ok", "cancelled", "failed"}

\* Type invariant, with what ties memory to disk: while a receiver runs, the
\* offset it holds of each entry is the length of the entry's partial file, and
\* the entries renamed are the ones of full length.
TypeOK ==
    /\ sender.phase \in {"idle", "offered", "sending", "ended"} /\ sender.result \in Results
    /\ receiver.phase \in Phases /\ receiver.result \in Results
    /\ cancelled \subseteq {"sender", "receiver"}
    /\ \A i \in Entries :
        /\ Len(partial[i]) <= Size[i]
        /\ receiver.phase \in {"receiving", "reading", "publishing"} =>
            /\ receiver.received[i] = Len(partial[i])
            /\ final[i] <=> Len(partial[i]) = Size[i]

\* The names under which this transfer, and no other process, has published.
Names == {name \in DOMAIN incoming : incoming[name] # Foreign}

Delivery == INSTANCE AtomicDelivery
    WITH Content <- Manifest,
         copies <- [name \in Names |-> incoming[name]],
         told <- sender.result = "ok"

\* "Acknowledge only after every file passes its BLAKE3 digest and the transfer
\* is atomically published": through crashes, resumption and changes of the
\* source, only whole copies of the manifest's content appear among the incoming
\* files, and the sender succeeds only once there is one.
Delivers == Delivery!Spec

\* "Published without overwriting an existing destination": what has been
\* published stays.
Keeps == IsPrefix(incoming, incoming')
NoOverwrite == [][Keeps]_incoming

\* Every attempt ends on both sides: no cancellation, failure or early end of a
\* stream leaves a side waiting for the other.
AttemptEnds ==
    /\ sender.phase = "offered" ~> sender.phase = "ended"
    /\ receiver.phase = "receiving" ~> receiver.phase = "ended"

\* What a crash, a lost connection, a full disk or a taken name leaves in the
\* staging directory is no obstacle: with more attempts than troubles, the
\* transfer of an unchanged source that nobody cancels succeeds.
SucceedsDespiteFaults == <>(sender.result = "ok" \/ changes > 0 \/ cancels > 0)
=============================================================================
