------------------------- MODULE FileTransferProofs -------------------------
(***************************************************************************)
(* A transfer delivers, for any manifest, chunk size, faults, changes of   *)
(* the source, cancellations and publications of others.                   *)
(*                                                                         *)
(* The staging directory outlives attempts, so what holds of it may not    *)
(* depend on the attempt: an entry that was renamed is whole.  While a     *)
(* receiver runs, its offsets say what is staged, so that it publishes     *)
(* only when everything is whole.  An acknowledgement, on its way or read, *)
(* stands for a copy.                                                      *)
(***************************************************************************)
EXTENDS FileTransfer, SequenceTheorems, TLAPS

Units == {Prepared, Changed}
Bytes == Seq(Units)
Offsets == [Entries -> Nat]

SenderState ==
    [phase : {"idle", "offered", "sending", "ended"}, offsets : Offsets \cup {<< >>}, result : Results]
ReceiverState ==
    [phase : Phases, received : Offsets \cup {<< >>}, name : Nat, result : Results]
FromSender ==
    [kind : {"offer", "cancel"}]
    \cup [kind : {"chunk"}, entry : Entries, offset : Nat, bytes : Bytes]
FromReceiver == [kind : {"cancel", "ack"}] \cup [kind : {"resume"}, offsets : Offsets]

Shape ==
    /\ source \in [Entries -> Bytes]
    /\ sender \in SenderState
    /\ sender.phase = "sending" => sender.offsets \in Offsets
    /\ receiver \in ReceiverState
    /\ partial \in [Entries -> Bytes]
    /\ final \in [Entries -> BOOLEAN]
    /\ incoming \in Seq({Foreign, Manifest})
    /\ toReceiver \in Seq(FromSender)
    /\ toSender \in Seq(FromReceiver)
    /\ cancelled \subseteq {"sender", "receiver"}

\* What is staged, whoever staged it.
OnDisk == \A i \in Entries : /\ final[i] => partial[i] = Whole(i)
                             /\ Len(partial[i]) <= Size[i]

\* What a receiver that runs knows of it.
InMemory ==
    /\ receiver.phase \in {"receiving", "reading", "publishing"} =>
          /\ receiver.received \in Offsets
          /\ \A i \in Entries : /\ receiver.received[i] = Len(partial[i])
                                /\ Len(partial[i]) = Size[i] => final[i]
    /\ receiver.phase = "publishing" => receiver.name # 0 /\ \A i \in Entries : final[i]

Published == \E name \in DOMAIN incoming : incoming[name] = Manifest

\* Nobody is told of a copy that is not there.
Promised ==
    /\ receiver.phase = "published" => Published
    /\ \A n \in DOMAIN toSender : toSender[n].kind = "ack" => Published
    /\ sender.result = "ok" => Published

TransferInv == Shape /\ OnDisk /\ InMemory /\ Promised

(***************************************************************************)
(* Facts about contents, sequences and what a step leaves alone.           *)
(***************************************************************************)
LEMMA WholeFacts ==
  ASSUME NEW i \in Entries
  PROVE  Size[i] \in Nat /\ Whole(i) \in Bytes /\ Len(Whole(i)) = Size[i]
  <1>1. Size[i] \in Nat
    BY TransferAssumption DEF Entries
  <1>2. Whole(i) \in [1..Size[i] -> Units]
    BY DEF Whole, Units
  <1> QED BY <1>1, <1>2 DEF Bytes

LEMMA ManifestIsNotForeign == Foreign # Manifest
  BY TransferAssumption DEF Manifest, Whole, Entries, Prepared

LEMMA TailFacts ==
  ASSUME NEW S, NEW s \in Seq(S), s # << >>
  PROVE  /\ Head(s) \in S /\ Tail(s) \in Seq(S) /\ Head(s) = s[1] /\ 1 \in DOMAIN s
         /\ \A n \in DOMAIN Tail(s) : n + 1 \in DOMAIN s /\ Tail(s)[n] = s[n + 1]
  OBVIOUS

LEMMA AppendFacts ==
  ASSUME NEW S, NEW s \in Seq(S), NEW x \in S
  PROVE  /\ Append(s, x) \in Seq(S) /\ DOMAIN Append(s, x) = DOMAIN s \cup {Len(s) + 1}
         /\ Append(s, x)[Len(s) + 1] = x
         /\ \A n \in DOMAIN s : Append(s, x)[n] = s[n]
  OBVIOUS

LEMMA ArrivedFacts ==
  ASSUME NEW S, NEW s \in Seq(S), NEW frames \in Arrived(s)
  PROVE  /\ frames \in Seq(S)
         /\ \A n \in DOMAIN frames : n \in DOMAIN s /\ frames[n] = s[n]
  <1> PICK k \in 0..Len(s) : frames = SubSeq(s, 1, k)
    BY DEF Arrived
  <1>1. \A n \in 1..k : n \in 1..Len(s) /\ s[n] \in S
    OBVIOUS
  <1> QED BY <1>1, SubSeqProperties

\* The frames on their way to the sender are some of those that were.
Fewer == \A n \in DOMAIN toSender' : \E m \in DOMAIN toSender : toSender'[n] = toSender[m]

LEMMA FewerOrSame ==
  ASSUME Shape, \/ toSender' = toSender
                \/ toSender # << >> /\ toSender' = Tail(toSender)
                \/ toSender' \in Arrived(toSender)
                \/ toSender' = << >>
  PROVE  toSender' \in Seq(FromReceiver) /\ Fewer
  <1>1. toSender \in Seq(FromReceiver)
    BY DEF Shape
  <1>2. CASE toSender' = toSender
    BY <1>1, <1>2 DEF Fewer
  <1>3. CASE toSender # << >> /\ toSender' = Tail(toSender)
    BY <1>1, <1>3, TailFacts DEF Fewer
  <1>4. CASE toSender' \in Arrived(toSender)
    BY <1>1, <1>4, ArrivedFacts DEF Fewer
  <1>5. CASE toSender' = << >>
    BY <1>5 DEF Fewer
  <1> QED BY <1>2, <1>3, <1>4, <1>5

LEMMA FrameTaken ==
  ASSUME Shape, \/ toReceiver' = toReceiver
                \/ toReceiver # << >> /\ toReceiver' = Tail(toReceiver)
                \/ toReceiver' \in Arrived(toReceiver)
                \/ toReceiver' = << >>
  PROVE  toReceiver' \in Seq(FromSender)
  <1>1. toReceiver \in Seq(FromSender)
    BY DEF Shape
  <1>2. CASE toReceiver # << >> /\ toReceiver' = Tail(toReceiver)
    BY <1>1, <1>2, TailFacts
  <1>3. CASE toReceiver' \in Arrived(toReceiver)
    BY <1>1, <1>3, ArrivedFacts
  <1>4. CASE toReceiver' = << >>
    <2>1. << >> \in Seq(FromSender)
      OBVIOUS
    <2> QED BY <1>4, <2>1, Zenon
  <1>5. CASE toReceiver' = toReceiver
    BY <1>1, <1>5, Zenon
  <1> QED BY <1>2, <1>3, <1>4, <1>5

\* A step that leaves the receiver and the disk alone.
LEMMA Elsewhere ==
  ASSUME TransferInv, UNCHANGED <<receiver, disk>>,
         source' \in [Entries -> Bytes], cancelled' \subseteq {"sender", "receiver"},
         sender' \in SenderState, sender'.phase = "sending" => sender'.offsets \in Offsets,
         sender'.result = "ok" => Published,
         toReceiver' \in Seq(FromSender), toSender' \in Seq(FromReceiver), Fewer
  PROVE  TransferInv'
  <1>1. UNCHANGED <<partial, final, incoming>>
    BY DEF disk
  <1>2. Shape'
    BY <1>1 DEF TransferInv, Shape
  <1>3. OnDisk' /\ InMemory'
    BY <1>1 DEF TransferInv, OnDisk, InMemory
  <1>4. Published' <=> Published
    BY <1>1 DEF Published
  <1>5. Promised'
    BY <1>4 DEF TransferInv, Promised, Fewer
  <1> QED BY <1>2, <1>3, <1>5 DEF TransferInv

LEMMA SenderEndsFacts ==
  ASSUME Shape, NEW result \in Results, SenderEnds(result)
  PROVE  sender' \in SenderState /\ sender'.phase = "ended" /\ sender'.result = result
  BY DEF Shape, SenderEnds, SenderState

LEMMA SenderStepInv ==
  ASSUME TransferInv, SenderStep
  PROVE  TransferInv'
  <1>1. /\ Shape /\ sender \in SenderState /\ source \in [Entries -> Bytes]
        /\ toReceiver \in Seq(FromSender) /\ toSender \in Seq(FromReceiver)
        /\ cancelled \subseteq {"sender", "receiver"}
        /\ sender.result = "ok" => Published
    BY DEF TransferInv, Shape, Promised
  <1>2. CASE SendOffer
    <2>1. /\ UNCHANGED <<source, receiver, disk, toSender, cancelled>>
          /\ sender' = [sender EXCEPT !.phase = "offered"]
          /\ toReceiver' = Append(toReceiver, [kind |-> "offer"])
      BY <1>2 DEF SendOffer, Send
    <2>2. sender' \in SenderState /\ sender'.phase = "offered" /\ sender'.result = sender.result
      BY <1>1, <2>1 DEF SenderState
    <2>3. toReceiver' \in Seq(FromSender)
      <3>1. [kind |-> "offer"] \in FromSender
        BY DEF FromSender
      <3> QED BY <1>1, <2>1, <3>1, AppendFacts
    <2> QED BY <1>1, <2>1, <2>2, <2>3, FewerOrSame, Elsewhere
  <1>3. CASE ReadResume
    <2>1. /\ toSender # << >> /\ Head(toSender).kind = "resume" /\ toSender' = Tail(toSender)
          /\ sender' = [sender EXCEPT !.phase = "sending", !.offsets = Head(toSender).offsets]
          /\ UNCHANGED <<source, receiver, disk, toReceiver, cancelled>>
      BY <1>3 DEF ReadResume, NextReply, ResumeOffsets
    <2>2. Head(toSender).offsets \in Offsets
      <3>1. Head(toSender) \in FromReceiver
        BY <1>1, <2>1, TailFacts
      <3> QED BY <2>1, <3>1 DEF FromReceiver
    <2>3. /\ sender' \in SenderState /\ sender'.offsets \in Offsets
          /\ sender'.result = sender.result
      BY <1>1, <2>1, <2>2 DEF SenderState
    <2> QED BY <1>1, <2>1, <2>3, FewerOrSame, Elsewhere
  <1>4. CASE SendChunk
    <2> PICK i \in Entries :
          /\ toReceiver' = Append(toReceiver, [kind |-> "chunk", entry |-> i,
                offset |-> sender.offsets[i], bytes |-> ReadChunk(i, sender.offsets[i])])
          /\ sender' = [sender EXCEPT !.offsets =
                [@ EXCEPT ![i] = sender.offsets[i] + Len(ReadChunk(i, sender.offsets[i]))]]
      BY <1>4 DEF SendChunk, Send
    <2>1. sender.phase = "sending" /\ UNCHANGED <<source, receiver, disk, toSender, cancelled>>
      BY <1>4 DEF SendChunk, Sending
    <2>2. sender.offsets \in Offsets /\ sender.offsets[i] \in Nat
      BY <2>1 DEF TransferInv, Shape, Offsets
    <2> PICK bytes : bytes = ReadChunk(i, sender.offsets[i])
      OBVIOUS
    <2>3. bytes \in Bytes /\ Len(bytes) \in Nat
      <3> PICK m : m = Smaller(sender.offsets[i] + ChunkSize, Len(source[i]))
        OBVIOUS
      <3>1. source[i] \in Seq(Units) /\ Len(source[i]) \in Nat
        BY <1>1 DEF Bytes
      <3>2. m \in Nat /\ m <= Len(source[i])
        <4>1. \A a, b \in Nat : Smaller(a, b) \in Nat /\ Smaller(a, b) <= b
          BY DEF Smaller
        <4>2. sender.offsets[i] + ChunkSize \in Nat
          <5>1. ChunkSize \in Nat
            BY TransferAssumption, Zenon
          <5> QED BY <2>2, <5>1
        <4> QED BY <3>1, <4>1, <4>2
      <3>3. \A n \in sender.offsets[i] + 1 .. m : source[i][n] \in Units
        BY <2>2, <3>1, <3>2
      <3>4. SubSeq(source[i], sender.offsets[i] + 1, m) \in Seq(Units)
        BY <2>2, <3>1, <3>2, <3>3, SubSeqProperties
      <3> QED BY <3>4 DEF ReadChunk, Bytes
    <2> PICK offsets : offsets = [sender.offsets EXCEPT ![i] = sender.offsets[i] + Len(bytes)]
      OBVIOUS
    <2>4. offsets \in Offsets
      BY <2>2, <2>3 DEF Offsets
    <2>5. /\ sender' \in SenderState /\ sender'.offsets \in Offsets
          /\ sender'.result = sender.result
      <3>1. sender' = [sender EXCEPT !.offsets = offsets]
        OBVIOUS
      <3> QED BY <1>1, <2>4, <3>1 DEF SenderState
    <2>6. toReceiver' \in Seq(FromSender)
      <3>1. [kind |-> "chunk", entry |-> i, offset |-> sender.offsets[i], bytes |-> bytes]
              \in FromSender
        BY <2>2, <2>3 DEF FromSender
      <3> QED BY <1>1, <3>1, AppendFacts
    <2> QED BY <1>1, <2>1, <2>5, <2>6, FewerOrSame, Elsewhere
  <1>5. CASE SourceRanOut
    <2>1. SenderEnds("failed") /\ UNCHANGED <<source, receiver, disk, toReceiver, toSender, cancelled>>
      BY <1>5 DEF SourceRanOut, wires
    <2>2. sender' \in SenderState /\ sender'.phase = "ended" /\ sender'.result = "failed"
      BY <1>1, <2>1, SenderEndsFacts DEF Results
    <2> QED BY <1>1, <2>1, <2>2, FewerOrSame, Elsewhere
  <1>6. CASE SendCancel
    <2>1. /\ SenderEnds("cancelled") /\ UNCHANGED <<source, receiver, disk, toSender, cancelled>>
          /\ toReceiver' = Append(toReceiver, [kind |-> "cancel"])
      BY <1>6 DEF SendCancel, Send
    <2>2. sender' \in SenderState /\ sender'.phase = "ended" /\ sender'.result = "cancelled"
      BY <1>1, <2>1, SenderEndsFacts DEF Results
    <2>3. toReceiver' \in Seq(FromSender)
      <3>1. [kind |-> "cancel"] \in FromSender
        BY DEF FromSender
      <3> QED BY <1>1, <2>1, <3>1, AppendFacts
    <2> QED BY <1>1, <2>1, <2>2, <2>3, FewerOrSame, Elsewhere
  <1>7. CASE SenderReadsCancel
    <2>1. /\ SenderEnds("cancelled") /\ toSender # << >> /\ toSender' = Tail(toSender)
          /\ UNCHANGED <<source, receiver, disk, toReceiver, cancelled>>
      BY <1>7 DEF SenderReadsCancel, NextReply
    <2>2. sender' \in SenderState /\ sender'.phase = "ended" /\ sender'.result = "cancelled"
      BY <1>1, <2>1, SenderEndsFacts DEF Results
    <2> QED BY <1>1, <2>1, <2>2, FewerOrSame, Elsewhere
  <1>8. CASE SenderReadsAck
    <2>1. /\ SenderEnds("ok") /\ toSender # << >> /\ Head(toSender).kind = "ack"
          /\ toSender' = Tail(toSender)
          /\ UNCHANGED <<source, receiver, disk, toReceiver, cancelled>>
      BY <1>8 DEF SenderReadsAck, NextReply
    <2>2. sender' \in SenderState /\ sender'.phase = "ended" /\ sender'.result = "ok"
      BY <1>1, <2>1, SenderEndsFacts DEF Results
    <2>3. Published
      BY <1>1, <2>1, TailFacts DEF TransferInv, Promised
    <2> QED BY <1>1, <2>1, <2>2, <2>3, FewerOrSame, Elsewhere
  <1>9. CASE SenderFails
    <2>1. SenderEnds("failed") /\ UNCHANGED <<source, receiver, disk, toReceiver, toSender, cancelled>>
      BY <1>9 DEF SenderFails, wires
    <2>2. sender' \in SenderState /\ sender'.phase = "ended" /\ sender'.result = "failed"
      BY <1>1, <2>1, SenderEndsFacts DEF Results
    <2> QED BY <1>1, <2>1, <2>2, FewerOrSame, Elsewhere
  <1> QED BY <1>2, <1>3, <1>4, <1>5, <1>6, <1>7, <1>8, <1>9 DEF SenderStep

(***************************************************************************)
(* The receiving side.                                                     *)
(***************************************************************************)
\* The acknowledgements on their way stand for a copy.
AcksArePromised == \A n \in DOMAIN toSender' : toSender'[n].kind = "ack" => Published

LEMMA ReplyFacts ==
  ASSUME TransferInv, NEW frame \in FromReceiver, Reply(frame), frame.kind = "ack" => Published
  PROVE  toSender' \in Seq(FromReceiver) /\ AcksArePromised
  <1>1. toSender \in Seq(FromReceiver) /\ toSender' = Append(toSender, frame)
    BY DEF TransferInv, Shape, Reply
  <1> QED BY <1>1, AppendFacts DEF TransferInv, Promised, AcksArePromised

LEMMA NoReplyFacts ==
  ASSUME TransferInv, UNCHANGED toSender
  PROVE  toSender' \in Seq(FromReceiver) /\ AcksArePromised
  BY DEF TransferInv, Shape, Promised, AcksArePromised

\* A step of the receiver that neither stages nor publishes.
LEMMA ReceiverActs ==
  ASSUME TransferInv, UNCHANGED <<source, sender, cancelled, partial, incoming>>,
         final' \in [Entries -> BOOLEAN], \A i \in Entries : final'[i] => partial[i] = Whole(i),
         receiver' \in ReceiverState, InMemory', receiver'.phase = "published" => Published,
         toReceiver' \in Seq(FromSender), toSender' \in Seq(FromReceiver), AcksArePromised
  PROVE  TransferInv'
  <1>1. Shape'
    BY DEF TransferInv, Shape
  <1>2. OnDisk'
    BY DEF TransferInv, OnDisk
  <1>3. Published' <=> Published
    BY DEF Published
  <1>4. Promised'
    BY <1>3 DEF TransferInv, Promised, AcksArePromised
  <1> QED BY <1>1, <1>2, <1>4 DEF TransferInv

LEMMA ReceiverEndsFacts ==
  ASSUME Shape, NEW result \in Results, ReceiverEnds(result)
  PROVE  receiver' \in ReceiverState /\ receiver'.phase = "ended" /\ InMemory'
  <1>1. receiver' \in ReceiverState /\ receiver'.phase = "ended"
    BY DEF Shape, ReceiverEnds, ReceiverState, Phases
  <1> QED BY <1>1 DEF InMemory

LEMMA PromotedFacts ==
  ASSUME TransferInv
  PROVE  /\ Promoted \in [Entries -> BOOLEAN]
         /\ \A i \in Entries : Promoted[i] => partial[i] = Whole(i)
         /\ Opened = Entries => \A i \in Entries : Len(partial[i]) = Size[i] => Promoted[i]
  <1>1. final \in [Entries -> BOOLEAN]
    BY DEF TransferInv, Shape
  <1>2. \A i \in Entries : Promoted[i] <=> final[i] \/ (i \in Opened /\ Len(partial[i]) = Size[i])
    BY DEF Promoted
  <1>3. \A i \in Opened : i \in 1..i /\ ~ Spoiled(i)
    BY TransferAssumption DEF Opened, Entries
  <1>4. \A i \in Entries : Promoted[i] => partial[i] = Whole(i)
    BY <1>2, <1>3 DEF TransferInv, OnDisk, Spoiled, Verified
  <1>5. Promoted \in [Entries -> BOOLEAN]
    BY <1>1 DEF Promoted
  <1> QED BY <1>2, <1>4, <1>5

LEMMA BeginInv ==
  ASSUME TransferInv, Begin
  PROVE  TransferInv'
  <1>1. /\ Shape /\ toReceiver # << >> /\ toReceiver' = Tail(toReceiver) /\ final' = Promoted
        /\ UNCHANGED <<source, sender, partial, incoming, cancelled>>
        /\ receiver \in ReceiverState
    BY DEF Begin, NextFrame, TransferInv, Shape
  <1>2. toReceiver' \in Seq(FromSender)
    BY <1>1, FrameTaken
  <1>3. CASE ReceiverEnds("failed") /\ UNCHANGED toSender
    <2>1. receiver' \in ReceiverState /\ receiver'.phase = "ended" /\ InMemory'
      BY <1>1, <1>3, ReceiverEndsFacts DEF Results
    <2> QED BY <1>1, <1>2, <1>3, <2>1, PromotedFacts, NoReplyFacts, ReceiverActs
  <1>4. CASE ~ (ReceiverEnds("failed") /\ UNCHANGED toSender)
    <2> PICK offsets : offsets = [i \in Entries |-> Len(partial[i])]
      OBVIOUS
    <2>1. /\ Opened = Entries
          /\ receiver' = [receiver EXCEPT !.phase = "receiving", !.received = offsets]
          /\ Reply([kind |-> "resume", offsets |-> offsets])
      BY <1>4 DEF Begin
    <2>2. offsets \in Offsets
      BY DEF TransferInv, Shape, Offsets, Bytes
    <2>3. [kind |-> "resume", offsets |-> offsets] \in FromReceiver
      BY <2>2 DEF FromReceiver
    <2>4. receiver' \in ReceiverState /\ receiver'.phase = "receiving" /\ receiver'.received = offsets
      BY <1>1, <2>1, <2>2 DEF ReceiverState, Phases
    <2>5. InMemory'
      BY <1>1, <2>1, <2>2, <2>4, PromotedFacts DEF InMemory
    <2>6. toSender' \in Seq(FromReceiver) /\ AcksArePromised
      BY <2>1, <2>3, ReplyFacts
    <2> QED BY <1>1, <1>2, <2>4, <2>5, <2>6, PromotedFacts, ReceiverActs
  <1> QED BY <1>3, <1>4

LEMMA AcceptInv ==
  ASSUME TransferInv, Accept
  PROVE  TransferInv'
  <1> PICK chunk : chunk = Head(toReceiver)
    OBVIOUS
  <1> PICK i : i = chunk.entry
    OBVIOUS
  <1> PICK bytes : bytes = partial[i] \o chunk.bytes
    OBVIOUS
  <1> DEFINE fits == ~ final[i] /\ chunk.offset = receiver.received[i] /\ Len(bytes) <= Size[i]
             full == Len(bytes) = Size[i]
  <1>1. /\ receiver.phase = "reading" /\ toReceiver # << >> /\ chunk.kind = "chunk"
        /\ toReceiver' = Tail(toReceiver)
        /\ UNCHANGED <<source, sender, incoming, toSender, cancelled>>
    BY DEF Accept, NextFrame
  <1>2. /\ partial' = IF fits THEN [partial EXCEPT ![i] = bytes] ELSE partial
        /\ final' = [final EXCEPT ![i] = @ \/ (fits /\ full /\ Verified(i, bytes))]
        /\ IF fits /\ (full => Verified(i, bytes))
           THEN receiver' = [receiver EXCEPT !.phase = "receiving",
                               !.received = [@ EXCEPT ![i] = Len(bytes)]]
           ELSE ReceiverEnds("failed")
    BY DEF Accept
  <1>3. /\ Shape /\ receiver \in ReceiverState /\ receiver.received \in Offsets
        /\ \A j \in Entries : /\ receiver.received[j] = Len(partial[j])
                              /\ Len(partial[j]) = Size[j] => final[j]
        /\ final \in [Entries -> BOOLEAN] /\ partial \in [Entries -> Bytes]
    BY <1>1 DEF TransferInv, InMemory, Shape
  <1>4. i \in Entries /\ bytes \in Bytes /\ Len(bytes) \in Nat
    <2>1. chunk \in FromSender
      BY <1>1, TailFacts DEF TransferInv, Shape
    <2>2. i \in Entries /\ chunk.bytes \in Bytes
      BY <1>1, <2>1 DEF FromSender
    <2>3. partial[i] \in Bytes
      BY <1>3, <2>2
    <2>4. \A s, t \in Seq(Units) : s \o t \in Seq(Units) /\ Len(s \o t) \in Nat
      OBVIOUS
    <2> QED BY <2>2, <2>3, <2>4, Zenon DEF Bytes
  <1> HIDE DEF fits, full
  <1>5. toReceiver' \in Seq(FromSender) /\ toSender' \in Seq(FromReceiver) /\ AcksArePromised
    BY <1>1, <1>3, FrameTaken, NoReplyFacts
  <1>6. /\ partial' \in [Entries -> Bytes] /\ final' \in [Entries -> BOOLEAN]
        /\ partial'[i] = IF fits THEN bytes ELSE partial[i]
        /\ final'[i] <=> final[i] \/ (fits /\ full /\ Verified(i, bytes))
        /\ \A j \in Entries \ {i} : partial'[j] = partial[j] /\ final'[j] = final[j]
    BY <1>2, <1>3, <1>4
  <1>7. OnDisk'
    BY <1>4, <1>6 DEF TransferInv, OnDisk, Verified, fits
  <1>8. receiver' \in ReceiverState /\ receiver'.phase \in {"receiving", "ended"} /\ InMemory'
    <2>1. CASE ReceiverEnds("failed")
      BY <1>3, <2>1, ReceiverEndsFacts DEF Results
    <2>2. CASE ~ ReceiverEnds("failed")
      <3> PICK received : received = [receiver.received EXCEPT ![i] = Len(bytes)]
        OBVIOUS
      <3>1. /\ fits /\ (full => Verified(i, bytes))
            /\ receiver' = [receiver EXCEPT !.phase = "receiving", !.received = received]
        BY <1>2, <2>2
      <3>2. received \in Offsets /\ received[i] = Len(bytes)
            /\ \A j \in Entries \ {i} : received[j] = receiver.received[j]
        BY <1>3, <1>4 DEF Offsets
      <3>3. /\ receiver' \in ReceiverState /\ receiver'.phase = "receiving"
            /\ receiver'.received = received
        BY <1>3, <3>1, <3>2 DEF ReceiverState, Phases
      <3>4. \A j \in Entries : /\ received[j] = Len(partial'[j])
                               /\ Len(partial'[j]) = Size[j] => final'[j]
        <4> SUFFICES ASSUME NEW j \in Entries
                     PROVE  /\ received[j] = Len(partial'[j])
                            /\ Len(partial'[j]) = Size[j] => final'[j]
          OBVIOUS
        <4>1. CASE j = i
          <5>1. partial'[i] = bytes
            BY <1>6, <3>1
          <5>2. full => final'[i]
            BY <1>6, <3>1
          <5> QED BY <3>2, <4>1, <5>1, <5>2 DEF full
        <4>2. CASE j # i
          BY <1>3, <1>6, <3>2, <4>2
        <4> QED BY <4>1, <4>2
      <3> QED BY <3>2, <3>3, <3>4 DEF InMemory
    <2> QED BY <2>1, <2>2
  <1>9. Shape'
    BY <1>1, <1>5, <1>6, <1>8 DEF TransferInv, Shape
  <1>10. Promised'
    BY <1>1, <1>5, <1>8 DEF TransferInv, Promised, Published, AcksArePromised
  <1> QED BY <1>7, <1>8, <1>9, <1>10 DEF TransferInv

LEMMA PublishInv ==
  ASSUME TransferInv, Publish
  PROVE  TransferInv' /\ partial = Manifest
  <1>1. /\ receiver.phase = "publishing" /\ receiver \in ReceiverState
        /\ incoming \in Seq({Foreign, Manifest}) /\ partial \in [Entries -> Bytes] /\ Shape
        /\ receiver.name \in Nat \ {0}
    BY DEF Publish, TransferInv, InMemory, Shape, ReceiverState
  <1>2. partial = Manifest
    BY <1>1 DEF TransferInv, InMemory, OnDisk, Manifest
  <1>3. /\ incoming' = IF Taken THEN [incoming EXCEPT ![receiver.name] = Manifest]
                       ELSE Append(incoming, Manifest)
        /\ partial' = [i \in Entries |-> << >>] /\ final' = [i \in Entries |-> FALSE]
        /\ receiver' = [receiver EXCEPT !.phase = "published"]
        /\ UNCHANGED <<source, sender, toReceiver, toSender, cancelled>>
    BY <1>2 DEF Publish, wires
  <1>4. incoming' \in Seq({Foreign, Manifest}) /\ Published'
    <2>1. CASE Taken
      <3>1. receiver.name \in 1..Len(incoming)
        BY <1>1, <2>1 DEF Taken
      <3>2. incoming' = [incoming EXCEPT ![receiver.name] = Manifest]
        BY <1>3, <2>1
      <3>3. incoming' \in Seq({Foreign, Manifest}) /\ DOMAIN incoming' = DOMAIN incoming
            /\ receiver.name \in DOMAIN incoming /\ incoming'[receiver.name] = Manifest
        BY <1>1, <3>1, <3>2
      <3> QED BY <3>3 DEF Published
    <2>2. CASE ~ Taken
      <3>1. incoming' = Append(incoming, Manifest)
        BY <1>3, <2>2
      <3> QED BY <1>1, <3>1, AppendFacts DEF Published
    <2> QED BY <2>1, <2>2
  <1>5. receiver' \in ReceiverState /\ receiver'.phase = "published"
    BY <1>1, <1>3 DEF ReceiverState, Phases
  <1>6. partial' \in [Entries -> Bytes] /\ final' \in [Entries -> BOOLEAN]
    BY <1>3 DEF Bytes
  <1>7. Shape'
    BY <1>3, <1>4, <1>5, <1>6 DEF TransferInv, Shape
  <1>8. OnDisk'
    BY <1>3, WholeFacts DEF OnDisk
  <1>9. InMemory'
    BY <1>5 DEF InMemory
  <1>10. Promised'
    BY <1>4 DEF Promised
  <1> QED BY <1>2, <1>7, <1>8, <1>9, <1>10 DEF TransferInv

LEMMA ReceiverStepInv ==
  ASSUME TransferInv, ReceiverStep
  PROVE  TransferInv'
  <1>1. /\ Shape /\ receiver \in ReceiverState
        /\ final \in [Entries -> BOOLEAN] /\ \A i \in Entries : final[i] => partial[i] = Whole(i)
        /\ toReceiver \in Seq(FromSender)
    BY DEF TransferInv, Shape, OnDisk
  <1>2. ASSUME UNCHANGED <<source, sender, disk, cancelled>>,
               toReceiver' \in Seq(FromSender),
               toSender' \in Seq(FromReceiver) /\ AcksArePromised,
               receiver' \in ReceiverState, InMemory', receiver'.phase # "published"
        PROVE  TransferInv'
    <2>1. UNCHANGED <<partial, final, incoming>>
      BY <1>2 DEF disk
    <2> QED BY <1>1, <1>2, <2>1, ReceiverActs
  <1>3. CASE AwaitFrame
    <2>1. /\ receiver.phase = "receiving" /\ receiver' = [receiver EXCEPT !.phase = "reading"]
          /\ UNCHANGED <<source, sender, disk, toReceiver, toSender, cancelled>>
      BY <1>3 DEF AwaitFrame, wires
    <2>2. /\ receiver' \in ReceiverState /\ receiver'.phase = "reading"
          /\ receiver'.received = receiver.received
      BY <1>1, <2>1 DEF ReceiverState, Phases
    <2>3. InMemory'
      BY <2>1, <2>2 DEF TransferInv, InMemory, disk
    <2> QED BY <1>1, <1>2, <2>1, <2>2, <2>3, NoReplyFacts
  <1>4. CASE ReceiverCancels
    <2>1. [kind |-> "cancel"] \in FromReceiver
      BY DEF FromReceiver
    <2>2. /\ Reply([kind |-> "cancel"]) /\ ReceiverEnds("cancelled")
          /\ UNCHANGED <<source, sender, disk, toReceiver, cancelled>>
      BY <1>4 DEF ReceiverCancels
    <2>3. toSender' \in Seq(FromReceiver) /\ AcksArePromised
      BY <2>1, <2>2, ReplyFacts
    <2> QED BY <1>1, <1>2, <2>2, <2>3, ReceiverEndsFacts DEF Results
  <1>5. CASE ReceiverReadsCancel
    <2>1. /\ ReceiverEnds("cancelled") /\ toReceiver # << >> /\ toReceiver' = Tail(toReceiver)
          /\ UNCHANGED <<source, sender, disk, toSender, cancelled>>
      BY <1>5 DEF ReceiverReadsCancel, NextFrame
    <2>2. toReceiver' \in Seq(FromSender)
      BY <1>1, <2>1, FrameTaken
    <2> QED BY <1>1, <1>2, <2>1, <2>2, NoReplyFacts, ReceiverEndsFacts DEF Results
  <1>6. CASE ChooseDestination
    <2> PICK name : name = Len(incoming) + 1
      OBVIOUS
    <2>1. /\ receiver.phase = "receiving" /\ Missing = {}
          /\ receiver' = [receiver EXCEPT !.phase = "publishing", !.name = name]
          /\ UNCHANGED <<source, sender, disk, toReceiver, toSender, cancelled>>
      BY <1>6 DEF ChooseDestination, wires
    <2>2. name \in Nat /\ name # 0
      BY DEF TransferInv, Shape
    <2>3. /\ receiver' \in ReceiverState /\ receiver'.phase = "publishing"
          /\ receiver'.received = receiver.received /\ receiver'.name = name
      BY <1>1, <2>1, <2>2 DEF ReceiverState, Phases
    <2>4. \A i \in Entries : final[i]
      <3> SUFFICES ASSUME NEW i \in Entries PROVE final[i]
        OBVIOUS
      <3>1. /\ receiver.received[i] = Len(partial[i]) /\ Len(partial[i]) <= Size[i]
            /\ Len(partial[i]) = Size[i] => final[i]
        BY <2>1 DEF TransferInv, InMemory, OnDisk
      <3>2. ~ receiver.received[i] < Size[i]
        BY <2>1 DEF Missing
      <3>3. Len(partial[i]) \in Nat /\ Size[i] \in Nat
        BY WholeFacts DEF TransferInv, Shape, Bytes
      <3> QED BY <3>1, <3>2, <3>3
    <2>5. InMemory'
      BY <2>1, <2>2, <2>3, <2>4 DEF TransferInv, InMemory, disk
    <2> QED BY <1>1, <1>2, <2>1, <2>3, <2>5, NoReplyFacts
  <1>7. CASE PublishFails \/ ReceiverFails
    <2>1. ReceiverEnds("failed")
          /\ UNCHANGED <<source, sender, disk, toReceiver, toSender, cancelled>>
      BY <1>7 DEF PublishFails, ReceiverFails, wires
    <2> QED BY <1>1, <1>2, <2>1, NoReplyFacts, ReceiverEndsFacts DEF Results
  <1>8. CASE SendAck
    <2>1. [kind |-> "ack"] \in FromReceiver
      BY DEF FromReceiver
    <2>2. /\ Reply([kind |-> "ack"]) /\ receiver' = [receiver EXCEPT !.phase = "closing"]
          /\ UNCHANGED <<source, sender, disk, toReceiver, cancelled>> /\ Published
      BY <1>8 DEF SendAck, TransferInv, Promised
    <2>3. toSender' \in Seq(FromReceiver) /\ AcksArePromised
      BY <2>1, <2>2, ReplyFacts
    <2>4. receiver' \in ReceiverState /\ receiver'.phase = "closing"
      BY <1>1, <2>2 DEF ReceiverState, Phases
    <2>5. InMemory'
      BY <2>4 DEF InMemory
    <2> QED BY <1>1, <1>2, <2>2, <2>3, <2>4, <2>5
  <1>9. CASE ReceiverSucceeds
    <2>1. ReceiverEnds("ok") /\ UNCHANGED <<source, sender, disk, toReceiver, toSender, cancelled>>
      BY <1>9 DEF ReceiverSucceeds, wires
    <2> QED BY <1>1, <1>2, <2>1, NoReplyFacts, ReceiverEndsFacts DEF Results
  <1> QED BY <1>3, <1>4, <1>5, <1>6, <1>7, <1>8, <1>9, BeginInv, AcceptInv, PublishInv
          DEF ReceiverStep
(***************************************************************************)
(* The environment.                                                        *)
(***************************************************************************)
LEMMA CloseFacts ==
  ASSUME Shape, Close
  PROVE  toReceiver' \in Seq(FromSender) /\ toSender' \in Seq(FromReceiver) /\ Fewer
  <1>1. toReceiver' \in Arrived(toReceiver) /\ toSender' \in Arrived(toSender)
    BY DEF Close
  <1> QED BY <1>1, FewerOrSame, FrameTaken

LEMMA FewerArePromised ==
  ASSUME TransferInv, Fewer
  PROVE  AcksArePromised
  BY DEF TransferInv, Promised, Fewer, AcksArePromised

LEMMA EditsFacts ==
  ASSUME NEW i \in Entries
  PROVE  Edits(i) \subseteq Bytes
  <1>1. Size[i] \in Nat /\ Whole(i) \in Seq(Units)
    BY WholeFacts DEF Bytes
  <1>2. Changed \in Units
    BY DEF Units
  <1>3. [unit \in 1..Size[i] |-> Changed] \in Seq(Units)
    BY <1>1, <1>2
  <1>4. Append(Whole(i), Changed) \in Seq(Units)
    BY <1>1, <1>2, AppendFacts
  <1>5. << >> \in Seq(Units)
    OBVIOUS
  <1> QED BY <1>1, <1>3, <1>4, <1>5 DEF Edits, Bytes

LEMMA EnvironmentInv ==
  ASSUME TransferInv, Environment \/ Exit \/ Retry
  PROVE  TransferInv'
  <1>1. /\ Shape /\ source \in [Entries -> Bytes] /\ sender \in SenderState
        /\ sender.phase = "sending" => sender.offsets \in Offsets
        /\ receiver \in ReceiverState /\ cancelled \subseteq {"sender", "receiver"}
        /\ final \in [Entries -> BOOLEAN] /\ \A i \in Entries : final[i] => partial[i] = Whole(i)
        /\ sender.result = "ok" => Published
        /\ incoming \in Seq({Foreign, Manifest})
    BY DEF TransferInv, Shape, OnDisk, Promised
  <1>2. CASE Exit \/ LoseConnection
    <2>1. Close /\ UNCHANGED <<source, sender, receiver, disk, cancelled>>
      BY <1>2 DEF Exit, LoseConnection
    <2> QED BY <1>1, <2>1, CloseFacts, Elsewhere
  <1>3. CASE CrashReceiver
    <2>1. /\ ReceiverEnds("failed") /\ (Close \/ UNCHANGED <<toReceiver, toSender>>)
          /\ UNCHANGED <<source, sender, partial, final, incoming, cancelled>>
      BY <1>3 DEF CrashReceiver, disk, wires
    <2>2. toReceiver' \in Seq(FromSender) /\ toSender' \in Seq(FromReceiver) /\ Fewer
      BY <1>1, <2>1, CloseFacts, FewerOrSame, FrameTaken
    <2>3. receiver' \in ReceiverState /\ receiver'.phase = "ended" /\ InMemory'
      BY <1>1, <2>1, ReceiverEndsFacts DEF Results
    <2> QED BY <1>1, <2>1, <2>2, <2>3, FewerArePromised, ReceiverActs
  <1>4. CASE DiskFull
    <2>1. /\ ReceiverEnds("failed") /\ toReceiver # << >> /\ toReceiver' = Tail(toReceiver)
          /\ final' = Promoted /\ UNCHANGED <<source, sender, partial, incoming, toSender, cancelled>>
      BY <1>4 DEF DiskFull, NextFrame
    <2>2. receiver' \in ReceiverState /\ receiver'.phase = "ended" /\ InMemory'
      BY <1>1, <2>1, ReceiverEndsFacts DEF Results
    <2>3. toReceiver' \in Seq(FromSender)
      BY <1>1, <2>1, FrameTaken
    <2> QED BY <1>1, <2>1, <2>2, <2>3, PromotedFacts, NoReplyFacts, ReceiverActs
  <1>5. CASE ForeignPublish
    <2>1. /\ incoming' = Append(incoming, Foreign)
          /\ UNCHANGED <<source, sender, receiver, partial, final, toReceiver, toSender, cancelled>>
      BY <1>5 DEF ForeignPublish, wires
    <2>2. incoming' \in Seq({Foreign, Manifest}) /\ (Published => Published')
      BY <1>1, <2>1, AppendFacts DEF Published
    <2>3. Shape'
      BY <2>1, <2>2 DEF TransferInv, Shape
    <2>4. OnDisk' /\ InMemory'
      BY <2>1 DEF TransferInv, OnDisk, InMemory
    <2>5. Promised'
      BY <2>1, <2>2 DEF TransferInv, Promised
    <2> QED BY <2>3, <2>4, <2>5 DEF TransferInv
  <1>6. ASSUME NEW side \in {"sender", "receiver"}, Cancel(side)
        PROVE  TransferInv'
    <2>1. /\ cancelled' = cancelled \cup {side}
          /\ UNCHANGED <<source, sender, receiver, disk, toReceiver, toSender>>
      BY <1>6 DEF Cancel, wires
    <2>2. cancelled' \subseteq {"sender", "receiver"}
      BY <1>1, <2>1
    <2> QED BY <1>1, <2>1, <2>2, FewerOrSame, FrameTaken, Elsewhere
  <1>7. ASSUME NEW i \in Entries, ChangeSource(i)
        PROVE  TransferInv'
    <2>1. UNCHANGED <<sender, receiver, disk, toReceiver, toSender, cancelled>>
      BY <1>7 DEF ChangeSource, wires
    <2>2. source' \in [Entries -> Bytes]
      BY <1>1, <1>7, EditsFacts DEF ChangeSource
    <2> QED BY <1>1, <2>1, <2>2, FewerOrSame, FrameTaken, Elsewhere
  <1>8. CASE Retry
    <2>1. /\ sender' = IdleSender /\ receiver' = Listening /\ cancelled' = {}
          /\ toReceiver' = << >> /\ toSender' = << >>
          /\ UNCHANGED <<source, partial, final, incoming>>
      BY <1>8 DEF Retry, disk
    <2>2. /\ sender' \in SenderState /\ sender'.phase = "idle" /\ sender'.result = "none"
          /\ receiver' \in ReceiverState /\ receiver'.phase = "listening"
      BY <2>1 DEF IdleSender, Listening, SenderState, ReceiverState, Phases, Results
    <2>3. toReceiver' \in Seq(FromSender) /\ toSender' \in Seq(FromReceiver) /\ Fewer
      BY <1>1, <2>1, FewerOrSame, FrameTaken
    <2>4. Shape'
      BY <2>1, <2>2, <2>3 DEF TransferInv, Shape
    <2>5. OnDisk' /\ InMemory'
      BY <2>1, <2>2 DEF TransferInv, OnDisk, InMemory
    <2>6. Promised'
      BY <2>1, <2>2 DEF Promised
    <2> QED BY <2>4, <2>5, <2>6 DEF TransferInv
  <1> QED BY <1>2, <1>3, <1>4, <1>5, <1>6, <1>7, <1>8 DEF Environment

LEMMA InitInv ==
  ASSUME Init
  PROVE  TransferInv
  <1>1. \A i \in Entries : Whole(i) \in Bytes /\ << >> \in Bytes /\ Size[i] \in Nat
    BY WholeFacts DEF Bytes
  <1>2. /\ sender \in SenderState /\ sender.phase = "idle" /\ sender.result = "none"
        /\ receiver \in ReceiverState /\ receiver.phase = "listening"
    BY DEF Init, IdleSender, Listening, SenderState, ReceiverState, Phases, Results
  <1>3. /\ incoming \in Seq({Foreign, Manifest})
        /\ toReceiver \in Seq(FromSender) /\ toSender \in Seq(FromReceiver)
    <2>1. \A S : << >> \in Seq(S)
      OBVIOUS
    <2>2. incoming = << >> /\ toReceiver = << >> /\ toSender = << >>
      BY DEF Init
    <2> QED BY <2>1, <2>2, Zenon
  <1>4. source \in [Entries -> Bytes] /\ partial \in [Entries -> Bytes] /\ final \in [Entries -> BOOLEAN]
    BY <1>1 DEF Init, Manifest
  <1>5. Shape
    BY <1>2, <1>3, <1>4 DEF Shape, Init
  <1>6. OnDisk
    BY <1>1 DEF OnDisk, Init
  <1>7. InMemory
    BY <1>2 DEF InMemory
  <1>8. Promised
    BY <1>2 DEF Promised, Init
  <1> QED BY <1>5, <1>6, <1>7, <1>8 DEF TransferInv

\* What a transfer rests on: through every attempt, crash, full disk and change
\* of the source, renamed entries are whole, a running receiver's offsets are
\* what is on disk, and an acknowledgement stands for a published copy.
THEOREM TransferInvariant == Spec => []TransferInv
  <1>1. Init => TransferInv
    BY InitInv
  <1>2. TransferInv /\ [Next]_vars => TransferInv'
    <2>1. CASE UNCHANGED vars
      <3>1. ASSUME TransferInv, UNCHANGED vars
            PROVE  TransferInv'
        <4>1. /\ UNCHANGED <<source, sender, receiver, disk, toReceiver, toSender, cancelled>>
              /\ Shape /\ source \in [Entries -> Bytes] /\ sender \in SenderState
              /\ sender.phase = "sending" => sender.offsets \in Offsets
              /\ cancelled \subseteq {"sender", "receiver"}
              /\ sender.result = "ok" => Published
          BY <3>1 DEF vars, disk, TransferInv, Shape, Promised
        <4> QED BY <3>1, <4>1, FewerOrSame, FrameTaken, Elsewhere
      <3> QED BY <2>1, <3>1
    <2>2. CASE Next
      BY <2>2, SenderStepInv, ReceiverStepInv, EnvironmentInv DEF Next
    <2> QED BY <2>1, <2>2
  <1> QED BY <1>1, <1>2, PTL DEF Spec
(***************************************************************************)
(* The promise is kept: every step of a transfer is a step of              *)
(* AtomicDelivery, or leaves the copies and what the sender knows alone.   *)
(***************************************************************************)
\* A sender has its result when it has ended, and only an attempt that has not
\* succeeded is followed by another.
ToldAtTheEnd == sender.result = "ok" => sender.phase = "ended"

LEMMA ToldFacts ==
  ASSUME sender \in SenderState, ToldAtTheEnd, [Next]_vars
  PROVE  /\ ToldAtTheEnd'
         /\ sender.result = "ok" => UNCHANGED sender
         /\ sender'.result = "ok" /\ sender.result # "ok" => SenderReadsAck
  <1>1. CASE UNCHANGED sender
    BY <1>1 DEF ToldAtTheEnd
  <1>2. CASE ~ UNCHANGED sender
    <2>1. SenderStep \/ Retry
      BY <1>2 DEF Next, vars, ReceiverStep, Environment, Begin, AwaitFrame, ReceiverCancels, Accept,
         ReceiverReadsCancel, ChooseDestination, Publish, PublishFails, SendAck, ReceiverSucceeds,
         ReceiverFails, Exit, LoseConnection, CrashReceiver, DiskFull, ForeignPublish, Cancel,
         ChangeSource
    <2>2. CASE Retry
      BY <2>2 DEF Retry, IdleSender, ToldAtTheEnd
    <2>3. CASE SendOffer \/ ReadResume \/ SendChunk
      <3>1. sender.phase # "ended" /\ sender'.result = sender.result
        <4>1. CASE SendOffer
          BY <4>1 DEF SendOffer, SenderState
        <4>2. CASE ReadResume
          BY <4>2 DEF ReadResume, SenderState
        <4>3. CASE SendChunk
          BY <4>3 DEF SendChunk, Sending, SenderState
        <4> QED BY <2>3, <4>1, <4>2, <4>3
      <3> QED BY <3>1 DEF ToldAtTheEnd
    <2>4. CASE SourceRanOut \/ SendCancel \/ SenderReadsCancel \/ SenderFails
      <3>1. sender.phase # "ended" /\ (SenderEnds("failed") \/ SenderEnds("cancelled"))
        BY <2>4 DEF SourceRanOut, SendCancel, SenderReadsCancel, SenderFails, Sending
      <3>2. sender'.result # "ok"
        BY <3>1 DEF SenderEnds, SenderState
      <3> QED BY <3>1, <3>2 DEF ToldAtTheEnd
    <2>5. CASE SenderReadsAck
      <3>1. sender.phase # "ended" /\ SenderEnds("ok")
        BY <2>5 DEF SenderReadsAck
      <3>2. sender'.phase = "ended"
        BY <3>1 DEF SenderEnds, SenderState
      <3> QED BY <2>5, <3>1, <3>2 DEF ToldAtTheEnd
    <2> QED BY <2>1, <2>2, <2>3, <2>4, <2>5 DEF SenderStep
  <1> QED BY <1>1, <1>2

LEMMA IncomingFacts ==
  ASSUME [Next]_vars, ~ UNCHANGED incoming
  PROVE  Publish \/ ForeignPublish
  BY DEF Next, vars, disk, SenderStep, SendOffer, ReadResume, SendChunk, SourceRanOut, SendCancel,
     SenderReadsCancel, SenderReadsAck, SenderFails, ReceiverStep, Environment, Begin, AwaitFrame,
     ReceiverCancels, Accept, ReceiverReadsCancel, ChooseDestination, PublishFails, SendAck,
     ReceiverSucceeds, ReceiverFails, Exit, Retry, LoseConnection, CrashReceiver, DiskFull, Cancel,
     ChangeSource

Copies == [name \in Names |-> incoming[name]]

LEMMA DeliveryStep ==
  ASSUME TransferInv, ToldAtTheEnd, [Next]_vars
  PROVE  \/ Delivery!Publish \/ Delivery!Tell
         \/ UNCHANGED <<Copies, sender.result = "ok">>
  <1>1. sender \in SenderState /\ incoming \in Seq({Foreign, Manifest})
        /\ (sender.result = "ok" => Published)
    BY DEF TransferInv, Shape, Promised
  <1>2. CASE UNCHANGED incoming
    <2>1. Names' = Names /\ Copies' = Copies
      BY <1>2 DEF Names, Copies
    <2>2. CASE SenderReadsAck
      <3>1. Published' /\ sender'.result = "ok"
        <4>1. SenderEnds("ok") /\ TransferInv'
          BY <2>2, SenderStepInv DEF SenderReadsAck, SenderStep
        <4>2. sender'.result = "ok"
          BY <1>1, <4>1, SenderEndsFacts DEF Results, TransferInv
        <4> QED BY <4>1, <4>2 DEF TransferInv, Promised
      <3>2. Names # {}
        BY <1>2, <3>1, ManifestIsNotForeign DEF Published, Names
      <3> QED BY <2>1, <3>1, <3>2 DEF Delivery!Tell, Copies
    <2>3. CASE ~ SenderReadsAck
      <3>1. (sender'.result = "ok") <=> (sender.result = "ok")
        BY <1>1, <2>3, ToldFacts
      <3> QED BY <2>1, <3>1
    <2> QED BY <2>2, <2>3
  <1>3. CASE ~ UNCHANGED incoming
    <2>1. UNCHANGED sender
      BY <1>3, IncomingFacts DEF Publish, ForeignPublish
    <2>2. CASE ForeignPublish
      <3>1. incoming' = Append(incoming, Foreign)
        BY <2>2 DEF ForeignPublish
      <3>2. Names' = Names /\ \A name \in Names : incoming'[name] = incoming[name]
        BY <1>1, <3>1, AppendFacts DEF Names
      <3> QED BY <2>1, <3>2 DEF Copies
    <2>3. CASE Publish
      <3>1. /\ incoming' = IF Taken THEN [incoming EXCEPT ![receiver.name] = Manifest]
                           ELSE Append(incoming, Manifest)
            /\ receiver.name \in Nat \ {0}
        BY <2>3, PublishInv DEF Publish, TransferInv, InMemory, Shape, ReceiverState
      <3> PICK new : new = IF Taken THEN receiver.name ELSE Len(incoming) + 1
        OBVIOUS
      <3>2. /\ DOMAIN incoming' = DOMAIN incoming \cup {new} /\ incoming'[new] = Manifest
            /\ \A name \in DOMAIN incoming \ {new} : incoming'[name] = incoming[name]
        <4>1. CASE Taken
          <5>1. new \in DOMAIN incoming /\ incoming' = [incoming EXCEPT ![new] = Manifest]
            BY <1>1, <3>1, <4>1 DEF Taken
          <5>2. DOMAIN incoming \cup {new} = DOMAIN incoming
            BY <5>1, Zenon
          <5>3. DOMAIN incoming' = DOMAIN incoming
            BY <5>1, Zenon
          <5>4. incoming'[new] = Manifest
            BY <5>1, Zenon
          <5>5. \A name \in DOMAIN incoming \ {new} : incoming'[name] = incoming[name]
            BY <5>1, Zenon
          <5> QED BY <5>2, <5>3, <5>4, <5>5, Zenon
        <4>2. CASE ~ Taken
          <5>1. new = Len(incoming) + 1 /\ incoming' = Append(incoming, Manifest)
            BY <3>1, <4>2
          <5> QED BY <1>1, <5>1, AppendFacts
        <4> QED BY <4>1, <4>2
      <3>3. Names' = Names \cup {new}
        BY <3>2, ManifestIsNotForeign DEF Names
      <3>4. CASE new \in Names
        <4>1. incoming[new] = Manifest
          BY <1>1, <3>4 DEF Names
        <4>2. Names' = Names /\ \A name \in Names : incoming'[name] = incoming[name]
          BY <3>2, <3>3, <3>4, <4>1 DEF Names
        <4> QED BY <2>1, <4>2 DEF Copies
      <3>5. CASE new \notin Names
        <4>1. Copies' = [name \in Names \cup {new} |->
                            IF name = new THEN Manifest ELSE Copies[name]]
          BY <3>2, <3>3, <3>5 DEF Copies, Names
        <4>2. new \in DOMAIN Copies' \ DOMAIN Copies /\ DOMAIN Copies = Names
          BY <3>3, <3>5 DEF Copies
        <4> QED BY <2>1, <4>1, <4>2 DEF Delivery!Publish, Copies
      <3> QED BY <3>4, <3>5
    <2> QED BY <1>3, <2>2, <2>3, IncomingFacts
  <1> QED BY <1>2, <1>3

\* "Acknowledge only after every file passes its digest and the transfer is
\* atomically published": for any manifest and any number of attempts, faults
\* and changes of the source, only whole copies of the manifest's content are
\* published, they stay, and the sender succeeds only once there is one.
THEOREM TransferDelivers == Spec => Delivers
  <1>1. Init => Delivery!Init /\ ToldAtTheEnd
    BY DEF Init, Delivery!Init, Names, IdleSender, ToldAtTheEnd
  <1>2. TransferInv /\ ToldAtTheEnd /\ [Next]_vars => ToldAtTheEnd'
    BY ToldFacts DEF TransferInv, Shape
  <1>3. TransferInv /\ ToldAtTheEnd /\ [Next]_vars
        => [Delivery!Next]_<<[name \in Names |-> incoming[name]], sender.result = "ok">>
    BY DeliveryStep DEF Delivery!Next, Copies
  <1> QED BY <1>1, <1>2, <1>3, TransferInvariant, PTL DEF Spec, Delivers, Delivery!Spec

\* "Published without overwriting an existing destination": a folder, or a set
\* of several files, never replaces what another transfer has published.  A
\* single file may (the run of MCFileCollision).
THEOREM FoldersReplaceNothing ==
  ASSUME ~ SingleFile
  PROVE  Spec => NoOverwrite
  <1>1. ASSUME TransferInv, [Next]_vars
        PROVE  [Keeps]_incoming
    <2>1. incoming \in Seq({Foreign, Manifest})
      BY <1>1 DEF TransferInv, Shape
    <2>2. ASSUME NEW item, incoming' = Append(incoming, item)
          PROVE  Keeps
      <3>1. /\ Len(incoming) <= Len(Append(incoming, item))
            /\ SubSeq(incoming, 1, Len(incoming)) = SubSeq(Append(incoming, item), 1, Len(incoming))
        BY <2>1
      <3> QED BY <2>2, <3>1 DEF Keeps, IsPrefix
    <2>3. CASE Publish
      BY <1>1, <2>2, <2>3 DEF Publish, Renames, Taken
    <2>4. CASE ForeignPublish
      BY <2>2, <2>4 DEF ForeignPublish
    <2> QED BY <1>1, <2>3, <2>4, IncomingFacts
  <1> QED BY <1>1, TransferInvariant, PTL DEF Spec, NoOverwrite

\* Phases, results and offsets stay in their ranges, and while a receiver runs
\* its offsets are the lengths on disk and the renamed entries are the full ones.
THEOREM TransferTypeCorrect == Spec => []TypeOK
  <1>1. TransferInv => TypeOK
    <2>1. ASSUME TransferInv, NEW i \in Entries
          PROVE  /\ Len(partial[i]) <= Size[i]
                 /\ receiver.phase \in {"receiving", "reading", "publishing"} =>
                      /\ receiver.received[i] = Len(partial[i])
                      /\ final[i] <=> Len(partial[i]) = Size[i]
      BY <2>1, WholeFacts DEF TransferInv, OnDisk, InMemory
    <2>2. ASSUME TransferInv
          PROVE  /\ sender.phase \in {"idle", "offered", "sending", "ended"} /\ sender.result \in Results
                 /\ receiver.phase \in Phases /\ receiver.result \in Results
                 /\ cancelled \subseteq {"sender", "receiver"}
      BY <2>2 DEF TransferInv, Shape, SenderState, ReceiverState
    <2> QED BY <2>1, <2>2 DEF TypeOK
  <1> QED BY <1>1, TransferInvariant, PTL
=============================================================================
