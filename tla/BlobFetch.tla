------------------------------ MODULE BlobFetch ------------------------------
(***************************************************************************)
(* The fetch of one clipboard blob from a peer: BlobReceiver of network/   *)
(* src/blob.rs as request_blob and serve of network/src/session.rs drive   *)
(* it.  Chunks are appended to a partial file that outlives the fetch; the *)
(* whole file is hashed and renamed to its name.                           *)
(*                                                                         *)
(* The content is the sequence 1..BlobSize of its units, and a unit the    *)
(* disk has lost is Wrong.  A fetch begins when an event with the blob is  *)
(* offered, and an interrupted one ends its session: whether the content   *)
(* is ever offered again is up to the users.  Sessions with several peers  *)
(* may fetch one blob at once, into one file.  A fetch that finds a        *)
(* published file only reads it: it is complete or fails, and changes      *)
(* nothing.                                                                *)
(***************************************************************************)
EXTENDS Naturals, Sequences

CONSTANTS
    BlobSize, ChunkSize,   \* in units
    Fetchers,              \* sessions that may fetch the blob
    NoFile, Wrong,
    MaxBlobFaults          \* bound on interruptions and crashes

ASSUME BlobFetchAssumption ==
    /\ BlobSize \in Nat \ {0} /\ ChunkSize \in Nat \ {0}
    /\ Wrong \notin 1..BlobSize
    /\ MaxBlobFaults \in Nat

VARIABLES
    partial,     \* the file .<hash>.partial
    final,       \* the file <hash>
    fetch,       \* fetch[f]: the receiver of f
    shared,      \* history: the fetches of late have overlapped
    blobFaults

blobVars == <<partial, final, fetch, shared, blobFaults>>

Whole == [n \in 1..BlobSize |-> n]
NoFetch == [phase |-> "idle", received |-> 0, file |-> "none"]

BlobInit ==
    /\ partial = NoFile /\ final = NoFile
    /\ fetch = [f \in Fetchers |-> NoFetch]
    /\ shared = FALSE
    /\ blobFaults = 0

FetchOver(f) == fetch' = [fetch EXCEPT ![f] = NoFetch]
FetchGoes(f, phase) == fetch' = [fetch EXCEPT ![f].phase = phase]

\* An open file follows a rename of the partial file, and stays open without a
\* name when that is removed or replaced.
Renamed(from, to) == [f \in Fetchers |->
    [fetch[f] EXCEPT !.file = IF @ = from THEN to ELSE IF @ = to THEN "unlinked" ELSE @]]

(***************************************************************************)
(* One fetch.                                                              *)
(***************************************************************************)
\* begin looks for both files, and takes the length of the partial one for what
\* it need not ask for; a longer one than the blob is an error.  The fetch is the
\* first of those that follow if it begins alone.
BeginFetch(f) ==
    /\ fetch[f].phase = "idle"
    /\ final = NoFile
    /\ LET found == IF partial = NoFile THEN 0 ELSE Len(partial)
       IN  /\ found <= BlobSize
           /\ fetch' = [fetch EXCEPT ![f] =
                           [phase |-> "opening", received |-> found, file |-> "none"]]
    /\ shared' = (\E g \in Fetchers : fetch[g].phase # "idle")
    /\ UNCHANGED <<partial, final, blobFaults>>

\* The partial file is opened, or created if it has gone meanwhile.  One with
\* every byte goes to the hash at once.
OpenPartial(f) ==
    /\ fetch[f].phase = "opening"
    /\ partial' = IF partial = NoFile THEN << >> ELSE partial
    /\ fetch' = [fetch EXCEPT
                    ![f].phase = IF fetch[f].received = BlobSize THEN "full" ELSE "streaming",
                    ![f].file = "partial"]
    /\ UNCHANGED <<final, shared, blobFaults>>

\* The peer serves its file from the offset of the request, chunk after chunk.
Chunk(offset) ==
    LET ending == IF offset + ChunkSize > BlobSize THEN BlobSize ELSE offset + ChunkSize
    IN  [n \in 1..(ending - offset) |-> offset + n]

AppendTo(f, units) ==
    /\ partial' = IF fetch[f].file = "partial" THEN partial \o units ELSE partial
    /\ final' = IF fetch[f].file = "final" THEN final \o units ELSE final

AcceptChunk(f) ==
    /\ fetch[f].phase = "streaming"
    /\ LET chunk == Chunk(fetch[f].received)
           ending == fetch[f].received + Len(chunk)
       IN  /\ AppendTo(f, chunk)
           /\ fetch' = [fetch EXCEPT ![f].received = ending,
                                     ![f].phase = IF ending = BlobSize THEN "full" ELSE @]
    /\ UNCHANGED <<shared, blobFaults>>

\* finalize: a partial file with the wrong hash is removed, and the fetch fails.
\* Faulty: it is left for the next fetch to resume.
LeftToResume(file) == file
Discarded(file) == NoFile

VerifyBlob(f) ==
    /\ fetch[f].phase = "full"
    /\ IF partial = Whole
       THEN FetchGoes(f, "verified") /\ UNCHANGED partial
       ELSE /\ partial' = Discarded(partial)
            /\ fetch' = [Renamed("partial", "unlinked") EXCEPT ![f] = NoFetch]
    /\ UNCHANGED <<final, shared, blobFaults>>

\* Without a partial file another fetch has published the blob, or both failed.
PublishBlob(f) ==
    /\ fetch[f].phase = "verified"
    /\ IF partial = NoFile
       THEN FetchOver(f) /\ UNCHANGED <<partial, final>>
       ELSE /\ final' = partial /\ partial' = NoFile
            /\ fetch' = [Renamed("partial", "final") EXCEPT ![f] = NoFetch]
    /\ UNCHANGED <<shared, blobFaults>>

(***************************************************************************)
(* Failures.                                                               *)
(***************************************************************************)
BlobFault == blobFaults < MaxBlobFaults /\ blobFaults' = blobFaults + 1

\* The connection ends, the process dies, or the disk is full: with a chunk half
\* written, if one was being written.
InterruptFetch(f) ==
    /\ fetch[f].phase # "idle"
    /\ BlobFault
    /\ IF fetch[f].phase = "streaming"
       THEN LET chunk == Chunk(fetch[f].received)
            IN  \E written \in 0..(Len(chunk) - 1) : AppendTo(f, SubSeq(chunk, 1, written))
       ELSE UNCHANGED <<partial, final>>
    /\ FetchOver(f)
    /\ UNCHANGED shared

\* The machine stops, and the partial file loses what was not yet on the disk:
\* its end, or the content of some of its units.  A verified one has been synced.
MachineStops ==
    /\ partial # NoFile
    /\ \A f \in Fetchers : fetch[f].phase # "verified"
    /\ BlobFault
    /\ \E kept \in 0..Len(partial) : \E lost \in SUBSET (1..kept) :
          partial' = [n \in 1..kept |-> IF n \in lost THEN Wrong ELSE partial[n]]
    /\ fetch' = [f \in Fetchers |-> NoFetch]
    /\ UNCHANGED <<final, shared>>

FetchGoesOn(f) == OpenPartial(f) \/ AcceptChunk(f) \/ VerifyBlob(f) \/ PublishBlob(f)

BlobNext ==
    \/ \E f \in Fetchers : BeginFetch(f) \/ FetchGoesOn(f) \/ InterruptFetch(f)
    \/ MachineStops

\* A fetch that has begun goes on until it ends or is interrupted: its peer serves
\* it, or the connection closes.  Nothing makes a fetch begin.
BlobFairness == \A f \in Fetchers : WF_blobVars(FetchGoesOn(f))
BlobSpec == BlobInit /\ [][BlobNext]_blobVars /\ BlobFairness

(***************************************************************************)
(* Properties.                                                             *)
(***************************************************************************)
BlobTypeOK ==
    /\ {partial, final} \ {NoFile} \subseteq Seq(1..BlobSize \cup {Wrong})
    /\ \A f \in Fetchers :
          /\ fetch[f].phase \in {"idle", "opening", "streaming", "full", "verified"}
          /\ fetch[f].received \in 0..BlobSize
          /\ fetch[f].file \in {"none", "partial", "final", "unlinked"}
    /\ shared \in BOOLEAN
    /\ blobFaults \in 0..MaxBlobFaults

\* Nothing but the whole blob is found under its name, as long as the fetches that
\* led there did not overlap.
BlobIsWhole == ~shared => final \in {NoFile, Whole}

\* Fetches do not go on failing: whatever interrupted ones and crashes have left
\* in the partial file, those that follow one another publish the blob whole at
\* last, unless no session asks for it any more (BlobReceiver::begin, accept and
\* finalize: a cut chunk is resumed, a damaged file found out and fetched anew).
BlobArrives ==
    <>[]~shared =>
        \/ <>[](final = Whole)
        \/ <>[](\A f \in Fetchers : fetch[f].phase = "idle")
=============================================================================
