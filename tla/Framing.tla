------------------------------- MODULE Framing -------------------------------
(* The framing of the pipe between the Runtime and omp (ompRpcProtocol.ts):     *)
(* frames become lines, large ones the lines of a chunk sequence; lines go       *)
(* through the write queue of OmpRpcClient one at a time, the pipe hands them     *)
(* over cut anywhere, and the decoder puts them together. One direction is        *)
(* modelled; the half that omp runs is taken to follow the same protocol.         *)
EXTENDS Naturals, Sequences, SequencesExt

CONSTANTS MaxFrame,   \* OMP_RPC_MAX_FRAME_BYTES, newline included
          ChunkBytes, \* OMP_RPC_CHUNK_BYTES
          MaxWhole,   \* OMP_RPC_MAX_REASSEMBLED_FRAME_BYTES
          Lengths,    \* of the frames that are sent
          MaxFrames   \* bound: frames

ASSUME FramingAssumption ==
  /\ MaxFrame \in Nat /\ MaxWhole \in Nat /\ MaxFrames \in Nat
  /\ ChunkBytes \in Nat \ {0} /\ ChunkBytes + 2 <= MaxFrame
  /\ Lengths \subseteq Nat \ {0}

VARIABLES version, \* the protocol in use, 1 or 2
          sent,    \* history: the frames accepted for writing: [id, length]
          queue,   \* the frames being written: the lines left of each
          whole,   \* history: the frames written to the end, in that order
          pipe,    \* bytes written and not read, as [line, at]; the last one is the newline
          buffered, gathered, \* of the decoder
          got,     \* the frames it returned
          failed,  \* it threw
          ended    \* the writer is gone; "read" once the decoder knows

framingVars == <<version, sent, queue, whole, pipe, buffered, gathered, got, failed, ended>>

Least(a, b) == IF a < b THEN a ELSE b
Ceil(a, b) == (a + b - 1) \div b

\* A line's bytes: a whole frame, or the metadata of a chunk and its data; and the newline.
SizeOf(line) == line.to - line.from + (IF line.count = 1 THEN 1 ELSE 2)
BytesOf(line) == [k \in 1 .. SizeOf(line) |-> [line |-> line, at |-> k]]

\* Mutant: the rest of the payload is forgotten.
FullChunks(length) == length \div ChunkBytes

ChunkCount(length) == Ceil(length, ChunkBytes)

\* encodeOmpRpcFrame
Encode(frame) ==
  LET count == IF frame.length + 1 <= MaxFrame THEN 1 ELSE ChunkCount(frame.length) IN
  [i \in 1 .. count |->
     [frame |-> frame, index |-> i - 1, count |-> count,
      from |-> IF count = 1 THEN 0 ELSE (i - 1) * ChunkBytes,
      to |-> IF count = 1 THEN frame.length ELSE Least(i * ChunkBytes, frame.length)]]
Encodable(length) == length + 1 <= MaxFrame \/ (version = 2 /\ length <= MaxWhole)

------------------------------------------------------------------------------
(* Writing *)

\* enqueueWrite, of a frame that is not refused.
Enqueue(length) ==
  LET frame == [id |-> Len(sent) + 1, length |-> length] IN
  /\ ended = "no" /\ Len(sent) < MaxFrames
  /\ Encodable(length)
  /\ sent' = Append(sent, frame)
  /\ queue' = Append(queue, Encode(frame))
  /\ UNCHANGED <<version, whole, pipe, buffered, gathered, got, failed, ended>>

\* The protocol is negotiated; what was queued is encoded already.
Negotiate ==
  /\ version = 1 /\ version' = 2
  /\ UNCHANGED <<sent, queue, whole, pipe, buffered, gathered, got, failed, ended>>

\* Mutant: frames are written without a queue.
AnyTurn(i) == TRUE

\* writeQueue: a frame is written when the ones before it are.
HasTurn(i) == i = 1

\* writeChunk, of the next line; the stream drains before the one after it.
WriteLine(i) ==
  /\ ended = "no" /\ i \in DOMAIN queue /\ HasTurn(i)
  /\ pipe' = pipe \o BytesOf(Head(queue[i]))
  /\ IF Len(queue[i]) = 1
     THEN queue' = RemoveAt(queue, i) /\ whole' = Append(whole, Head(queue[i]).frame)
     ELSE queue' = [queue EXCEPT ![i] = Tail(@)] /\ UNCHANGED whole
  /\ UNCHANGED <<version, sent, buffered, gathered, got, failed, ended>>

\* The writer exits or its pipe breaks, perhaps within a line: every write from here on fails.
WriterEnds(cut) ==
  /\ ended = "no" /\ ended' = "yes"
  /\ pipe' = SubSeq(pipe, 1, Len(pipe) - cut)
  /\ UNCHANGED <<version, sent, queue, whole, buffered, gathered, got, failed>>

------------------------------------------------------------------------------
(* Reading *)

NothingGathered == [frame |-> [id |-> 0, length |-> 0], count |-> 0, chunks |-> <<>>]

\* parseFrame: JSON, if the bytes are a line's.
Parses(bytes) == bytes = BytesOf(bytes[1].line)

\* validateInitialChunk
ValidStart(line) ==
  /\ line.index = 0
  /\ line.count \in 2 .. Ceil(MaxWhole, ChunkBytes)
  /\ line.frame.length \in MaxFrame .. MaxWhole

Joined(chunks) == FoldLeft(LAMBDA n, c : n + (c.to - c.from), 0, chunks)

\* consumeFrame: the decoder's state after a line; throw is its error.
Consume(d, line) ==
  LET begun == IF d.gathered # NothingGathered THEN d.gathered
               ELSE [frame |-> line.frame, count |-> line.count, chunks |-> <<>>]
      chunks == Append(begun.chunks, line)
  IN IF line.count = 1
     THEN IF d.gathered # NothingGathered THEN [d EXCEPT !.throw = TRUE]
          ELSE [d EXCEPT !.frames = Append(@, line.frame)]
     ELSE IF \/ d.gathered = NothingGathered /\ ~ValidStart(line)
             \/ line.frame # begun.frame \/ line.count # begun.count
             \/ line.index # Len(begun.chunks) THEN [d EXCEPT !.throw = TRUE]
     ELSE IF Len(chunks) < begun.count THEN [d EXCEPT !.gathered = [begun EXCEPT !.chunks = chunks]]
     ELSE IF Joined(chunks) # begun.frame.length THEN [d EXCEPT !.throw = TRUE]
     ELSE [d EXCEPT !.gathered = NothingGathered, !.frames = Append(@, begun.frame)]

IsNewline(byte) == byte.at = SizeOf(byte.line)

\* One byte more: a line that is complete is parsed and consumed.
Feed(d, byte) ==
  LET line == Append(d.buffered, byte) IN
  IF d.throw THEN d
  ELSE IF ~IsNewline(byte) THEN [d EXCEPT !.buffered = line]
  ELSE IF Len(line) > MaxFrame \/ ~Parses(line) THEN [d EXCEPT !.throw = TRUE]
  ELSE Consume([d EXCEPT !.buffered = <<>>], byte.line)

\* Mutant: a line that is not complete is dropped.
NothingRemains(d) == <<>>

\* What follows the last newline waits for the next chunk.
Remainder(d) == d.buffered

\* push, of the next n bytes. If a line throws, the frames before it are lost too.
Push(n) ==
  LET d == FoldLeft(Feed, [buffered |-> buffered, gathered |-> gathered, frames |-> <<>>, throw |-> FALSE],
                    SubSeq(pipe, 1, n))
  IN /\ n \in 1 .. Len(pipe) /\ ~failed
     /\ pipe' = SubSeq(pipe, n + 1, Len(pipe))
     /\ failed' = (d.throw \/ Len(d.buffered) > MaxFrame)
     /\ IF failed' THEN UNCHANGED <<buffered, gathered, got>>
        ELSE buffered' = Remainder(d) /\ gathered' = d.gathered /\ got' = got \o d.frames
     /\ UNCHANGED <<version, sent, queue, whole, ended>>

\* finish, once the stream has ended.
Finish ==
  /\ ended = "yes" /\ pipe = <<>> /\ ~failed
  /\ ended' = "read"
  /\ failed' = (buffered # <<>> \/ gathered # NothingGathered)
  /\ UNCHANGED <<version, sent, queue, whole, pipe, buffered, gathered, got>>

FramingInit ==
  /\ version = 1 /\ sent = <<>> /\ queue = <<>> /\ whole = <<>> /\ pipe = <<>>
  /\ buffered = <<>> /\ gathered = NothingGathered /\ got = <<>> /\ failed = FALSE /\ ended = "no"

FramingNext ==
  \/ \E length \in Lengths : Enqueue(length)
  \/ Negotiate
  \/ \E i \in 1 .. MaxFrames : WriteLine(i)
  \/ \E cut \in 0 .. Least(1, Len(pipe)) : WriterEnds(cut)
  \/ \E n \in 1 .. Len(pipe) : Push(n)
  \/ Finish

------------------------------------------------------------------------------

\* The decoder returns the frames that were accepted for writing, each once, whole and in
\* their order, wherever the stream is cut and however large they are; it throws only if
\* the writer ended within a frame, and if it does not throw at the end, it returned
\* every frame that was written (ompRpcProtocol.ts push, finish; ompRpcClient.ts
\* enqueueWrite).
FramesArriveWhole ==
  /\ IsPrefix(got, sent)
  /\ failed => ended # "no"
  /\ ended = "read" /\ ~failed => got = whole
==============================================================================
