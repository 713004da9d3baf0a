------------------------------- MODULE StdioDemux -------------------------------
(***************************************************************************)
(* The loop of StdioDockerClient.processDockerStream, on the stream itself *)
(* rather than on frames, and what MessageProxy says of it.  The stream is *)
(* cut into units: a header (eight bytes, with the size of the payload),   *)
(* then the lines of the payload.  A cut inside a unit has the effect of   *)
(* one before it for the chunk that ends there, and of one after it for    *)
(* the chunk that begins there.                                            *)
(***************************************************************************)
EXTENDS MessageProxy, SequencesExt

Header(size) == [kind |-> "header", size |-> size]
Answer(c) == [kind |-> "answer", call |-> c]
Fragment == [kind |-> "other"]

Payload(frame) == IF frame = {} THEN <<Fragment>> ELSE SetToSeq({Answer(c) : c \in frame})

\* A frame as it is on the stream.
Encoded(frame) == <<Header(Len(Payload(frame)))>> \o Payload(frame)

Stream(frames) == FlattenSeq([i \in 1 .. Len(frames) |-> Encoded(frames[i])])

\* The units before frame i.
Before(frames, i) == Len(Stream(SubSeq(frames, 1, i - 1)))

-----------------------------------------------------------------------------
(* processDockerStream *)

\* for (const line of lines): what onmessage gets; lines that do not parse go to
\* onerror, one by one.
Messages(payload) == {c \in Calls : \E i \in 1 .. Len(payload) : payload[i] = Answer(c)}

\* A mistake the runs must notice: an incomplete payload is used as far as it goes.
IterationUnchecked(chunk, loop) ==
  LET start == loop.offset + 1
  IN IF start > Len(chunk) \/ chunk[start].kind # "header" THEN loop
     ELSE LET there == {n \in 0 .. chunk[start].size : start + n <= Len(chunk)}
              payloadEnd == start + Max(there)
          IN [offset |-> payloadEnd,
              given |-> Append(loop.given, Messages(SubSeq(chunk, start + 1, payloadEnd)))]

\* One iteration of the while loop; `given' is what the frames so far gave to
\* onmessage.  After a break the offset stays.  A unit that is not a header read
\* as one gives a size that exceeds the chunk: text is at least 0x0a0a0a0a.
Iteration(chunk, loop) ==
  LET start == loop.offset + 1
      payloadEnd == start + chunk[start].size
  IN IF start > Len(chunk) \/ chunk[start].kind # "header" \/ payloadEnd > Len(chunk)
     THEN loop
     ELSE [offset |-> payloadEnd,
           given |-> Append(loop.given, Messages(SubSeq(chunk, start + 1, payloadEnd)))]

\* The loop after k iterations; every one moves the offset or is the last.
Iterations(chunk) ==
  LET loop[k \in 0 .. Len(chunk)] ==
        IF k = 0 THEN [offset |-> 0, given |-> <<>>] ELSE Iteration(chunk, loop[k - 1])
  IN loop

ProcessDockerStream(chunk) == Iterations(chunk)[Len(chunk)].given

-----------------------------------------------------------------------------
(* Properties *)

\* What Receive takes for granted: of a chunk that begins where a frame does,
\* processDockerStream passes on the frames that end in it, all of them, in order,
\* and of any other chunk nothing, wherever the daemon and the socket cut.
ChunksGiveWholeFrames ==
  \A s \in Sessions :
    LET frames == pipe[s]
        stream == Stream(frames)
    IN \A first \in 1 .. Len(stream) : \A last \in first - 1 .. Len(stream) :
         LET given == ProcessDockerStream(SubSeq(stream, first, last))
         IN IF \E i \in 1 .. Len(frames) : Before(frames, i) = first - 1
            THEN \E i, j \in 0 .. Len(frames) :
                   /\ Before(frames, i + 1) = first - 1
                   /\ Before(frames, j + 1) <= last
                   /\ j < Len(frames) => last < Before(frames, j + 2)
                   /\ given = SubSeq(frames, i + 1, j)
            ELSE given = <<>>

=============================================================================
