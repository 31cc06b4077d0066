------------------------------ MODULE PartWriter ------------------------------
(***************************************************************************)
(* The writer that cuts a cacheable response into the parts of its object: *)
(* partWriter of handler/cache/part_writer.go. It gets the body in chunks  *)
(* of any length, buffers one part at a time and saves every part the body *)
(* covers, the short one at the end of the object included.                *)
(*                                                                         *)
(* A byte of the body is its position in the object, so that a saved part  *)
(* shows which bytes it has and in which order. The loop of Write is one   *)
(* step per iteration; a body may be shorter than announced (the upstream  *)
(* or the client failed) or longer (a wrong Content-Range), and SavePart   *)
(* may fail. The cast of a part number to uint32 is left out: an object    *)
(* has at most MaxObjSize bytes here. So is the branch of a part that is   *)
(* not to be kept: ShouldKeep of the LRU, the only algorithm, is TRUE.     *)
(*                                                                         *)
(* An operator commented `Mutant' is a wrong variant of the definition     *)
(* after it, which a property must be able to tell from it.                *)
(***************************************************************************)
EXTENDS ObjectParts

CONSTANTS
    Excess,   \* bound of what a body has beyond its announced length
    NoBuffer  \* a nil buf

ASSUME PartWriterAssumption ==
    /\ Excess \in Nat
    /\ NoBuffer \notin Seq(Nat)

VARIABLES
    startPos, length,  \* as the writer was created, with partSize and objSize
    currentPos,
    buf,       \* the bytes of the part that is being filled, or NoBuffer
    received,  \* how many bytes earlier calls of Write were given
    dataLen, dataPos,  \* of the current call
    saved,     \* the parts on disk: a function from numbers to bytes
    listed,    \* the parts ShouldKeep and AddObject were called for
    at         \* "idle", "write", "failed", "closed", "short"

response == <<partSize, startPos, length, objSize>>
vars == <<response, currentPos, buf, received, dataLen, dataPos, saved, listed, at>>

fromPartStart == currentPos % partSize
toPartEnd     == partSize - fromPartStart
remainingData == dataLen - dataPos

-----------------------------------------------------------------------------
(* flushBuffer *)

\* Mutant: the end of the object is not special.
OnlyWholeParts  == Len(buf) = partSize
\* The buffer holds a whole part, or the end of the object.
WholeOrLastPart == currentPos = objSize \/ Len(buf) = partSize

\* Mutant: the part of the byte after the buffer.
PartAtCurrentPos == currentPos \div partSize
\* The number of the part in the buffer.
BufferedPart     == (currentPos - Len(buf)) \div partSize

\* Save the buffer. The part is listed before, and again after.
Save ==
    /\ saved'  = [p \in DOMAIN saved \cup {BufferedPart} |->
                    IF p = BufferedPart THEN buf ELSE saved[p]]
    /\ listed' = listed \cup {BufferedPart}
    /\ buf'    = NoBuffer

\* SavePart fails: the part stays listed, the buffer stays.
SaveFails ==
    /\ listed' = listed \cup {BufferedPart}
    /\ UNCHANGED <<saved, buf>>

-----------------------------------------------------------------------------
(* Write *)

\* A call with n more bytes of the body.
Write(n) ==
    /\ at = "idle"
    /\ received + n <= length + Excess
    /\ at' = "write" /\ dataLen' = n /\ dataPos' = 0
    /\ UNCHANGED <<response, currentPos, buf, received, saved, listed>>

Advance(n) == dataPos' = dataPos + n /\ currentPos' = currentPos + n

\* Mutant: the rest of the chunk.
WholeChunk == remainingData
\* How much of the chunk belongs to a part that is not kept.
ToSkip     == Lesser(toPartEnd, remainingData)

\* The body starts within a part: the rest of it is not kept.
Skip ==
    /\ at = "write" /\ remainingData > 0
    /\ buf = NoBuffer /\ fromPartStart # 0
    /\ Advance(ToSkip)
    /\ UNCHANGED <<response, buf, received, dataLen, saved, listed, at>>

\* Mutant: the variable is shadowed.
Shadowed  == NoBuffer
\* make([]byte, 0, pw.partSize)
NewBuffer == <<>>

Allocate ==
    /\ at = "write" /\ remainingData > 0
    /\ buf = NoBuffer /\ fromPartStart = 0
    /\ buf' = NewBuffer
    /\ UNCHANGED <<response, currentPos, received, dataLen, dataPos, saved, listed, at>>

\* The buffer is full: the bytes of this iteration wait for the next one.
FlushInWrite ==
    /\ at = "write" /\ remainingData > 0
    /\ buf # NoBuffer /\ Len(buf) = partSize
    /\ \/ Save /\ UNCHANGED at
       \/ SaveFails /\ at' = "failed"
    /\ UNCHANGED <<response, currentPos, received, dataLen, dataPos>>

\* Mutant: what is left of the chunk, past the end of the part.
AllRemaining == remainingData
\* How much of the chunk goes into the buffer at once.
ToWrite      == Lesser(toPartEnd, remainingData)

\* The byte of the body at data[dataPos + i - 1], as its position.
Byte(i) == startPos + received + dataPos + i - 1

AppendData ==
    /\ at = "write" /\ remainingData > 0
    /\ buf # NoBuffer /\ Len(buf) # partSize
    /\ buf' = buf \o [i \in 1 .. ToWrite |-> Byte(i)]
    /\ Advance(ToWrite)
    /\ UNCHANGED <<response, received, dataLen, saved, listed, at>>

Return ==
    /\ at = "write" /\ remainingData = 0
    /\ at' = "idle" /\ received' = received + dataLen
    /\ dataLen' = 0 /\ dataPos' = 0
    /\ UNCHANGED <<response, currentPos, buf, saved, listed>>

Step == Skip \/ Allocate \/ FlushInWrite \/ AppendData \/ Return

-----------------------------------------------------------------------------
(* Close, which the proxy calls after the last byte or the first error *)

Close ==
    /\ at \in {"idle", "failed"}
    /\ \/ /\ currentPos - startPos # length
          /\ at' = "short" /\ UNCHANGED <<buf, saved, listed>>
       \/ /\ currentPos - startPos = length
          /\ \/ buf = NoBuffer /\ at' = "closed" /\ UNCHANGED <<buf, saved, listed>>
             \/ /\ buf # NoBuffer
                /\ \/ ~WholeOrLastPart /\ at' = "closed" /\ UNCHANGED <<buf, saved, listed>>
                   \/ WholeOrLastPart /\ Save /\ at' = "closed"
                   \/ WholeOrLastPart /\ SaveFails /\ at' = "short"
    /\ UNCHANGED <<response, currentPos, received, dataLen, dataPos>>

-----------------------------------------------------------------------------
\* PartWriter, for the range of any response
Init ==
    /\ partSize \in PartSizes
    /\ objSize \in 0 .. MaxObjSize
    /\ startPos \in 0 .. objSize
    /\ length \in 0 .. objSize - startPos
    /\ currentPos = startPos
    /\ buf = NoBuffer
    /\ received = 0 /\ dataLen = 0 /\ dataPos = 0
    /\ saved = <<>> /\ listed = {}
    /\ at = "idle"

Next ==
    \/ \E n \in 0 .. MaxObjSize + Excess : Write(n)
    \/ Step
    \/ Close

Spec == Init /\ [][Next]_vars

\* A call of Write runs on; nothing is assumed of its callers.
FairSpec == Spec /\ WF_vars(Step)

-----------------------------------------------------------------------------
(* Properties *)

Bytes == 0 .. MaxObjSize + Excess - 1

TypeOK ==
    /\ partSize \in PartSizes
    /\ objSize \in 0 .. MaxObjSize /\ startPos \in 0 .. objSize
    /\ length \in 0 .. objSize - startPos
    /\ currentPos \in startPos .. objSize + Excess
    /\ buf = NoBuffer \/ (buf \in Seq(Bytes) /\ Len(buf) <= partSize)
    /\ received \in Nat /\ dataLen \in Nat /\ dataPos \in 0 .. dataLen
    /\ \A p \in DOMAIN saved : p \in Nat /\ saved[p] \in Seq(Bytes)
    /\ listed \subseteq Nat
    /\ at \in {"idle", "write", "failed", "closed", "short"}

\* The bytes of part p of the object, as far as it goes.
PartOf(p) == [i \in 1 .. Lesser(partSize, objSize - p * partSize) |-> p * partSize + i - 1]

\* What SavePart stores under a number is that part of the object, whole and
\* in order, however the body was cut into chunks and wherever it started:
\* readers trust a part of the cache blindly (handler_helpers.go:189). A part
\* beyond the end of the object is never read.
SavedPartsAreExact ==
    \A p \in DOMAIN saved :
        p * partSize < objSize =>
            IF (p + 1) * partSize <= objSize THEN saved[p] = PartOf(p)
            ELSE SubSeq(saved[p], 1, Len(PartOf(p))) = PartOf(p)

\* The parts that lie within bytes startPos .. end - 1.
Covered(end) ==
    {p \in 0 .. MaxObjSize : /\ startPos <= p * partSize
                             /\ p * partSize < objSize
                             /\ Lesser((p + 1) * partSize, objSize) <= end}

\* A part that was received completely is saved, or is the one in the
\* buffer: no other is lost, also when the body ends early.
OnlyTheBufferIsLost ==
    at # "failed" => \A p \in Covered(currentPos) :
        p \in DOMAIN saved \/ (buf # NoBuffer /\ p = BufferedPart)

\* A writer that closes without an error has saved exactly the parts that
\* the response covers, and has listed these and no others in the LRU.
ClosedIsComplete ==
    at = "closed" => /\ DOMAIN saved = Covered(startPos + length)
                     /\ listed = DOMAIN saved

\* Write comes to its end: the iterations that consume no data, to allocate
\* a buffer or to flush one, are never repeated forever.
WriteReturns == at = "write" ~> at # "write"

=============================================================================
