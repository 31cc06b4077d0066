-------------------------- MODULE CacheHandler_proofs --------------------------
(***************************************************************************)
(* The part writer, for objects, ranges and parts of any size, and bodies  *)
(* cut into any chunks; and the lazy responder, for any header, any parts  *)
(* that come and go on disk, and copies that fail anywhere.                *)
(***************************************************************************)
EXTENDS PartWriter, LazyResponse, SequenceTheorems, FiniteSetTheorems,
        WellFoundedInduction, TLAPS

-----------------------------------------------------------------------------
(* Arithmetic of parts *)

LEMMA Division ==
    ASSUME NEW a \in Nat, NEW d \in Nat \ {0}
    PROVE  /\ a \div d \in Nat /\ a % d \in 0 .. d - 1
           /\ a = (a \div d) * d + (a % d)
OBVIOUS

LEMMA Remainder ==
    ASSUME NEW k \in Nat, NEW d \in Nat \ {0}, NEW r \in 0 .. d - 1
    PROVE  (k * d + r) \div d = k /\ (k * d + r) % d = r
OBVIOUS

LEMMA Product ==
    ASSUME NEW k \in Nat, NEW d \in Nat \ {0}
    PROVE  k * d \in Nat /\ (k + 1) * d = k * d + d /\ k <= k * d
OBVIOUS

LEMMA Multiples ==
    ASSUME NEW k \in Nat, NEW l \in Nat, NEW d \in Nat \ {0}, k * d < (l + 1) * d
    PROVE  k <= l
OBVIOUS

-----------------------------------------------------------------------------
(* The inductive invariant *)

Types ==
  /\ partSize \in Nat \ {0}
  /\ objSize \in 0 .. MaxObjSize /\ startPos \in 0 .. objSize
  /\ length \in 0 .. objSize - startPos
  /\ received \in Nat /\ dataLen \in Nat /\ dataPos \in 0 .. dataLen
  /\ currentPos = startPos + received + dataPos
  /\ at \in {"idle", "write", "failed", "closed", "short"}
  /\ at = "idle" => dataPos = 0

\* The buffer has the bytes from the start of a part up to the current position.
BufferOK ==
  buf # NoBuffer =>
    /\ buf \in Seq(Nat) /\ Len(buf) <= partSize
    /\ BufferedPart \in Nat
    /\ currentPos = BufferedPart * partSize + Len(buf)
    /\ startPos <= BufferedPart * partSize
    /\ \A j \in 1 .. Len(buf) : buf[j] = BufferedPart * partSize + j - 1
    /\ Len(buf) = 0 => at = "write" /\ remainingData > 0
    /\ at = "failed" => Len(buf) = partSize

\* A saved part has its bytes in order, and is whole or ends where the object does.
SavedOK ==
  \A p \in DOMAIN saved :
    /\ p \in Nat /\ saved[p] \in Seq(Nat) /\ Len(saved[p]) \in 1 .. partSize
    /\ Len(saved[p]) = partSize \/ Len(saved[p]) = objSize - p * partSize
    /\ \A j \in 1 .. Len(saved[p]) : saved[p][j] = p * partSize + j - 1
    /\ startPos <= p * partSize /\ p * partSize + Len(saved[p]) <= currentPos

\* Without a buffer the writer is at the start of a part, or in one that began before
\* the body.
SkipOK ==
  /\ at \in {"idle", "write"} /\ buf = NoBuffer /\ fromPartStart # 0 =>
       (currentPos \div partSize) * partSize < startPos
  /\ at = "failed" => buf # NoBuffer

CoverOK ==
  \A p \in Covered(currentPos) : p \in DOMAIN saved \/ (buf # NoBuffer /\ p = BufferedPart)

ListedOK ==
  /\ DOMAIN saved \subseteq listed
  /\ at # "short" => listed \subseteq DOMAIN saved \cup (IF at = "failed" THEN {BufferedPart} ELSE {})

WriterInv ==
  Types /\ BufferOK /\ SavedOK /\ SkipOK /\ CoverOK /\ ListedOK /\ ClosedIsComplete

-----------------------------------------------------------------------------
(* Saving *)

\* A buffer that is full, or ends where the object does, becomes the file of its part.
LEMMA SaveIsSafe ==
    ASSUME Types, BufferOK, SavedOK, CoverOK, buf # NoBuffer, Len(buf) # 0,
           Len(buf) = partSize \/ currentPos = objSize, Save,
           UNCHANGED <<response, currentPos>>
    PROVE  /\ SavedOK' /\ CoverOK' /\ buf' = NoBuffer
           /\ DOMAIN saved' = DOMAIN saved \cup {BufferedPart}
           /\ listed' = listed \cup {BufferedPart}
<1>1. /\ saved' = [p \in DOMAIN saved \cup {BufferedPart} |->
                     IF p = BufferedPart THEN buf ELSE saved[p]]
      /\ listed' = listed \cup {BufferedPart} /\ buf' = NoBuffer
      /\ partSize' = partSize /\ objSize' = objSize /\ startPos' = startPos
      /\ currentPos' = currentPos
  BY DEF Save, response
<1>2. /\ buf \in Seq(Nat) /\ Len(buf) <= partSize /\ Len(buf) \in Nat
      /\ BufferedPart \in Nat
      /\ currentPos = BufferedPart * partSize + Len(buf)
      /\ startPos <= BufferedPart * partSize
      /\ \A j \in 1 .. Len(buf) : buf[j] = BufferedPart * partSize + j - 1
  BY DEF BufferOK
<1>3. partSize \in Nat \ {0} /\ objSize \in Nat /\ BufferedPart * partSize \in Nat
  BY <1>2, Product DEF Types
<1>4. SavedOK'
  <2>1. SUFFICES ASSUME NEW p \in DOMAIN saved'
                 PROVE  /\ p \in Nat /\ saved'[p] \in Seq(Nat)
                        /\ Len(saved'[p]) \in 1 .. partSize
                        /\ Len(saved'[p]) = partSize \/ Len(saved'[p]) = objSize - p * partSize
                        /\ \A j \in 1 .. Len(saved'[p]) : saved'[p][j] = p * partSize + j - 1
                        /\ startPos <= p * partSize
                        /\ p * partSize + Len(saved'[p]) <= currentPos
    BY <1>1, ZenonT(60) DEF SavedOK
  <2>2. CASE p = BufferedPart
    <3>1. saved'[p] = buf
      BY <1>1, <2>2
    <3>2. Len(buf) = partSize \/ Len(buf) = objSize - BufferedPart * partSize
      BY <1>2, <1>3
    <3>3. /\ buf \in Seq(Nat) /\ Len(buf) \in 1 .. partSize
          /\ BufferedPart * partSize + Len(buf) <= currentPos
      BY <1>2, <1>3
    <3>4. QED  BY <3>1, <3>2, <3>3, <2>2, <1>2
  <2>3. CASE p # BufferedPart
    <3>1. saved'[p] = saved[p] /\ p \in DOMAIN saved
      BY <1>1, <2>3
    <3>2. QED  BY <3>1 DEF SavedOK
  <2>4. QED  BY <2>2, <2>3
<1>5. CoverOK'
  <2>1. Covered(currentPos)' = Covered(currentPos)
    BY <1>1 DEF Covered
  <2>2. QED
    BY <2>1, <1>1 DEF CoverOK
<1>6. QED  BY <1>1, <1>4, <1>5

-----------------------------------------------------------------------------
(* The bytes of one iteration *)

\* Bytes up to the stop of the part that the writer is in cover no other part.
LEMMA OnePartIsCovered ==
    ASSUME Types, NEW k \in Nat, NEW stop \in Nat,
           k * partSize <= currentPos, currentPos <= stop, stop <= (k + 1) * partSize,
           NEW p \in Covered(stop), p \notin Covered(currentPos)
    PROVE  p = k
<1>1. /\ partSize \in Nat \ {0} /\ objSize \in Nat /\ startPos \in Nat /\ currentPos \in Nat
      /\ p \in 0 .. MaxObjSize /\ p \in Nat
  BY ObjectPartsAssumption, PartWriterAssumption DEF Types, Covered
<1>2. /\ p * partSize \in Nat /\ (p + 1) * partSize \in Nat /\ (k + 1) * partSize \in Nat
      /\ k * partSize \in Nat /\ p * partSize < (p + 1) * partSize
  BY <1>1, Product
<1>3. /\ startPos <= p * partSize /\ p * partSize < objSize
      /\ Lesser((p + 1) * partSize, objSize) <= stop
      /\ ~(Lesser((p + 1) * partSize, objSize) <= currentPos)
  BY <1>1 DEF Covered
<1>4. p * partSize < (k + 1) * partSize
  BY <1>1, <1>2, <1>3 DEF Lesser
<1>5. k * partSize < (p + 1) * partSize
  BY <1>1, <1>2, <1>3 DEF Lesser
<1>6. p <= k /\ k <= p
  BY <1>1, <1>4, <1>5, Multiples
<1>7. QED  BY <1>1, <1>6

LEMMA PositionIs ==
    ASSUME Types
    PROVE  /\ currentPos \in Nat /\ partSize \in Nat \ {0} /\ remainingData \in Nat
           /\ currentPos \div partSize \in Nat /\ fromPartStart \in 0 .. partSize - 1
           /\ currentPos = (currentPos \div partSize) * partSize + fromPartStart
           /\ toPartEnd \in 1 .. partSize
<1>1. currentPos \in Nat /\ partSize \in Nat \ {0} /\ remainingData \in Nat
  BY ObjectPartsAssumption, PartWriterAssumption DEF Types, remainingData
<1>2. /\ currentPos \div partSize \in Nat /\ currentPos % partSize \in 0 .. partSize - 1
      /\ currentPos = (currentPos \div partSize) * partSize + (currentPos % partSize)
  BY <1>1, Division
<1>3. partSize - (currentPos % partSize) \in 1 .. partSize
  BY <1>1, <1>2
<1>4. QED
  BY <1>1, <1>2, <1>3 DEF fromPartStart, toPartEnd

\* The start of the part in the buffer, from its length.
LEMMA BufferedIs ==
    ASSUME NEW k \in Nat, NEW d \in Nat \ {0}, NEW n \in 0 .. d
    PROVE  (k * d + n - n) \div d = k
<1>1. k * d \in Nat /\ k * d + n - n = k * d + 0 /\ 0 \in 0 .. d - 1
  BY Product
<1>2. QED  BY <1>1, Remainder

LEMMA SkipKeepsInv ==
    ASSUME WriterInv, Skip
    PROVE  WriterInv'
<1> DEFINE n == ToSkip
           k == currentPos \div partSize
<1>1. /\ at = "write" /\ buf = NoBuffer /\ fromPartStart # 0 /\ remainingData > 0
      /\ dataPos' = dataPos + n /\ currentPos' = currentPos + n
      /\ UNCHANGED <<response, buf, received, dataLen, saved, listed, at>>
  BY DEF Skip, Advance
<1>2. UNCHANGED <<partSize, startPos, length, objSize>>
  BY <1>1 DEF response
<1>3. /\ currentPos \in Nat /\ partSize \in Nat \ {0} /\ remainingData \in Nat
      /\ k \in Nat /\ fromPartStart \in 0 .. partSize - 1
      /\ currentPos = k * partSize + fromPartStart
      /\ toPartEnd \in 1 .. partSize /\ toPartEnd = partSize - fromPartStart
  BY PositionIs DEF WriterInv, toPartEnd
<1>4. n \in Nat /\ n <= remainingData /\ n <= toPartEnd /\ n > 0
  BY <1>1, <1>3 DEF ToSkip, Lesser
<1> HIDE DEF n
<1>5. k * partSize < startPos
  BY <1>1 DEF WriterInv, SkipOK
<1>6. Types'
  BY <1>1, <1>2, <1>4 DEF WriterInv, Types, remainingData
<1> HIDE DEF k
<1>7. k * partSize \in Nat /\ (k + 1) * partSize = k * partSize + partSize
      /\ (k + 1) * partSize \in Nat
  BY <1>3, Product
<1>8. SkipOK'
  <2>1. CASE fromPartStart + n = partSize
    <3>1. currentPos' = (k + 1) * partSize + 0 /\ 0 \in 0 .. partSize - 1 /\ k + 1 \in Nat
      BY <1>1, <1>3, <1>4, <1>7, <2>1
    <3>2. fromPartStart' = 0
      BY <3>1, <1>2, <1>3, Remainder DEF fromPartStart
    <3>3. QED  BY <3>2, <1>1 DEF SkipOK
  <2>2. CASE fromPartStart + n < partSize
    <3>1. currentPos' = k * partSize + (fromPartStart + n)
          /\ fromPartStart + n \in 0 .. partSize - 1
      BY <1>1, <1>3, <1>4, <1>7, <2>2
    <3>2. (currentPos \div partSize)' = k
      BY <3>1, <1>2, <1>3, Remainder
    <3>3. QED  BY <3>2, <1>1, <1>2, <1>5 DEF SkipOK
  <2>3. QED  BY <2>1, <2>2, <1>3, <1>4
<1>9. CoverOK'
  <2>1. SUFFICES ASSUME NEW p \in Covered(currentPos)'
                 PROVE  p \in DOMAIN saved
    BY <1>1 DEF CoverOK
  <2>2. p \in Covered(currentPos')
    BY <1>2 DEF Covered
  <2>3. p \in Covered(currentPos)
    <3>1. currentPos' \in Nat /\ k * partSize <= currentPos /\ currentPos <= currentPos'
          /\ currentPos' <= (k + 1) * partSize
      BY <1>1, <1>3, <1>4, <1>7
    <3>2. p # k
      <4>1. startPos <= p * partSize /\ startPos \in Nat
        BY <2>2 DEF Covered, WriterInv, Types
      <4>2. QED  BY <4>1, <1>5, <1>7
    <3>3. Types
      BY DEF WriterInv
    <3>4. p \notin Covered(currentPos) => p = k
      BY <3>1, <3>3, <2>2, <1>3, OnePartIsCovered
    <3>5. QED  BY <3>2, <3>4
  <2>4. QED  BY <2>3, <1>1 DEF WriterInv, CoverOK
<1>10. BufferOK' /\ ListedOK' /\ ClosedIsComplete'
  BY <1>1 DEF WriterInv, BufferOK, ListedOK, ClosedIsComplete
<1>11. SavedOK'
  <2>1. currentPos <= currentPos' /\ currentPos' \in Nat
    BY <1>1, <1>3, <1>4
  <2>2. SUFFICES ASSUME NEW p \in DOMAIN saved
                 PROVE  p * partSize + Len(saved[p]) <= currentPos'
    BY <1>1, <1>2 DEF WriterInv, SavedOK
  <2>3. p \in Nat /\ Len(saved[p]) \in Nat /\ p * partSize + Len(saved[p]) <= currentPos
    BY DEF WriterInv, SavedOK
  <2>4. p * partSize \in Nat
    BY <2>3, <1>3, Product
  <2>5. QED  BY <2>1, <2>3, <2>4, <1>3
<1>12. QED  BY <1>6, <1>8, <1>9, <1>10, <1>11 DEF WriterInv

LEMMA AllocateKeepsInv ==
    ASSUME WriterInv, Allocate
    PROVE  WriterInv'
<1>1. /\ at = "write" /\ buf = NoBuffer /\ fromPartStart = 0 /\ remainingData > 0
      /\ buf' = <<>>
      /\ UNCHANGED <<response, currentPos, received, dataLen, dataPos, saved, listed, at>>
      /\ UNCHANGED <<partSize, startPos, length, objSize>>
  BY DEF Allocate, NewBuffer, response
<1>2. buf' # NoBuffer /\ buf' \in Seq(Nat) /\ Len(buf') = 0
  <2>1. <<>> \in Seq(Nat) /\ Len(<<>>) = 0
    BY EmptySeq
  <2>2. <<>> # NoBuffer
    BY <2>1, ObjectPartsAssumption, PartWriterAssumption
  <2>3. QED  BY <1>1, <2>1, <2>2
<1>3. /\ currentPos \in Nat /\ partSize \in Nat \ {0}
      /\ currentPos \div partSize \in Nat
      /\ currentPos = (currentPos \div partSize) * partSize
      /\ startPos <= currentPos
  BY <1>1, PositionIs DEF WriterInv, Types
<1>4. BufferedPart' = currentPos \div partSize
  BY <1>1, <1>2, <1>3 DEF BufferedPart
<1>5. BufferOK'
  BY <1>1, <1>2, <1>3, <1>4 DEF BufferOK, remainingData
<1>6. Types' /\ SavedOK' /\ SkipOK' /\ ListedOK' /\ ClosedIsComplete'
  BY <1>1, <1>2 DEF WriterInv, Types, SavedOK, SkipOK, ListedOK, ClosedIsComplete
<1>7. CoverOK'
  BY <1>1 DEF WriterInv, CoverOK, Covered
<1>8. QED  BY <1>5, <1>6, <1>7 DEF WriterInv

LEMMA AppendKeepsInv ==
    ASSUME WriterInv, AppendData
    PROVE  WriterInv'
<1> DEFINE n == ToWrite
           k == BufferedPart
           new == [j \in 1 .. n |-> Byte(j)]
<1>1. /\ at = "write" /\ buf # NoBuffer /\ Len(buf) # partSize /\ remainingData > 0
      /\ buf' = buf \o new
      /\ dataPos' = dataPos + n /\ currentPos' = currentPos + n
      /\ UNCHANGED <<received, dataLen, saved, listed, at>>
      /\ UNCHANGED <<partSize, startPos, length, objSize>>
  BY DEF AppendData, Advance, response
<1>2. /\ buf \in Seq(Nat) /\ Len(buf) \in Nat /\ Len(buf) < partSize /\ k \in Nat
      /\ currentPos = k * partSize + Len(buf) /\ startPos <= k * partSize
      /\ \A j \in 1 .. Len(buf) : buf[j] = k * partSize + j - 1
  BY <1>1 DEF WriterInv, BufferOK, Types
<1>3. /\ currentPos \in Nat /\ partSize \in Nat \ {0} /\ remainingData \in Nat
  BY PositionIs DEF WriterInv
<1> HIDE DEF k
<1>4. k * partSize \in Nat /\ (k + 1) * partSize = k * partSize + partSize
      /\ (k + 1) * partSize \in Nat
  BY <1>2, <1>3, Product
<1>5. toPartEnd = partSize - Len(buf)
  <2>1. Len(buf) \in 0 .. partSize - 1
    BY <1>2, <1>3
  <2>2. QED  BY <2>1, <1>2, <1>3, Remainder DEF toPartEnd, fromPartStart
<1>6. n \in Nat /\ n > 0 /\ n <= partSize - Len(buf) /\ n <= remainingData
  BY <1>1, <1>2, <1>3, <1>5 DEF ToWrite, Lesser
<1>7. \A j \in 1 .. n : Byte(j) = currentPos + j - 1 /\ Byte(j) \in Nat
  BY <1>3, <1>6 DEF Byte, WriterInv, Types
<1> HIDE DEF n
<1>8. new \in Seq(Nat) /\ Len(new) = n /\ \A j \in 1 .. n : new[j] = currentPos + j - 1
  BY <1>6, <1>7
<1> HIDE DEF new
<1>9. /\ buf' \in Seq(Nat) /\ Len(buf') = Len(buf) + n
      /\ \A j \in 1 .. Len(buf) : buf'[j] = buf[j]
      /\ \A j \in Len(buf) + 1 .. Len(buf) + n : buf'[j] = new[j - Len(buf)]
  <2>1. /\ buf \o new \in Seq(Nat) /\ Len(buf \o new) = Len(buf) + Len(new)
        /\ \A j \in 1 .. Len(buf) + Len(new) :
              (buf \o new)[j] = IF j <= Len(buf) THEN buf[j] ELSE new[j - Len(buf)]
    BY <1>2, <1>8, ConcatProperties
  <2>2. buf' = buf \o new
    BY <1>1
  <2>3. buf' \in Seq(Nat) /\ Len(buf') = Len(buf) + n
    BY <2>1, <2>2, <1>8
  <2>4. ASSUME NEW j \in 1 .. Len(buf) + n
        PROVE  buf'[j] = IF j <= Len(buf) THEN buf[j] ELSE new[j - Len(buf)]
    BY <2>1, <2>2, <1>8
  <2>5. ASSUME NEW j \in 1 .. Len(buf)
        PROVE  buf'[j] = buf[j]
    <3>1. j \in 1 .. Len(buf) + n /\ j <= Len(buf)
      BY <1>2, <1>6
    <3>2. QED  BY <2>4, <3>1
  <2>6. ASSUME NEW j \in Len(buf) + 1 .. Len(buf) + n
        PROVE  buf'[j] = new[j - Len(buf)]
    <3>1. j \in 1 .. Len(buf) + n /\ ~(j <= Len(buf))
      BY <1>2, <1>6
    <3>2. QED  BY <2>4, <3>1
  <2>7. QED  BY <2>3, <2>5, <2>6
<1>10. buf' # NoBuffer
  BY <1>9, ObjectPartsAssumption, PartWriterAssumption
<1>11. currentPos' = k * partSize + Len(buf') /\ Len(buf') \in Nat /\ Len(buf') <= partSize
       /\ Len(buf') > 0
  BY <1>1, <1>2, <1>3, <1>4, <1>6, <1>9
<1>12. BufferedPart' = k
  <2>1. Len(buf') \in 0 .. partSize
    BY <1>11, <1>3
  <2>2. QED  BY <2>1, <1>1, <1>2, <1>3, <1>11, BufferedIs DEF BufferedPart
<1>13. BufferOK'
  <2>1. \A j \in 1 .. Len(buf') : buf'[j] = k * partSize + j - 1
    <3>1. SUFFICES ASSUME NEW j \in 1 .. Len(buf) + n
                   PROVE  buf'[j] = k * partSize + j - 1
      BY <1>9
    <3>2. CASE j \in 1 .. Len(buf)
      BY <3>2, <1>2, <1>9
    <3>3. CASE j \in Len(buf) + 1 .. Len(buf) + n
      <4>1. j - Len(buf) \in 1 .. n
        BY <3>3, <1>2, <1>6
      <4>2. buf'[j] = currentPos + (j - Len(buf)) - 1
        BY <3>3, <4>1, <1>8, <1>9
      <4>3. QED  BY <4>2, <1>2, <1>4
    <3>4. QED  BY <3>2, <3>3, <1>2, <1>6
  <2>2. QED
    BY <2>1, <1>1, <1>2, <1>9, <1>11, <1>12, SMTT(30) DEF BufferOK
<1>14. Types'
  BY <1>1, <1>6 DEF WriterInv, Types, remainingData
<1>15. SkipOK' /\ ClosedIsComplete'
  BY <1>1, <1>10 DEF SkipOK, ClosedIsComplete
<1>16. ListedOK'
  BY <1>1 DEF WriterInv, ListedOK
<1>17. CoverOK'
  <2>1. SUFFICES ASSUME NEW p \in Covered(currentPos)', p \notin DOMAIN saved
                 PROVE  p = k
    BY <1>1, <1>10, <1>12 DEF CoverOK
  <2>2. p \in Covered(currentPos')
    BY <2>1, <1>1 DEF Covered
  <2>3. CASE p \in Covered(currentPos)
    BY <2>1, <2>3 DEF WriterInv, CoverOK, k
  <2>4. CASE p \notin Covered(currentPos)
    <3>1. currentPos' \in Nat /\ k * partSize <= currentPos /\ currentPos <= currentPos'
          /\ currentPos' <= (k + 1) * partSize
      BY <1>1, <1>2, <1>3, <1>4, <1>6, <1>11
    <3>2. QED  BY <2>2, <2>4, <3>1, <1>2, OnePartIsCovered DEF WriterInv
  <2>5. QED  BY <2>3, <2>4
<1>18. SavedOK'
  <2>1. currentPos <= currentPos' /\ currentPos' \in Nat
    BY <1>1, <1>3, <1>6
  <2>2. SUFFICES ASSUME NEW p \in DOMAIN saved
                 PROVE  p * partSize + Len(saved[p]) <= currentPos'
    BY <1>1 DEF WriterInv, SavedOK
  <2>3. p \in Nat /\ Len(saved[p]) \in Nat /\ p * partSize + Len(saved[p]) <= currentPos
    BY DEF WriterInv, SavedOK
  <2>4. p * partSize \in Nat
    BY <2>3, <1>3, Product
  <2>5. QED  BY <2>1, <2>3, <2>4, <1>3
<1>19. QED
  BY <1>13, <1>14, <1>15, <1>16, <1>17, <1>18 DEF WriterInv

\* A full buffer ends where the next part starts.
LEMMA FlushKeepsInv ==
    ASSUME WriterInv, FlushInWrite
    PROVE  WriterInv'
<1>1. /\ at = "write" /\ remainingData > 0 /\ buf # NoBuffer /\ Len(buf) = partSize
      /\ UNCHANGED <<response, currentPos, received, dataLen, dataPos>>
      /\ UNCHANGED <<partSize, startPos, length, objSize>>
  BY DEF FlushInWrite, response
<1>2. partSize \in Nat \ {0} /\ Len(buf) # 0
  BY <1>1 DEF WriterInv, Types
<1>3. CASE Save /\ UNCHANGED at
  <2>1. /\ SavedOK' /\ CoverOK' /\ buf' = NoBuffer
        /\ DOMAIN saved' = DOMAIN saved \cup {BufferedPart}
        /\ listed' = listed \cup {BufferedPart}
    BY <1>1, <1>2, <1>3, SaveIsSafe DEF WriterInv
  <2>2. fromPartStart' = 0
    <3>1. BufferedPart \in Nat /\ currentPos = BufferedPart * partSize + partSize
      BY <1>1 DEF WriterInv, BufferOK
    <3>2. currentPos = (BufferedPart + 1) * partSize + 0 /\ 0 \in 0 .. partSize - 1
          /\ BufferedPart + 1 \in Nat
      BY <3>1, <1>2, Product
    <3>3. QED  BY <3>2, <1>1, <1>2, Remainder DEF fromPartStart
  <2>3. Types' /\ BufferOK' /\ SkipOK' /\ ClosedIsComplete'
    BY <1>1, <1>3, <2>1, <2>2 DEF WriterInv, Types, BufferOK, SkipOK, ClosedIsComplete
  <2>4. ListedOK'
    BY <1>1, <1>3, <2>1 DEF WriterInv, ListedOK
  <2>5. QED  BY <2>1, <2>3, <2>4 DEF WriterInv
<1>4. CASE SaveFails /\ at' = "failed"
  <2>1. listed' = listed \cup {BufferedPart} /\ UNCHANGED <<saved, buf>>
        /\ BufferedPart' = BufferedPart
    BY <1>1, <1>4 DEF SaveFails, BufferedPart
  <2>2. Types' /\ SkipOK' /\ ClosedIsComplete'
    BY <1>1, <1>4, <2>1 DEF WriterInv, Types, SkipOK, ClosedIsComplete
  <2>3. BufferOK'
    BY <1>1, <1>2, <1>4, <2>1 DEF WriterInv, BufferOK
  <2>4. SavedOK' /\ ListedOK'
    BY <1>1, <1>4, <2>1 DEF WriterInv, SavedOK, ListedOK
  <2>5. CoverOK'
    BY <1>1, <2>1 DEF WriterInv, CoverOK, Covered
  <2>6. QED  BY <2>2, <2>3, <2>4, <2>5 DEF WriterInv
<1>5. QED  BY <1>3, <1>4 DEF FlushInWrite

LEMMA CallKeepsInv ==
    ASSUME WriterInv, NEW n \in 0 .. MaxObjSize + Excess, Write(n)
    PROVE  WriterInv'
<1>1. /\ at = "idle" /\ at' = "write" /\ dataLen' = n /\ dataPos' = 0
      /\ UNCHANGED <<partSize, startPos, length, objSize, currentPos, buf, received, saved, listed>>
  BY DEF Write, response
<1>2. n \in Nat /\ dataPos = 0
  BY <1>1, ObjectPartsAssumption, PartWriterAssumption DEF WriterInv, Types
<1>3. Types' /\ SavedOK' /\ ClosedIsComplete'
  <2>1. Types'
    BY <1>1, <1>2 DEF WriterInv, Types
  <2>2. SavedOK'
    BY <1>1 DEF WriterInv, SavedOK
  <2>3. ClosedIsComplete'
    BY <1>1 DEF ClosedIsComplete
  <2>4. QED  BY <2>1, <2>2, <2>3
<1>4. SkipOK' /\ ListedOK'
  BY <1>1 DEF WriterInv, SkipOK, fromPartStart, ListedOK
<1>5. BufferOK'
  BY <1>1 DEF WriterInv, BufferOK, BufferedPart
<1>6. CoverOK'
  BY <1>1 DEF WriterInv, CoverOK, Covered, BufferedPart
<1>7. QED  BY <1>3, <1>4, <1>5, <1>6 DEF WriterInv

LEMMA ReturnKeepsInv ==
    ASSUME WriterInv, Return
    PROVE  WriterInv'
<1>1. /\ at = "write" /\ remainingData = 0 /\ at' = "idle" /\ received' = received + dataLen
      /\ dataLen' = 0 /\ dataPos' = 0
      /\ UNCHANGED <<partSize, startPos, length, objSize, currentPos, buf, saved, listed>>
  BY DEF Return, response
<1>2. Types'
  BY <1>1 DEF WriterInv, Types, remainingData
<1>3. SavedOK' /\ ClosedIsComplete' /\ SkipOK' /\ ListedOK'
  BY <1>1 DEF WriterInv, SavedOK, ClosedIsComplete, SkipOK, fromPartStart, ListedOK
<1>4. BufferOK'
  BY <1>1 DEF WriterInv, BufferOK, BufferedPart
<1>5. CoverOK'
  BY <1>1 DEF WriterInv, CoverOK, Covered, BufferedPart
<1>6. QED  BY <1>2, <1>3, <1>4, <1>5 DEF WriterInv

-----------------------------------------------------------------------------
(* Closing *)

\* When the whole body has come and the buffer is empty or not worth a part, the parts
\* on disk are the ones that the body covers.
LEMMA SavedAreCovered ==
    ASSUME Types, SavedOK, currentPos <= objSize
    PROVE  DOMAIN saved \subseteq Covered(currentPos)
<1>1. SUFFICES ASSUME NEW p \in DOMAIN saved
               PROVE  p \in Covered(currentPos)
  OBVIOUS
<1>2. /\ p \in Nat /\ Len(saved[p]) \in 1 .. partSize
      /\ Len(saved[p]) = partSize \/ Len(saved[p]) = objSize - p * partSize
      /\ startPos <= p * partSize /\ p * partSize + Len(saved[p]) <= currentPos
  BY DEF SavedOK
<1>3. partSize \in Nat \ {0} /\ objSize \in Nat /\ objSize <= MaxObjSize /\ MaxObjSize \in Nat
      /\ currentPos \in Nat
  BY ObjectPartsAssumption, PartWriterAssumption DEF Types
<1>4. p * partSize \in Nat /\ (p + 1) * partSize = p * partSize + partSize /\ p <= p * partSize
  BY <1>2, <1>3, Product
<1>5. p * partSize < objSize
  BY <1>2, <1>3, <1>4
<1>6. Lesser((p + 1) * partSize, objSize) <= currentPos
  BY <1>2, <1>3, <1>4 DEF Lesser
<1>7. p \in 0 .. MaxObjSize
  BY <1>2, <1>3, <1>4, <1>5
<1>8. QED  BY <1>2, <1>5, <1>6, <1>7 DEF Covered

\* A buffer that is neither full nor at the stop of the object covers nothing.
LEMMA HalfPartIsNotCovered ==
    ASSUME Types, BufferOK, buf # NoBuffer, ~WholeOrLastPart, currentPos <= objSize
    PROVE  BufferedPart \notin Covered(currentPos)
<1>1. /\ Len(buf) <= partSize /\ Len(buf) # partSize /\ currentPos # objSize
      /\ BufferedPart \in Nat /\ currentPos = BufferedPart * partSize + Len(buf)
      /\ Len(buf) \in Nat
  BY DEF BufferOK, WholeOrLastPart
<1>2. partSize \in Nat \ {0} /\ objSize \in Nat /\ currentPos \in Nat
  BY ObjectPartsAssumption, PartWriterAssumption DEF Types
<1>3. (BufferedPart + 1) * partSize = BufferedPart * partSize + partSize
      /\ BufferedPart * partSize \in Nat
  BY <1>1, <1>2, Product
<1>4. currentPos < (BufferedPart + 1) * partSize /\ currentPos < objSize
  BY <1>1, <1>2, <1>3
<1>5. ~(Lesser((BufferedPart + 1) * partSize, objSize) <= currentPos)
  BY <1>2, <1>3, <1>4 DEF Lesser
<1>6. QED  BY <1>5 DEF Covered

LEMMA CloseKeepsInv ==
    ASSUME WriterInv, Close
    PROVE  WriterInv'
<1>1. /\ at \in {"idle", "failed"} /\ at' \in {"closed", "short"}
      /\ UNCHANGED <<partSize, startPos, length, objSize, currentPos, received, dataLen, dataPos>>
      /\ UNCHANGED <<response, currentPos>>
  BY DEF Close, response
<1>2. Types'
  BY <1>1 DEF WriterInv, Types
<1>3. SkipOK'
  BY <1>1 DEF SkipOK
<1>4. Covered(currentPos)' = Covered(currentPos)
      /\ Covered(startPos + length)' = Covered(startPos + length)
  BY <1>1 DEF Covered
<1>5. CASE UNCHANGED <<buf, saved, listed>>
  <2>1. BufferOK' /\ SavedOK'
    <3>1. Len(buf) = 0 => buf = NoBuffer
      BY <1>1 DEF WriterInv, BufferOK
    <3>2. QED  BY <3>1, <1>1, <1>5 DEF WriterInv, BufferOK, BufferedPart, SavedOK
  <2>2. CoverOK'
    BY <1>1, <1>4, <1>5 DEF WriterInv, CoverOK, BufferedPart
  <2>3. ASSUME at' = "closed"
        PROVE  DOMAIN saved = Covered(startPos + length) /\ listed = DOMAIN saved
    <3>1. currentPos - startPos = length /\ (buf = NoBuffer \/ ~WholeOrLastPart)
      BY <2>3, <1>5 DEF Close, Save, SaveFails
    <3>2. startPos + length = currentPos /\ currentPos <= objSize
      BY <3>1, ObjectPartsAssumption, PartWriterAssumption DEF WriterInv, Types
    <3>3. DOMAIN saved \subseteq Covered(currentPos)
      BY <3>2, SavedAreCovered DEF WriterInv
    <3>4. Covered(currentPos) \subseteq DOMAIN saved
      BY <3>1, <3>2, HalfPartIsNotCovered DEF WriterInv, CoverOK
    <3>5. at = "idle"
      BY <3>1, <1>1 DEF WriterInv, SkipOK, BufferOK, WholeOrLastPart
    <3>6. listed = DOMAIN saved
      BY <3>5 DEF WriterInv, ListedOK
    <3>7. QED  BY <3>2, <3>3, <3>4, <3>6
  <2>4. ClosedIsComplete' /\ ListedOK'
    BY <2>3, <1>1, <1>4, <1>5 DEF WriterInv, ClosedIsComplete, ListedOK
  <2>5. QED  BY <2>1, <2>2, <2>4, <1>2, <1>3 DEF WriterInv
<1>6. CASE Save /\ at' = "closed" /\ buf # NoBuffer /\ WholeOrLastPart
           /\ currentPos - startPos = length
  <2>1. Len(buf) # 0 /\ (Len(buf) = partSize \/ currentPos = objSize)
    BY <1>1, <1>6 DEF WriterInv, BufferOK, WholeOrLastPart
  <2>2. /\ SavedOK' /\ CoverOK' /\ buf' = NoBuffer
        /\ DOMAIN saved' = DOMAIN saved \cup {BufferedPart}
        /\ listed' = listed \cup {BufferedPart}
    BY <2>1, <1>1, <1>6, SaveIsSafe DEF WriterInv
  <2>3. BufferOK'
    BY <2>2 DEF BufferOK
  <2>4. listed' = DOMAIN saved'
    BY <2>2, <1>1 DEF WriterInv, ListedOK
  <2>5. startPos + length = currentPos /\ currentPos <= objSize
    BY <1>6, ObjectPartsAssumption, PartWriterAssumption DEF WriterInv, Types
  <2>6. (DOMAIN saved \subseteq Covered(currentPos))'
    <3>1. (currentPos <= objSize)'
      BY <2>5, <1>1
    <3>2. (Types /\ SavedOK /\ currentPos <= objSize => DOMAIN saved \subseteq Covered(currentPos))'
      BY SavedAreCovered, PTL
    <3>3. QED  BY <3>1, <3>2, <2>2, <1>2
  <2>7. Covered(currentPos) \subseteq DOMAIN saved'
    BY <2>2, <1>4 DEF CoverOK
  <2>8. ClosedIsComplete' /\ ListedOK'
    BY <2>4, <2>5, <2>6, <2>7, <1>1, <1>4, <1>6 DEF ClosedIsComplete, ListedOK
  <2>9. QED  BY <2>2, <2>3, <2>8, <1>2, <1>3 DEF WriterInv
<1>7. CASE SaveFails /\ at' = "short"
  <2>1. UNCHANGED <<saved, buf>> /\ listed \subseteq listed'
    BY <1>7 DEF SaveFails
  <2>2. BufferOK' /\ SavedOK'
    <3>1. Len(buf) = 0 => buf = NoBuffer
      BY <1>1 DEF WriterInv, BufferOK
    <3>2. QED  BY <3>1, <2>1, <1>1, <1>7 DEF WriterInv, BufferOK, BufferedPart, SavedOK
  <2>3. CoverOK'
    BY <2>1, <1>1, <1>4 DEF WriterInv, CoverOK, BufferedPart
  <2>4. ClosedIsComplete' /\ ListedOK'
    BY <2>1, <1>7 DEF WriterInv, ClosedIsComplete, ListedOK
  <2>5. QED  BY <2>2, <2>3, <2>4, <1>2, <1>3 DEF WriterInv
<1>8. QED  BY <1>5, <1>6, <1>7 DEF Close

-----------------------------------------------------------------------------
(* The theorems *)

LEMMA WriterStarts == Init => WriterInv
<1> SUFFICES ASSUME Init
             PROVE  WriterInv
  OBVIOUS
<1>1. /\ partSize \in Nat \ {0} /\ objSize \in 0 .. MaxObjSize /\ startPos \in 0 .. objSize
      /\ length \in 0 .. objSize - startPos /\ currentPos = startPos /\ buf = NoBuffer
      /\ received = 0 /\ dataLen = 0 /\ dataPos = 0 /\ saved = <<>> /\ listed = {} /\ at = "idle"
  BY ObjectPartsAssumption, PartWriterAssumption DEF Init
<1>2. Types
  BY <1>1, ObjectPartsAssumption, PartWriterAssumption DEF Types
<1>3. DOMAIN saved = {}
  BY <1>1
<1>4. BufferOK /\ SavedOK /\ ListedOK /\ ClosedIsComplete
  BY <1>1, <1>3 DEF BufferOK, SavedOK, ListedOK, ClosedIsComplete
<1>5. SkipOK
  <2> DEFINE k == currentPos \div partSize
  <2>1. k \in Nat /\ fromPartStart \in 0 .. partSize - 1
        /\ currentPos = k * partSize + fromPartStart
    BY <1>2, PositionIs
  <2>2. k * partSize \in Nat
    BY <2>1, <1>1, Product
  <2> HIDE DEF k
  <2>3. fromPartStart # 0 => k * partSize < startPos
    BY <2>1, <2>2, <1>1
  <2>4. QED  BY <2>3, <1>1 DEF SkipOK, k
<1>6. CoverOK
  <2>1. SUFFICES ASSUME NEW p \in Covered(currentPos)
                 PROVE  FALSE
    BY DEF CoverOK
  <2>2. p \in Nat /\ startPos <= p * partSize /\ p * partSize < objSize
        /\ Lesser((p + 1) * partSize, objSize) <= startPos
    BY <1>1, ObjectPartsAssumption, PartWriterAssumption DEF Covered
  <2>3. p * partSize \in Nat /\ (p + 1) * partSize = p * partSize + partSize
    BY <2>2, <1>1, Product
  <2>4. QED  BY <2>2, <2>3, <1>1, ObjectPartsAssumption, PartWriterAssumption DEF Lesser
<1>7. QED  BY <1>2, <1>4, <1>5, <1>6 DEF WriterInv

LEMMA WriterStays == WriterInv /\ [Next]_vars => WriterInv'
<1> SUFFICES ASSUME WriterInv, [Next]_vars
             PROVE  WriterInv'
  OBVIOUS
<1>1. CASE \E n \in 0 .. MaxObjSize + Excess : Write(n)
  BY <1>1, CallKeepsInv
<1>2. CASE Skip  BY <1>2, SkipKeepsInv
<1>3. CASE Allocate  BY <1>3, AllocateKeepsInv
<1>4. CASE FlushInWrite  BY <1>4, FlushKeepsInv
<1>5. CASE AppendData  BY <1>5, AppendKeepsInv
<1>6. CASE Return  BY <1>6, ReturnKeepsInv
<1>7. CASE Close  BY <1>7, CloseKeepsInv
<1>8. CASE UNCHANGED vars
  <2>1. UNCHANGED <<partSize, startPos, length, objSize, currentPos, buf, received, dataLen,
                    dataPos, saved, listed, at>>
    BY <1>8 DEF vars, response
  <2>2. Types' /\ SavedOK' /\ SkipOK' /\ ListedOK'
    BY <2>1 DEF WriterInv, Types, SavedOK, SkipOK, fromPartStart, ListedOK, BufferedPart
  <2>3. BufferOK' /\ CoverOK' /\ ClosedIsComplete'
    BY <2>1 DEF WriterInv, BufferOK, BufferedPart, remainingData, CoverOK, Covered,
                ClosedIsComplete
  <2>4. QED  BY <2>2, <2>3 DEF WriterInv
<1>9. QED
  BY <1>1, <1>2, <1>3, <1>4, <1>5, <1>6, <1>7, <1>8 DEF Next, Step

LEMMA WriterHolds == Spec => []WriterInv
BY WriterStarts, WriterStays, PTL DEF Spec

\* What is saved under the number of a part is that part, whole and in order, for any
\* range, part size and cut of the body (part_writer.go).
THEOREM WriterSavesExactParts == Spec => []SavedPartsAreExact
<1>1. ASSUME Types, SavedOK, NEW p \in DOMAIN saved, p * partSize < objSize
      PROVE  IF (p + 1) * partSize <= objSize THEN saved[p] = PartOf(p)
             ELSE SubSeq(saved[p], 1, Len(PartOf(p))) = PartOf(p)
  <2> DEFINE whole == Lesser(partSize, objSize - p * partSize)
  <2>1. /\ p \in Nat /\ saved[p] \in Seq(Nat) /\ Len(saved[p]) \in 1 .. partSize
        /\ Len(saved[p]) = partSize \/ Len(saved[p]) = objSize - p * partSize
        /\ \A j \in 1 .. Len(saved[p]) : saved[p][j] = p * partSize + j - 1
    BY <1>1 DEF SavedOK
  <2>2. /\ partSize \in Nat \ {0} /\ objSize \in Nat /\ p * partSize \in Nat
        /\ (p + 1) * partSize = p * partSize + partSize
    BY <1>1, <2>1, Product DEF Types
  <2>3. whole \in Nat /\ whole <= Len(saved[p])
        /\ ((p + 1) * partSize <= objSize => whole = Len(saved[p]))
    <3> DEFINE x == p * partSize
               n == Len(saved[p])
    <3>1. /\ x \in Nat /\ n \in 1 .. partSize /\ (n = partSize \/ n = objSize - x)
          /\ partSize \in Nat /\ objSize \in Nat /\ x < objSize
          /\ (p + 1) * partSize = x + partSize
      BY <1>1, <2>1, <2>2
    <3>2. whole = IF partSize > objSize - x THEN objSize - x ELSE partSize
      BY DEF Lesser
    <3> HIDE DEF x, n, whole
    <3>3. whole \in Nat /\ whole <= n /\ ((p + 1) * partSize <= objSize => whole = n)
      BY <3>1, <3>2
    <3>4. QED  BY <3>3 DEF n
  <2>4. PartOf(p) = [j \in 1 .. whole |-> p * partSize + j - 1]
    BY DEF PartOf
  <2> HIDE DEF whole
  <2>5. SubSeq(saved[p], 1, whole) = [j \in 1 .. whole |-> saved[p][j]]
    BY <2>1, <2>3
  <2>6. [j \in 1 .. whole |-> saved[p][j]] = PartOf(p)
    BY <2>1, <2>3, <2>4
  <2>7. Len(PartOf(p)) = whole
    BY <2>2, <2>3, <2>4
  <2>8. whole = Len(saved[p]) => saved[p] = [j \in 1 .. whole |-> saved[p][j]]
    BY <2>1
  <2>9. QED  BY <2>3, <2>5, <2>6, <2>7, <2>8
<1>2. WriterInv => SavedPartsAreExact
  BY <1>1 DEF WriterInv, SavedPartsAreExact
<1>3. QED  BY <1>2, WriterHolds, PTL

\* Every part that came completely is on disk or in the buffer.
THEOREM WriterLosesOnlyTheBuffer == Spec => []OnlyTheBufferIsLost
<1>1. WriterInv => OnlyTheBufferIsLost
  BY DEF WriterInv, CoverOK, OnlyTheBufferIsLost
<1>2. QED  BY <1>1, WriterHolds, PTL

\* A writer that closes without an error has saved and listed exactly the parts of the
\* response, also when a save has failed before and Close has tried it again.
THEOREM WriterClosesComplete == Spec => []ClosedIsComplete
<1>1. WriterInv => ClosedIsComplete
  BY DEF WriterInv
<1>2. QED  BY <1>1, WriterHolds, PTL

-----------------------------------------------------------------------------
(* Bytes in a row *)

\* The bytes from a up to b, without b.
Run(a, b) == [k \in 1..(b - a) |-> a + k - 1]

LEMMA RunIs ==
    ASSUME NEW a \in Int, NEW b \in Int, a <= b
    PROVE  /\ Run(a, b) \in Seq(Int) /\ Len(Run(a, b)) = b - a
           /\ \A k \in 1..(b - a) : Run(a, b)[k] = a + k - 1
<1>1. b - a \in Nat
  OBVIOUS
<1>2. Run(a, b) \in [1..(b - a) -> Int]
  BY DEF Run
<1>3. QED  BY <1>1, <1>2 DEF Run

LEMMA RunOfNone == ASSUME NEW a \in Int PROVE Run(a, a) = <<>>
<1>1. 1..(a - a) = {}
  OBVIOUS
<1>2. QED  BY <1>1, RunIs

LEMMA FromToIs ==
    ASSUME NEW a \in Int, NEW b \in Int
    PROVE  FromTo(a, b) = Run(a, b + 1)
<1>1. b - a + 1 = b + 1 - a
  OBVIOUS
<1>2. QED  BY <1>1 DEF FromTo, Run

LEMMA RunEqual ==
    ASSUME NEW a \in Int, NEW b \in Int, a <= b, NEW s \in Seq(Int), Len(s) = b - a,
           \A k \in 1..(b - a) : s[k] = a + k - 1
    PROVE  s = Run(a, b)
<1>1. b - a \in Nat
  OBVIOUS
<1>2. s \in [1..(b - a) -> Int]
  BY <1>1
<1>3. QED  BY <1>2 DEF Run

LEMMA RunJoin ==
    ASSUME NEW a \in Int, NEW b \in Int, NEW c \in Int, a <= b, b <= c
    PROVE  Run(a, b) \o Run(b, c) = Run(a, c)
<1> DEFINE r == Run(a, b)
           s == Run(b, c)
           t == r \o s
<1>1. /\ r \in Seq(Int) /\ Len(r) = b - a /\ \A k \in 1..(b - a) : r[k] = a + k - 1
      /\ s \in Seq(Int) /\ Len(s) = c - b /\ \A k \in 1..(c - b) : s[k] = b + k - 1
  BY RunIs
<1> HIDE DEF r, s
<1>2. /\ t \in Seq(Int) /\ Len(t) = c - a
      /\ \A k \in 1..(c - a) : t[k] = IF k <= b - a THEN r[k] ELSE s[k - (b - a)]
  <2>1. /\ t \in Seq(Int) /\ Len(t) = Len(r) + Len(s)
        /\ \A k \in 1..(Len(r) + Len(s)) :
             t[k] = IF k <= Len(r) THEN r[k] ELSE s[k - Len(r)]
    <3>1. r \in Seq(Int) /\ s \in Seq(Int)
      BY <1>1
    <3>2. QED  BY <3>1
  <2>2. Len(r) + Len(s) = c - a /\ Len(r) = b - a
    BY <1>1
  <2> HIDE DEF t
  <2>3. QED  BY <2>1, <2>2
<1> HIDE DEF t
<1>3. ASSUME NEW k \in 1..(c - a)
      PROVE  t[k] = a + k - 1
  <2>1. CASE k <= b - a
    <3>1. k \in 1..(b - a)
      BY <2>1
    <3>2. QED  BY <1>1, <1>2, <2>1, <3>1
  <2>2. CASE ~(k <= b - a)
    <3>1. k - (b - a) \in 1..(c - b) /\ k \in Int
      BY <2>2
    <3>2. s[k - (b - a)] = b + (k - (b - a)) - 1
      BY <1>1, <3>1
    <3>3. QED  BY <1>2, <2>2, <3>1, <3>2
  <2>3. QED  BY <2>1, <2>2
<1>4. t = Run(a, c)
  BY <1>2, <1>3, RunEqual
<1>5. QED  BY <1>4 DEF t, r, s

LEMMA RunSub ==
    ASSUME NEW a \in Int, NEW b \in Int, NEW m \in Nat, NEW n \in Int,
           a <= b, m <= n, n <= b - a
    PROVE  SubSeq(Run(a, b), m + 1, n) = Run(a + m, a + n)
<1> DEFINE r == Run(a, b)
           t == SubSeq(r, m + 1, n)
<1>1. r \in Seq(Int) /\ Len(r) = b - a /\ \A k \in 1..(b - a) : r[k] = a + k - 1
  BY RunIs
<1> HIDE DEF r
<1>2. t \in Seq(Int) /\ Len(t) = n - m /\ \A k \in 1..(n - m) : t[k] = r[m + k]
  BY <1>1
<1> HIDE DEF t
<1>3. ASSUME NEW k \in 1..(n - m)
      PROVE  t[k] = a + m + k - 1
  <2>1. m + k \in 1..(b - a)
    OBVIOUS
  <2>2. QED  BY <1>1, <1>2, <2>1
<1>4. a + m \in Int /\ a + n \in Int /\ a + m <= a + n /\ Len(t) = (a + n) - (a + m)
  BY <1>2
<1>5. t = Run(a + m, a + n)
  BY <1>2, <1>3, <1>4, RunEqual
<1>6. QED  BY <1>5 DEF t, r
-----------------------------------------------------------------------------
(* The search in the list of parts *)

Holds(parts, m) == parts[m] > part /\ parts[m] <= lastPart

\* The body of the recursive function of SearchPart.
Half(f, parts, l, r) ==
    IF l >= r THEN l
    ELSE IF Holds(parts, (l + r) \div 2) THEN f[<<l, (l + r) \div 2>>]
         ELSE f[<<((l + r) \div 2) + 1, r>>]

\* f is that function where the interval has at most d elements.
IsSearch(f, parts, n, d) ==
    f = [w \in (1..n) \X (1..n) |->
            IF w[2] - w[1] <= d THEN Half(f, parts, w[1], w[2]) ELSE w[1]]

LEMMA LeastOf == ASSUME NEW T, T \subseteq Nat, T # {}
                 PROVE  \E n \in T : \A m \in T : n <= m
<1>1. PICK n \in T : \A m \in T : ~(<<m, n>> \in OpToRel(<, Nat))
  BY NatLessThanWellFounded, WFMin
<1>2. \A m \in T : ~(m < n)
  BY <1>1 DEF OpToRel
<1>3. QED  BY <1>2

LEMMA Middle ==
    ASSUME NEW n \in Nat, NEW l \in 1..n, NEW r \in 1..n, l < r
    PROVE  LET m == (l + r) \div 2
           IN  m \in l..(r - 1) /\ m \in 1..n /\ m + 1 \in 1..n
OBVIOUS

LEMMA SearchExists ==
    ASSUME NEW parts, NEW n \in Nat, NEW d \in Nat
    PROVE  \E f : IsSearch(f, parts, n, d)
<1> DEFINE Bad == {m \in Nat : ~\E f : IsSearch(f, parts, n, m)}
<1>1. SUFFICES ASSUME Bad # {} PROVE FALSE
  OBVIOUS
<1>2. PICK m \in Bad : \A k \in Bad : m <= k
  <2>1. Bad \subseteq Nat
    OBVIOUS
  <2> HIDE DEF Bad
  <2>2. QED  BY <2>1, <1>1, LeastOf
<1>3. m \in Nat /\ ~\E f : IsSearch(f, parts, n, m)
  BY <1>2
<1>4. PICK f : m = 0 \/ IsSearch(f, parts, n, m - 1)
  <2>1. CASE m = 0
    BY <2>1
  <2>2. CASE m # 0
    <3>1. m - 1 \in Nat /\ m - 1 \notin Bad
      BY <1>2, <1>3, <2>2
    <3>2. QED  BY <3>1
  <2>3. QED  BY <2>1, <2>2
<1> DEFINE g == [w \in (1..n) \X (1..n) |->
               IF w[2] - w[1] <= m THEN Half(f, parts, w[1], w[2]) ELSE w[1]]
<1>5. ASSUME m # 0, NEW l \in 1..n, NEW r \in 1..n, r - l < m
      PROVE  g[<<l, r>>] = f[<<l, r>>]
  <2>1. r - l <= m - 1 /\ r - l <= m
    BY <1>3, <1>5
  <2>2. f[<<l, r>>] = Half(f, parts, l, r)
    BY <1>4, <1>5, <2>1 DEF IsSearch
  <2>3. g[<<l, r>>] = Half(f, parts, l, r)
    BY <2>1
  <2>4. QED  BY <2>2, <2>3
<1>6. ASSUME NEW l \in 1..n, NEW r \in 1..n, r - l <= m
      PROVE  Half(g, parts, l, r) = Half(f, parts, l, r)
  <2>1. CASE l >= r
    BY <2>1 DEF Half
  <2>2. CASE l < r
    <3> DEFINE h == (l + r) \div 2
    <3>1. h \in l..(r - 1) /\ h \in 1..n /\ h + 1 \in 1..n
      BY <2>2, Middle
    <3>2. m # 0 /\ h - l < m /\ r - (h + 1) < m
      BY <1>3, <1>6, <2>2, <3>1
    <3> HIDE DEF h, g
    <3>3. g[<<l, h>>] = f[<<l, h>>] /\ g[<<h + 1, r>>] = f[<<h + 1, r>>]
      BY <1>5, <3>1, <3>2
    <3>4. QED  BY <3>3 DEF Half, h
  <2>3. QED  BY <2>1, <2>2
<1>7. g = [w \in (1..n) \X (1..n) |->
             IF w[2] - w[1] <= m THEN Half(g, parts, w[1], w[2]) ELSE w[1]]
  BY <1>6
<1>8. IsSearch(g, parts, n, m)
  BY <1>7 DEF IsSearch
<1>9. QED  BY <1>3, <1>8

\* The search ends at the right end, or where the condition holds.
LEMMA SearchIs ==
    ASSUME NEW f, NEW parts, NEW n \in Nat, IsSearch(f, parts, n, n)
    PROVE  \A l, r \in 1..n : l <= r => f[<<l, r>>] \in l..r /\ (f[<<l, r>>] = r \/ Holds(parts, f[<<l, r>>]))
<1> DEFINE Good(l, r) == f[<<l, r>>] \in l..r /\ (f[<<l, r>>] = r \/ Holds(parts, f[<<l, r>>]))
           Bad == {d \in Nat : \E l, r \in 1..n : l <= r /\ r - l = d /\ ~Good(l, r)}
<1>1. ASSUME Bad # {} PROVE FALSE
  <2>1. PICK d \in Bad : \A k \in Bad : d <= k
    <3>1. Bad \subseteq Nat
      OBVIOUS
    <3> HIDE DEF Bad
    <3>2. QED  BY <3>1, <1>1, LeastOf
  <2>2. PICK l \in 1..n, r \in 1..n : l <= r /\ r - l = d /\ ~Good(l, r)
    BY <2>1
  <2>3. \A a, b \in 1..n : a <= b /\ b - a < r - l => Good(a, b)
    <3> SUFFICES ASSUME NEW a \in 1..n, NEW b \in 1..n, a <= b, b - a < r - l, ~Good(a, b)
                 PROVE  FALSE
      OBVIOUS
    <3>1. b - a \in Nat
      OBVIOUS
    <3>2. b - a \in Bad
      BY <3>1
    <3> HIDE DEF Bad
    <3>3. d <= b - a
      BY <2>1, <3>2
    <3>4. QED  BY <2>2, <3>3
  <2>4. f[<<l, r>>] = Half(f, parts, l, r)
    <3>1. r - l <= n
      OBVIOUS
    <3>2. QED  BY <3>1 DEF IsSearch
  <2>5. CASE l = r
    <3>1. f[<<l, r>>] = l
      BY <2>4, <2>5 DEF Half
    <3>2. QED  BY <2>2, <2>5, <3>1
  <2>6. CASE l < r
    <3> DEFINE h == (l + r) \div 2
    <3>1. h \in l..(r - 1) /\ h \in 1..n /\ h + 1 \in 1..n
      BY <2>6, Middle
    <3>2. f[<<l, r>>] = IF Holds(parts, h) THEN f[<<l, h>>] ELSE f[<<h + 1, r>>]
      BY <2>4, <2>6 DEF Half
    <3> HIDE DEF h
    <3>3. Good(l, h) /\ Good(h + 1, r)
      <4>1. l <= h /\ h - l < r - l /\ h + 1 <= r /\ r - (h + 1) < r - l
        BY <3>1
      <4>2. QED  BY <2>3, <3>1, <4>1
    <3>4. CASE Holds(parts, h)
      <4>1. f[<<l, r>>] = f[<<l, h>>]
        BY <3>2, <3>4
      <4>2. f[<<l, h>>] \in l..r /\ Holds(parts, f[<<l, h>>])
        BY <3>1, <3>3, <3>4
      <4>3. QED  BY <2>2, <4>1, <4>2
    <3>5. CASE ~Holds(parts, h)
      <4>1. f[<<l, r>>] = f[<<h + 1, r>>]
        BY <3>2, <3>5
      <4>2. f[<<h + 1, r>>] \in l..r
        BY <3>1, <3>3
      <4>3. QED  BY <2>2, <3>3, <4>1, <4>2
    <3>6. QED  BY <3>4, <3>5
  <2>7. QED  BY <2>2, <2>5, <2>6
<1>2. QED
  <2> SUFFICES ASSUME NEW l \in 1..n, NEW r \in 1..n, l <= r PROVE Good(l, r)
    OBVIOUS
  <2>1. r - l \in Nat
    OBVIOUS
  <2>2. r - l \notin Bad
    BY <1>1
  <2>3. QED  BY <2>1, <2>2


\* The function that SearchPart chooses.
IsWhole(f, parts, ends) ==
    f = [w \in ends \X ends |-> Half(f, parts, w[1], w[2])]

LEMMA WholeIs ==
    ASSUME NEW parts, NEW n \in Nat
    PROVE  /\ \E f : IsWhole(f, parts, 1..n)
           /\ \A f : IsWhole(f, parts, 1..n) => IsSearch(f, parts, n, n)
<1>1. \A w \in (1..n) \X (1..n) : w[2] - w[1] <= n
  OBVIOUS
<1>2. ASSUME NEW f PROVE IsSearch(f, parts, n, n) <=> IsWhole(f, parts, 1..n)
  <2>1. [w \in (1..n) \X (1..n) |->
            IF w[2] - w[1] <= n THEN Half(f, parts, w[1], w[2]) ELSE w[1]]
        = [w \in (1..n) \X (1..n) |-> Half(f, parts, w[1], w[2])]
    BY <1>1
  <2>2. QED  BY <2>1, Zenon DEF IsSearch, IsWhole
<1>3. \E f : IsSearch(f, parts, n, n)
  BY SearchExists
<1>4. QED  BY <1>2, <1>3

\* What the search finds lies in the range, after the missing part.
LEMMA SearchPartIs ==
    ASSUME IsFiniteSet(stored), SearchPart # -1
    PROVE  part < SearchPart /\ SearchPart <= lastPart
<1> DEFINE parts == SetToSortSeq(stored, <)
           n == Cardinality(stored) + 1
           ends == 1..Cardinality(stored) + 1
           f == CHOOSE f : IsWhole(f, parts, ends)
           found == f[<<1, n>>]
<1>1. Cardinality(stored) \in Nat
  BY FS_CardinalityType
<1>2. SearchPart = IF found > Cardinality(stored) THEN -1 ELSE parts[found]
  BY DEF SearchPart, IsWhole, Half, Holds
<1> HIDE DEF parts
<1>3. n \in Nat /\ ends = 1..n
  BY <1>1
<1>4. IsSearch(f, parts, n, n)
  <2>1. IsWhole(f, parts, ends)
    BY <1>3, WholeIs
  <2>2. QED  BY <1>3, <2>1, WholeIs
<1> HIDE DEF f
<1>5. found \in 1..n /\ (found = n \/ Holds(parts, found))
  <2>1. 1 \in 1..n /\ n \in 1..n /\ 1 <= n
    BY <1>1
  <2>2. QED  BY <1>3, <1>4, <2>1, SearchIs
<1> HIDE DEF found
<1>6. ~(found > Cardinality(stored))
  BY <1>2
<1>7. Holds(parts, found) /\ SearchPart = parts[found]
  BY <1>1, <1>2, <1>5, <1>6
<1>8. QED  BY <1>7 DEF Holds
-----------------------------------------------------------------------------
(* The places of a response *)

\* Where part k begins.
Edge(k) == k * partSize

\* The byte after the range.
Stop == Lesser(end + 1, objSize)

\* The next byte of the range to send.
Position == IF i = 0 THEN start ELSE Edge(part)

\* Where n parts from the next one end.
EndOf(n) == Lesser(Edge(part + n), objSize)

\* The parts of the range, as far as the object goes.
InRange(b) == /\ b \in 0..(objSize - 1)
              /\ Edge(firstPart) <= b /\ b < Edge(lastPart + 1)

Ranged == start <= end /\ (end < objSize \/ (objSize = 0 /\ end = 0))

LazyTypes ==
    /\ partSize \in Nat \ {0}
    /\ objSize \in 0..MaxObjSize
    /\ header \in Headers
    /\ start \in Nat /\ end \in Nat /\ i \in Nat
    /\ stored \subseteq Parts
    /\ phase \in {"request", "part", "list", "next", "copy", "done", "failed", "refused"}

LEMMA Edges ==
    ASSUME partSize \in Nat \ {0}
    PROVE  /\ \A k \in Nat : Edge(k) \in Nat /\ Edge(k + 1) = Edge(k) + partSize
           /\ \A k, l \in Nat : k < l => Edge(k) + partSize <= Edge(l)
           /\ \A k, l \in Nat : k <= l => Edge(k) <= Edge(l) /\ Edge(l) - Edge(k) = Edge(l - k)
<1>1. \A k \in Nat : Edge(k) \in Nat /\ Edge(k + 1) = Edge(k) + partSize
  BY DEF Edge
<1>2. ASSUME NEW k \in Nat, NEW l \in Nat, k <= l
      PROVE  Edge(k) <= Edge(l) /\ Edge(l) - Edge(k) = Edge(l - k)
  <2>1. l - k \in Nat /\ l * partSize = k * partSize + (l - k) * partSize
    BY <1>2
  <2>2. (l - k) * partSize \in Nat /\ k * partSize \in Nat
    BY <2>1
  <2>3. QED  BY <2>1, <2>2 DEF Edge
<1>3. ASSUME NEW k \in Nat, NEW l \in Nat, k < l
      PROVE  Edge(k) + partSize <= Edge(l)
  <2>1. k + 1 \in Nat /\ k + 1 <= l
    BY <1>3
  <2>2. QED  BY <1>1, <1>2, <2>1
<1>4. QED  BY <1>1, <1>2, <1>3

LEMMA PartOfByte ==
    ASSUME partSize \in Nat \ {0}, NEW b \in Nat
    PROVE  /\ b \div partSize \in Nat /\ b % partSize \in 0..(partSize - 1)
           /\ b = Edge(b \div partSize) + (b % partSize)
           /\ Edge(b \div partSize) <= b /\ b < Edge(b \div partSize) + partSize
<1>1. /\ b \div partSize \in Nat /\ b % partSize \in 0..(partSize - 1)
      /\ b = (b \div partSize) * partSize + (b % partSize)
  BY Division
<1>2. (b \div partSize) * partSize \in Nat
  BY <1>1
<1>3. QED  BY <1>1, <1>2 DEF Edge

LEMMA RangeBounds ==
    ASSUME LazyTypes, Ranged
    PROVE  /\ firstPart \in Nat /\ lastPart \in Nat /\ firstPart <= lastPart
           /\ start = Edge(firstPart) + (start % partSize)
           /\ end = Edge(lastPart) + (end % partSize)
           /\ start % partSize \in 0..(partSize - 1) /\ end % partSize \in 0..(partSize - 1)
           /\ Stop \in Nat /\ start <= Stop /\ Stop <= Edge(lastPart + 1)
           /\ Stop = IF objSize = 0 THEN 0 ELSE end + 1
<1>1. partSize \in Nat \ {0} /\ start \in Nat /\ end \in Nat /\ objSize \in Nat /\ start <= end
  BY DEF LazyTypes, Ranged
<1>2. /\ firstPart \in Nat /\ start % partSize \in 0..(partSize - 1)
      /\ start = Edge(firstPart) + (start % partSize)
      /\ Edge(firstPart) <= start /\ start < Edge(firstPart) + partSize
  BY <1>1, PartOfByte DEF firstPart
<1>3. /\ lastPart \in Nat /\ end % partSize \in 0..(partSize - 1)
      /\ end = Edge(lastPart) + (end % partSize)
      /\ Edge(lastPart) <= end /\ end < Edge(lastPart) + partSize
  BY <1>1, PartOfByte DEF lastPart
<1>4. Edge(firstPart) \in Nat /\ Edge(lastPart) \in Nat /\ Edge(lastPart + 1) = Edge(lastPart) + partSize
  BY <1>1, <1>2, <1>3, Edges
<1>5. firstPart <= lastPart
  <2>1. lastPart < firstPart => Edge(lastPart) + partSize <= Edge(firstPart)
    BY <1>1, <1>2, <1>3, Edges
  <2>2. QED  BY <1>1, <1>2, <1>3, <1>4, <2>1
<1>6. Stop = IF objSize = 0 THEN 0 ELSE end + 1
  BY <1>1 DEF Stop, Lesser, Ranged
<1>7. objSize = 0 => start = 0
  BY <1>1 DEF Ranged
<1>8. QED  BY <1>1, <1>2, <1>3, <1>4, <1>5, <1>6, <1>7

LEMMA Places ==
    ASSUME LazyTypes, Ranged, i < indexes
    PROVE  /\ part \in Nat /\ firstPart <= part /\ part <= lastPart
           /\ i = 0 => part = firstPart
           /\ Edge(part) \in Nat /\ Edge(firstPart) <= Edge(part)
           /\ Edge(part) <= end /\ Edge(part) <= objSize
           /\ Position \in Nat /\ Edge(part) <= Position
           /\ start <= Position /\ Position <= Stop
<1>1. /\ firstPart \in Nat /\ lastPart \in Nat /\ firstPart <= lastPart
      /\ start = Edge(firstPart) + (start % partSize)
      /\ end = Edge(lastPart) + (end % partSize)
      /\ start % partSize \in 0..(partSize - 1) /\ end % partSize \in 0..(partSize - 1)
      /\ Stop \in Nat /\ start <= Stop
      /\ Stop = IF objSize = 0 THEN 0 ELSE end + 1
  BY RangeBounds
<1>2. partSize \in Nat \ {0} /\ start \in Nat /\ end \in Nat /\ objSize \in Nat /\ i \in Nat
  BY DEF LazyTypes
<1>3. part \in Nat /\ firstPart <= part /\ part <= lastPart /\ (i = 0 => part = firstPart)
      /\ (i # 0 => firstPart < part)
  BY <1>1, <1>2 DEF part, indexes
<1>4. /\ Edge(firstPart) \in Nat /\ Edge(part) \in Nat /\ Edge(lastPart) \in Nat
      /\ Edge(firstPart) <= Edge(part) /\ Edge(part) <= Edge(lastPart)
      /\ i # 0 => Edge(firstPart) + partSize <= Edge(part)
  BY <1>1, <1>2, <1>3, Edges
<1>5. Edge(part) <= end /\ Edge(part) <= objSize
  BY <1>1, <1>2, <1>4 DEF Ranged
<1>6. CASE i = 0
  BY <1>1, <1>2, <1>3, <1>4, <1>5, <1>6 DEF Position
<1>7. CASE i # 0
  <2>1. Position = Edge(part) /\ start < Edge(part)
    BY <1>1, <1>2, <1>4, <1>7 DEF Position
  <2>2. objSize # 0
    BY <1>2, <1>4, <1>5, <2>1
  <2>3. QED  BY <1>1, <1>2, <1>3, <1>4, <1>5, <1>7, <2>1, <2>2
<1>8. QED  BY <1>6, <1>7
-----------------------------------------------------------------------------
(* The contents that getContents makes *)

\* A place that is on a boundary of parts, or where the object ends.
IsCut(b) == b = objSize \/ \E k \in Nat : b = Edge(k)

\* u and f are the bytes of n parts from the next one, u to a boundary.
Contents(u, f, n) ==
    \E cut \in Nat : /\ Edge(part) <= cut /\ cut <= EndOf(n) /\ IsCut(cut)
                     /\ u = Run(Edge(part), cut) /\ f = Run(cut, EndOf(n))

\* Bytes of the parts of the range only.
Inside(u) ==
    /\ u \in Seq(Int)
    /\ \A k \in 1..Len(u) : InRange(u[k])

LEMMA BodiesAre ==
    ASSUME objSize \in Nat, NEW from \in Nat, NEW to \in Int,
           NEW stop, stop = Lesser(to, objSize - 1) + 1, from <= stop,
           NEW body \in Bodies(from, to)
    PROVE  /\ body \in Seq(Int) /\ \A k \in 1..Len(body) : body[k] \in from..(stop - 1)
           /\ Truncates = FALSE => body = Run(from, stop)
<1> DEFINE whole == FromTo(from, Lesser(to, objSize - 1))
<1>1. stop \in Int /\ Lesser(to, objSize - 1) = stop - 1
  BY DEF Lesser
<1>2. whole = Run(from, stop)
  BY <1>1, FromToIs
<1>3. /\ Run(from, stop) \in Seq(Int) /\ Len(Run(from, stop)) = stop - from
      /\ \A k \in 1..(stop - from) : Run(from, stop)[k] = from + k - 1
  <2>1. from \in Int /\ stop \in Int /\ from <= stop
    BY <1>1
  <2>2. QED  BY ONLY <2>1, RunIs
<1>4. CASE Truncates = FALSE
  <2>1. body = Run(from, stop)
    BY <1>2, <1>4 DEF Bodies
  <2>2. \A k \in 1..(stop - from) : from + k - 1 \in from..(stop - 1)
    BY <1>1
  <2>3. QED  BY <1>3, <2>1, <2>2
<1>5. CASE Truncates # FALSE
  <2>1. PICK n \in 0..(stop - from) : body = SubSeq(Run(from, stop), 1, n)
    <3>1. body \in {SubSeq(whole, 1, n) : n \in 0..Len(whole)}
      BY <1>5, LazyResponseAssumption DEF Bodies
    <3> HIDE DEF whole
    <3>2. QED  BY <1>2, <1>3, <3>1
  <2>2. SubSeq(Run(from, stop), 0 + 1, n) = Run(from + 0, from + n)
    <3>1. /\ from \in Int /\ stop \in Int /\ from <= stop /\ 0 \in Nat
          /\ n \in Int /\ 0 <= n /\ n <= stop - from
      BY <1>1
    <3>2. QED  BY ONLY <3>1, RunSub
  <2>3. 0 + 1 = 1 /\ from + 0 = from
    OBVIOUS
  <2>4. body = Run(from, from + n)
    BY <2>1, <2>2, <2>3
  <2>5. /\ Run(from, from + n) \in Seq(Int) /\ Len(Run(from, from + n)) = n
        /\ \A k \in 1..n : Run(from, from + n)[k] = from + k - 1
    <3> DEFINE b == from + n
    <3>1. b - from = n /\ from <= b /\ from \in Int /\ b \in Int /\ n \in Int
      OBVIOUS
    <3> HIDE DEF b
    <3>2. /\ Run(from, b) \in Seq(Int) /\ Len(Run(from, b)) = b - from
          /\ \A k \in 1..(b - from) : Run(from, b)[k] = from + k - 1
      BY ONLY <3>1, RunIs
    <3>3. QED  BY <3>1, <3>2 DEF b
  <2>6. \A k \in 1..n : from + k - 1 \in from..(stop - 1)
    BY <1>1
  <2>7. body \in Seq(Int) /\ Len(body) = n /\ \A k \in 1..n : body[k] = from + k - 1
    BY <2>4, <2>5
  <2>8. QED  BY <1>5, <2>6, <2>7
<1>6. QED  BY <1>4, <1>5

LEMMA FileIs ==
    ASSUME LazyTypes, NEW p \in Nat, Edge(p) <= objSize
    PROVE  PartBytes(p) = Run(Edge(p), Lesser(Edge(p + 1), objSize)) /\ PartBytes(p) \in Seq(Int)
<1>1. partSize \in Nat \ {0} /\ objSize \in Nat
  BY DEF LazyTypes
<1>2. p * partSize \in Int /\ (p + 1) * partSize \in Int
  BY <1>1
<1>3. Lesser((p + 1) * partSize, objSize) \in Int
  BY <1>1, <1>2 DEF Lesser
<1>4. Lesser((p + 1) * partSize, objSize) - 1 + 1 = Lesser((p + 1) * partSize, objSize)
  BY <1>3
<1>5. PartBytes(p) = Run(Edge(p), Lesser(Edge(p + 1), objSize))
  BY <1>2, <1>3, <1>4, FromToIs DEF PartBytes, Edge
<1>6. /\ Edge(p) \in Int /\ Lesser(Edge(p + 1), objSize) \in Int
      /\ Edge(p) <= Lesser(Edge(p + 1), objSize)
  <2>1. Edge(p) \in Nat /\ Edge(p + 1) = Edge(p) + partSize
    BY <1>1, Edges
  <2>2. QED  BY <1>1, <2>1 DEF Lesser
<1>7. PartBytes(p) \in Seq(Int)
  BY <1>5, <1>6, RunIs
<1>8. QED  BY <1>5, <1>7

\* A part of the range is read from its file.
LEMMA ContentsOfStored ==
    ASSUME LazyTypes, Ranged, i < indexes
    PROVE  /\ Contents(<<>>, PartBytes(part), 1) /\ Inside(<<>>)
           /\ PartBytes(part) \in Seq(Int) /\ 1 \in Nat \ {0} /\ i + 1 <= indexes
<1>1. /\ part \in Nat /\ Edge(part) \in Nat /\ Edge(part) <= objSize
      /\ firstPart \in Nat /\ lastPart \in Nat
  BY Places, RangeBounds
<1>2. PartBytes(part) = Run(Edge(part), EndOf(1)) /\ PartBytes(part) \in Seq(Int)
  BY <1>1, FileIs DEF EndOf
<1>3. <<>> = Run(Edge(part), Edge(part))
  BY <1>1, RunOfNone
<1>4. Edge(part) <= EndOf(1)
  BY <1>1, Edges DEF EndOf, Lesser, LazyTypes
<1>5. IsCut(Edge(part))
  BY <1>1 DEF IsCut
<1>6. Contents(<<>>, PartBytes(part), 1)
  <2>1. <<>> = Run(Edge(part), Edge(part)) /\ Edge(part) <= Edge(part)
    BY <1>1, <1>3
  <2>2. QED  BY <1>1, <1>2, <1>4, <1>5, <2>1, Zenon DEF Contents
<1>7. Inside(<<>>)
  BY DEF Inside
<1>8. i + 1 <= indexes
  BY <1>1 DEF indexes, LazyTypes
<1>9. QED  BY <1>2, <1>6, <1>7, <1>8

\* All that is left of the range comes from the upstream.
LEMMA ContentsToTheEnd ==
    ASSUME LazyTypes, Ranged, i < indexes,
           NEW body \in Bodies(part * partSize, RangeToByte)
    PROVE  /\ Truncates = FALSE => Contents(body, <<>>, indexes - i)
           /\ Inside(body)
           /\ indexes - i \in Nat \ {0} /\ i + (indexes - i) <= indexes
<1>1. /\ part \in Nat /\ Edge(part) \in Nat /\ Edge(part) <= objSize /\ part <= lastPart
      /\ firstPart \in Nat /\ lastPart \in Nat /\ Edge(firstPart) <= Edge(part)
  BY Places, RangeBounds
<1>2. i \in Nat /\ objSize \in Nat /\ partSize \in Nat \ {0}
  BY DEF LazyTypes
<1>3. indexes - i \in Nat \ {0} /\ i + (indexes - i) <= indexes /\ part + (indexes - i) = lastPart + 1
  BY <1>1, <1>2 DEF indexes, part
<1> DEFINE stop == Lesser(Edge(lastPart + 1), objSize)
<1>4. EndOf(indexes - i) = stop
  BY <1>3 DEF EndOf
<1>5. Edge(lastPart + 1) \in Nat /\ Edge(part) <= Edge(lastPart + 1)
  <2>1. lastPart + 1 \in Nat /\ part <= lastPart + 1
    BY <1>1
  <2>2. QED  BY <1>1, <1>2, <2>1, Edges
<1>6. RangeToByte = Lesser(objSize, Edge(lastPart + 1) - 1)
  BY DEF RangeToByte, Edge
<1>7. /\ stop = Lesser(RangeToByte, objSize - 1) + 1 /\ Edge(part) <= stop
      /\ stop \in Nat /\ RangeToByte \in Int
  BY <1>1, <1>2, <1>5, <1>6 DEF Lesser
<1>8. body \in Bodies(Edge(part), RangeToByte)
  BY DEF Edge
<1>9. IsCut(stop)
  BY <1>1, <1>5 DEF Lesser, IsCut
<1>10. stop <= Edge(lastPart + 1) /\ stop <= objSize
  BY <1>2, <1>5 DEF Lesser
<1> HIDE DEF stop
<1>11. /\ body \in Seq(Int) /\ \A k \in 1..Len(body) : body[k] \in Edge(part)..(stop - 1)
       /\ Truncates = FALSE => body = Run(Edge(part), stop)
  BY <1>1, <1>2, <1>7, <1>8, BodiesAre
<1>12. \A b \in Edge(part)..(stop - 1) : InRange(b)
  <2>1. Edge(firstPart) \in Nat
    BY <1>1, <1>2, Edges
  <2>2. QED  BY <1>1, <1>2, <1>5, <1>7, <1>10, <2>1 DEF InRange
<1>13. Inside(body)
  BY <1>11, <1>12 DEF Inside
<1>14. <<>> = Run(stop, stop)
  BY <1>7, RunOfNone
<1>15. Truncates = FALSE => Contents(body, <<>>, indexes - i)
  BY <1>4, <1>7, <1>9, <1>11, <1>14 DEF Contents
<1>16. QED  BY <1>3, <1>13, <1>15

\* The upstream is asked for the parts before one of the list.
LEMMA ContentsToNext ==
    ASSUME LazyTypes, Ranged, i < indexes, next \in stored,
           part < next, next <= lastPart,
           NEW body \in Bodies(part * partSize, NextToByte)
    PROVE  /\ Truncates = FALSE => Contents(body, PartBytes(next), next - part + 1)
           /\ Inside(body)
           /\ PartBytes(next) \in Seq(Int)
           /\ next - part + 1 \in Nat \ {0} /\ i + (next - part + 1) <= indexes
<1>1. /\ part \in Nat /\ Edge(part) \in Nat /\ Edge(part) <= objSize
      /\ firstPart \in Nat /\ lastPart \in Nat /\ Edge(firstPart) <= Edge(part)
      /\ end = Edge(lastPart) + (end % partSize) /\ end % partSize \in 0..(partSize - 1)
  BY Places, RangeBounds
<1>2. i \in Nat /\ objSize \in Nat /\ partSize \in Nat \ {0} /\ next \in Nat /\ end \in Nat
  BY DEF LazyTypes, Parts
<1>3. /\ next - part + 1 \in Nat \ {0} /\ i + (next - part + 1) <= indexes
      /\ part + (next - part + 1) = next + 1
  BY <1>1, <1>2 DEF indexes, part
<1>4. /\ Edge(next) \in Nat /\ Edge(part) + partSize <= Edge(next) /\ Edge(next) <= Edge(lastPart)
      /\ Edge(next + 1) = Edge(next) + partSize /\ Edge(lastPart) \in Nat
      /\ Edge(lastPart) <= Edge(lastPart + 1) /\ Edge(lastPart + 1) \in Nat
      /\ Edge(firstPart) \in Nat
  BY <1>1, <1>2, Edges
<1>5. Edge(next) <= end /\ Edge(next) < objSize
  BY <1>1, <1>2, <1>4 DEF Ranged
<1>6. EndOf(next - part + 1) = Lesser(Edge(next + 1), objSize)
  BY <1>3 DEF EndOf
<1>7. /\ PartBytes(next) = Run(Edge(next), EndOf(next - part + 1))
      /\ PartBytes(next) \in Seq(Int)
  <2>1. Edge(next) <= objSize
    BY <1>2, <1>4, <1>5
  <2>2. QED  BY <1>2, <1>6, <2>1, FileIs
<1>8. Edge(next) <= EndOf(next - part + 1)
  BY <1>2, <1>4, <1>5, <1>6 DEF Lesser
<1>9. NextToByte = Edge(next) - 1
  BY <1>2, <1>4, <1>5 DEF NextToByte, Lesser, Edge
<1>10. Edge(next) = Lesser(NextToByte, objSize - 1) + 1 /\ NextToByte \in Int
  BY <1>2, <1>4, <1>5, <1>9 DEF Lesser
<1>11. body \in Bodies(Edge(part), NextToByte)
  BY DEF Edge
<1>12. /\ body \in Seq(Int) /\ \A k \in 1..Len(body) : body[k] \in Edge(part)..(Edge(next) - 1)
       /\ Truncates = FALSE => body = Run(Edge(part), Edge(next))
  <2>1. Edge(part) <= Edge(next)
    BY <1>1, <1>2, <1>4
  <2> HIDE DEF Edge
  <2>2. QED  BY <1>1, <1>2, <1>10, <1>11, <2>1, BodiesAre
<1>13. \A b \in Edge(part)..(Edge(next) - 1) : InRange(b)
  BY <1>1, <1>2, <1>4, <1>5 DEF InRange
<1>14. Inside(body)
  BY <1>12, <1>13 DEF Inside
<1>15. IsCut(Edge(next))
  BY <1>2 DEF IsCut
<1>16. Truncates = FALSE => Contents(body, PartBytes(next), next - part + 1)
  <2>1. Edge(part) <= Edge(next)
    BY <1>1, <1>2, <1>4
  <2>2. QED  BY <1>4, <1>7, <1>8, <1>12, <1>15, <2>1, Zenon DEF Contents
<1>17. QED  BY <1>3, <1>7, <1>14, <1>16
-----------------------------------------------------------------------------
(* What is sent, and what is read, of the contents *)

\* Where the next part begins after the contents, or the range ends.
NextPosition == IF isLast THEN Stop ELSE Edge(part + count)

LEMMA SendsNext ==
    ASSUME LazyTypes, Ranged, i < indexes, count \in Nat \ {0}, i + count <= indexes,
           Contents(up, file, count)
    PROVE  /\ NextPosition \in Nat /\ Position <= NextPosition /\ NextPosition <= Stop
           /\ toSend = Run(Position, NextPosition)
<1>1. /\ part \in Nat /\ Edge(part) \in Nat /\ Edge(part) <= objSize /\ part <= lastPart
      /\ i = 0 => part = firstPart
      /\ firstPart \in Nat /\ lastPart \in Nat /\ Edge(firstPart) <= Edge(part)
      /\ start = Edge(firstPart) + (start % partSize)
      /\ start % partSize \in 0..(partSize - 1)
      /\ end = Edge(lastPart) + (end % partSize) /\ end % partSize \in 0..(partSize - 1)
      /\ Position \in Nat /\ Edge(part) <= Position /\ Position <= Stop /\ start <= Position
      /\ Stop \in Nat /\ Stop = IF objSize = 0 THEN 0 ELSE end + 1
      /\ Stop <= Edge(lastPart + 1)
  BY Places, RangeBounds
<1>2. i \in Nat /\ objSize \in Nat /\ partSize \in Nat \ {0} /\ start \in Nat /\ end \in Nat
  BY DEF LazyTypes
<1>3. PICK cut \in Nat : /\ Edge(part) <= cut /\ cut <= EndOf(count)
                         /\ up = Run(Edge(part), cut) /\ file = Run(cut, EndOf(count))
  BY DEF Contents
<1>4. /\ part + count \in Nat /\ part + count <= lastPart + 1
      /\ isLast <=> part + count = lastPart + 1
  BY <1>1, <1>2 DEF part, indexes, isLast
<1>5. /\ Edge(part + count) \in Nat /\ Edge(lastPart) \in Nat /\ Edge(lastPart + 1) \in Nat
      /\ Edge(lastPart + 1) = Edge(lastPart) + partSize
      /\ Edge(part) + partSize <= Edge(part + count)
      /\ ~isLast => Edge(part + count) <= Edge(lastPart)
  <2>1. ~isLast => part + count <= lastPart
    BY <1>1, <1>4
  <2>2. part < part + count
    BY <1>1
  <2>3. Edge(part) + partSize <= Edge(part + count) /\ Edge(part + count) \in Nat
    BY <1>1, <1>2, <1>4, <2>2, Edges
  <2>4. ~isLast => Edge(part + count) <= Edge(lastPart)
    BY <1>1, <1>2, <1>4, <2>1, Edges
  <2>5. /\ Edge(lastPart) \in Nat /\ Edge(lastPart + 1) \in Nat
        /\ Edge(lastPart + 1) = Edge(lastPart) + partSize
    <3>1. lastPart + 1 \in Nat
      BY <1>1
    <3>2. QED  BY <1>1, <1>2, <3>1, Edges
  <2>6. QED  BY <2>3, <2>4, <2>5
<1>6. /\ EndOf(count) \in Nat
      /\ EndOf(count) = IF isLast THEN Lesser(Edge(lastPart + 1), objSize) ELSE Edge(part + count)
      /\ NextPosition <= EndOf(count)
  <2>1. CASE isLast
    BY <1>1, <1>2, <1>4, <1>5, <2>1 DEF EndOf, Lesser, NextPosition, Ranged
  <2>2. CASE ~isLast
    <3>1. Edge(part + count) <= end /\ end < objSize
      BY <1>1, <1>2, <1>5, <2>2 DEF Ranged
    <3>2. QED  BY <1>2, <1>5, <2>2, <3>1 DEF EndOf, Lesser, NextPosition
  <2>3. QED  BY <2>1, <2>2
<1>7. data = Run(Edge(part), EndOf(count))
  <2>1. /\ Edge(part) \in Int /\ cut \in Int /\ EndOf(count) \in Int
        /\ Edge(part) <= cut /\ cut <= EndOf(count)
    BY <1>1, <1>3, <1>6
  <2>2. QED  BY <1>3, <2>1, RunJoin DEF data
<1>8. Len(data) = EndOf(count) - Edge(part)
  <2>1. /\ Edge(part) \in Int /\ EndOf(count) \in Int /\ Edge(part) <= EndOf(count)
    BY <1>1, <1>3, <1>6
  <2>2. QED  BY <1>7, <2>1, RunIs
<1>9. startOffset \in Nat /\ Edge(part) + startOffset = Position
  BY <1>1, <1>2 DEF startOffset, Position
<1>10. /\ NextPosition \in Nat /\ Position <= NextPosition /\ NextPosition <= Stop
  <2>1. CASE isLast
    BY <1>1, <2>1 DEF NextPosition
  <2>2. CASE ~isLast
    <3>1. NextPosition = Edge(part + count) /\ Edge(part + count) <= end /\ objSize # 0
      BY <1>1, <1>2, <1>5, <2>2 DEF NextPosition, Ranged
    <3>2. Position <= Edge(part + count)
      BY <1>1, <1>2, <1>5 DEF Position
    <3>3. QED  BY <1>1, <1>2, <1>5, <3>1, <3>2
  <2>3. QED  BY <2>1, <2>2
<1> DEFINE limit == IF isLast THEN Lesser(startOffset + endLimit, Len(data)) ELSE Len(data)
<1>11. limit = NextPosition - Edge(part)
  <2>1. CASE isLast
    <3> DEFINE k == count - 1
    <3>1. k \in Nat /\ lastPart - part = k /\ part <= lastPart
      BY <1>1, <1>2, <1>4, <2>1
    <3>2. Edge(k) = Edge(lastPart) - Edge(part) /\ Edge(k) \in Nat
      <4>1. Edge(lastPart) - Edge(part) = Edge(lastPart - part)
        BY <1>1, <1>2, Edges
      <4>2. Edge(k) = Edge(lastPart) - Edge(part)
        BY <3>1, <4>1, Zenon
      <4> HIDE DEF k
      <4>3. Edge(k) \in Nat
        BY <1>2, <3>1, Edges
      <4>4. QED  BY <4>2, <4>3
    <3>3. startOffset + endLimit = Edge(k) + (end % partSize) + 1
      <4> DEFINE e == Edge(k)
      <4>1. e \in Int /\ startOffset \in Int /\ end % partSize \in Int
        BY <1>1, <1>2, <1>9, <3>2
      <4>2. endLimit = e + (end % partSize) + 1 - startOffset
        BY DEF endLimit, Edge
      <4> HIDE DEF e, k
      <4>3. startOffset + endLimit = e + (end % partSize) + 1
        BY <4>1, <4>2
      <4>4. QED  BY <4>3 DEF e
    <3> HIDE DEF k
    <3>4. startOffset + endLimit = end + 1 - Edge(part)
      BY <1>1, <1>2, <1>5, <3>2, <3>3
    <3>5. Lesser(startOffset + endLimit, Len(data)) = Stop - Edge(part)
      <4>1. CASE objSize = 0
        <5>1. Edge(part) = 0 /\ end = 0 /\ Stop = 0 /\ EndOf(count) = 0
          BY <1>1, <1>2, <1>5, <1>6, <2>1, <4>1 DEF Ranged, Lesser
        <5>2. QED  BY <1>8, <3>4, <5>1 DEF Lesser
      <4>2. CASE objSize # 0
        <5>1. Stop = end + 1 /\ Stop <= EndOf(count)
          BY <1>1, <1>6, <2>1, <4>2 DEF NextPosition
        <5>2. /\ startOffset + endLimit = Stop - Edge(part)
              /\ Len(data) = EndOf(count) - Edge(part)
              /\ ~(Stop - Edge(part) > EndOf(count) - Edge(part))
          <6>1. startOffset + endLimit = Stop - Edge(part)
            <7>1. Stop - Edge(part) = end + 1 - Edge(part)
              BY <1>1, <1>2, <5>1
            <7>2. QED  BY <3>4, <7>1
          <6>2. Stop \in Int /\ Edge(part) \in Int /\ EndOf(count) \in Int
            BY <1>1, <1>6
          <6>3. ~(Stop - Edge(part) > EndOf(count) - Edge(part))
            BY ONLY <5>1, <6>2
          <6>4. QED  BY <1>8, <6>1, <6>3
        <5>3. QED  BY <5>2, Zenon DEF Lesser
      <4>3. QED  BY <4>1, <4>2
    <3>6. QED  BY <2>1, <3>5 DEF NextPosition
  <2>2. CASE ~isLast
    BY <1>6, <1>8, <2>2 DEF NextPosition
  <2>3. QED  BY <2>1, <2>2
<1>12. toSend = SubSeq(Run(Edge(part), EndOf(count)), startOffset + 1, NextPosition - Edge(part))
  BY <1>7, <1>11 DEF toSend
<1>13. toSend = Run(Edge(part) + startOffset, Edge(part) + (NextPosition - Edge(part)))
  <2> DEFINE n == NextPosition - Edge(part)
  <2>1. /\ Edge(part) \in Int /\ EndOf(count) \in Int /\ Edge(part) <= EndOf(count)
        /\ startOffset \in Nat /\ n \in Int /\ startOffset <= n /\ n <= EndOf(count) - Edge(part)
    BY <1>1, <1>3, <1>6, <1>9, <1>10
  <2> HIDE DEF n
  <2>2. SubSeq(Run(Edge(part), EndOf(count)), startOffset + 1, n)
          = Run(Edge(part) + startOffset, Edge(part) + n)
    BY ONLY <2>1, RunSub
  <2>3. QED  BY <1>12, <2>2 DEF n
<1>14. Edge(part) + (NextPosition - Edge(part)) = NextPosition
  BY <1>1, <1>10
<1>15. QED  BY <1>9, <1>10, <1>13, <1>14
\* Every part is in F whole, or not at all.
WholeParts(F) ==
    \A p \in Parts : ToSet(PartBytes(p)) \subseteq F \/ ToSet(PartBytes(p)) \cap F = {}

LEMMA BytesOfPart ==
    ASSUME LazyTypes, NEW p \in Nat
    PROVE  ToSet(PartBytes(p)) = Edge(p)..(Lesser(Edge(p + 1), objSize) - 1)
<1> DEFINE stop == Lesser(Edge(p + 1), objSize)
<1>1. partSize \in Nat \ {0} /\ objSize \in Nat
  BY DEF LazyTypes
<1>2. Edge(p) \in Nat /\ Edge(p + 1) \in Nat
  BY <1>1, Edges
<1>3. PartBytes(p) = [k \in 1..((stop - 1) - Edge(p) + 1) |-> Edge(p) + k - 1]
  BY DEF PartBytes, FromTo, Edge
<1>4. stop \in Int
  BY <1>1, <1>2 DEF Lesser
<1> HIDE DEF stop
<1>5. DOMAIN PartBytes(p) = 1..(stop - Edge(p))
      /\ \A k \in 1..(stop - Edge(p)) : PartBytes(p)[k] = Edge(p) + k - 1
  <2>1. (stop - 1) - Edge(p) + 1 = stop - Edge(p)
    BY <1>2, <1>4
  <2>2. QED  BY <1>3, <2>1
<1>6. ASSUME NEW b \in Edge(p)..(stop - 1)
      PROVE  \E k \in DOMAIN PartBytes(p) : PartBytes(p)[k] = b
  <2>1. b - Edge(p) + 1 \in 1..(stop - Edge(p)) /\ Edge(p) + (b - Edge(p) + 1) - 1 = b
    BY <1>2, <1>4
  <2>2. QED  BY <1>5, <2>1
<1>7. ASSUME NEW k \in DOMAIN PartBytes(p)
      PROVE  PartBytes(p)[k] \in Edge(p)..(stop - 1)
  BY <1>2, <1>4, <1>5
<1>8. QED  BY <1>6, <1>7 DEF ToSet, stop

\* The bytes between two boundaries are those of whole parts.
LEMMA AddWhole ==
    ASSUME LazyTypes, NEW F, WholeParts(F), NEW a \in Nat, NEW b \in Nat, IsCut(b), b <= objSize,
           NEW S, S = Edge(a)..(b - 1)
    PROVE  WholeParts(F \cup S)
<1>1. partSize \in Nat \ {0} /\ objSize \in Nat
  BY DEF LazyTypes
<1>2. ASSUME NEW p \in Parts
      PROVE  ToSet(PartBytes(p)) \subseteq S \/ ToSet(PartBytes(p)) \cap S = {}
  <2> DEFINE stop == Lesser(Edge(p + 1), objSize)
  <2>1. p \in Nat
    BY DEF Parts
  <2>2. ToSet(PartBytes(p)) = Edge(p)..(stop - 1)
    BY <2>1, BytesOfPart
  <2>3. /\ Edge(p) \in Nat /\ Edge(p + 1) \in Nat /\ Edge(a) \in Nat
        /\ stop \in Nat /\ stop <= Edge(p + 1) /\ stop <= objSize
        /\ Edge(p + 1) = Edge(p) + partSize
    <3>1. Edge(p) \in Nat /\ Edge(a) \in Nat /\ Edge(p + 1) = Edge(p) + partSize
      BY <1>1, <2>1, Edges
    <3>2. Edge(p + 1) \in Nat
      BY <1>1, <3>1
    <3>3. QED  BY <1>1, <3>1, <3>2 DEF Lesser
  <2> HIDE DEF stop
  <2>4. CASE p < a
    <3>1. Edge(p) + partSize <= Edge(a)
      BY <1>1, <2>1, <2>4, Edges
    <3>2. \A x \in Edge(p)..(stop - 1) : x \notin S
      BY <2>3, <3>1
    <3>3. QED  BY <2>2, <3>2
  <2>5. CASE a <= p /\ Edge(p) < b
    <3>1. Edge(a) <= Edge(p)
      BY <1>1, <2>1, <2>5, Edges
    <3>2. stop <= b
      <4>1. CASE b = objSize
        BY <2>3, <4>1
      <4>2. ASSUME NEW k \in Nat, b = Edge(k) PROVE stop <= b
        <5>1. k <= p => Edge(k) <= Edge(p)
          BY <1>1, <2>1, Edges
        <5>2. p < k => Edge(p) + partSize <= Edge(k)
          BY <1>1, <2>1, Edges
        <5>3. QED  BY <2>1, <2>3, <2>5, <4>2, <5>1, <5>2
      <4>3. QED  BY <4>1, <4>2 DEF IsCut
    <3>3. \A x \in Edge(p)..(stop - 1) : x \in S
      BY <2>3, <3>1, <3>2
    <3>4. QED  BY <2>2, <3>3
  <2>6. CASE a <= p /\ b <= Edge(p)
    <3>1. \A x \in Edge(p)..(stop - 1) : x \notin S
      BY <2>3, <2>6
    <3>2. QED  BY <2>2, <3>1
  <2>7. QED  BY <2>1, <2>3, <2>4, <2>5, <2>6
<1>3. ASSUME NEW p \in Parts
      PROVE  ToSet(PartBytes(p)) \subseteq F \cup S \/ ToSet(PartBytes(p)) \cap (F \cup S) = {}
  <2>1. ToSet(PartBytes(p)) \subseteq F \/ ToSet(PartBytes(p)) \cap F = {}
    BY DEF WholeParts
  <2>2. QED  BY <1>2, <2>1
<1>4. QED  BY <1>3 DEF WholeParts

\* Whatever is read of the contents, no more than n bytes, Close reads on to a boundary.
LEMMA ReadsInside ==
    ASSUME LazyTypes, Len(up) \in Nat, NEW n \in Nat
    PROVE  ToPartBoundary(Lesser(n, Len(up))) \in 0..Len(up)
<1> DEFINE m == Lesser(n, Len(up))
<1>1. m \in Nat /\ m <= Len(up)
  BY DEF Lesser
<1>2. m % partSize \in 0..(partSize - 1) /\ partSize \in Nat \ {0}
  BY <1>1 DEF LazyTypes
<1> HIDE DEF m
<1>3. m + partSize - (m % partSize) \in Nat
  BY <1>1, <1>2
<1>4. ToPartBoundary(m) \in 0..Len(up)
  BY <1>1, <1>3 DEF ToPartBoundary, Lesser
<1>5. QED  BY <1>4 DEF m

LEMMA ReadsWhole ==
    ASSUME LazyTypes, Ranged, i < indexes, Contents(up, file, count), count \in Nat \ {0},
           NEW n \in Nat
    PROVE  \E b \in Nat : /\ IsCut(b) /\ b <= objSize
                          /\ {up[k] : k \in 1..ToPartBoundary(Lesser(n, Len(up)))}
                               = Edge(part)..(b - 1)
<1>1. PICK cut \in Nat : /\ Edge(part) <= cut /\ cut <= EndOf(count) /\ IsCut(cut)
                         /\ up = Run(Edge(part), cut)
  BY DEF Contents
<1>2. part \in Nat /\ Edge(part) \in Nat /\ partSize \in Nat \ {0} /\ objSize \in Nat
  BY Places DEF LazyTypes
<1>3. cut <= objSize
  <2>1. Edge(part + count) \in Nat
    <3>1. part + count \in Nat
      BY <1>2
    <3>2. QED  BY <1>2, <3>1, Edges
  <2>2. QED  BY <1>1, <1>2, <2>1 DEF EndOf, Lesser
<1>4. Len(up) = cut - Edge(part) /\ \A k \in 1..(cut - Edge(part)) : up[k] = Edge(part) + k - 1
  <2>1. Edge(part) \in Int /\ cut \in Int /\ Edge(part) <= cut
    BY <1>1, <1>2
  <2>2. QED  BY <1>1, <2>1, RunIs
<1> DEFINE m == Lesser(n, Len(up))
           t == ToPartBoundary(m)
           b == Edge(part) + t
<1>5. m \in Nat /\ m <= Len(up) /\ Len(up) \in Nat
  BY <1>1, <1>2, <1>4 DEF Lesser
<1>6. t \in 0..Len(up)
  BY <1>5, ReadsInside
<1>7. b \in Nat /\ b <= cut
  BY <1>1, <1>2, <1>4, <1>6
<1>8. {up[k] : k \in 1..t} = Edge(part)..(b - 1)
  <2> HIDE DEF t
  <2>1. ASSUME NEW k \in 1..t PROVE up[k] \in Edge(part)..(b - 1)
    BY <1>2, <1>4, <1>5, <1>6
  <2>2. ASSUME NEW x \in Edge(part)..(b - 1) PROVE \E k \in 1..t : up[k] = x
    <3>1. x - Edge(part) + 1 \in 1..t /\ Edge(part) + (x - Edge(part) + 1) - 1 = x
      BY <1>2, <1>6
    <3>2. up[x - Edge(part) + 1] = x
      BY <1>2, <1>4, <1>5, <1>6, <3>1
    <3>3. QED  BY <3>1, <3>2
  <2>3. QED  BY <2>1, <2>2
<1>9. IsCut(b)
  <2>1. m \div partSize \in Nat /\ m = Edge(m \div partSize) + (m % partSize)
        /\ m % partSize \in 0..(partSize - 1)
    BY <1>2, <1>5, PartOfByte
  <2> DEFINE q == m \div partSize
  <2> HIDE DEF m, q
  <2>2. /\ Edge(part) + Edge(q) = Edge(part + q) /\ Edge(part) + Edge(q + 1) = Edge(part + (q + 1))
        /\ Edge(q + 1) = Edge(q) + partSize /\ Edge(q) \in Nat
    <3>1. q \in Nat
      BY <2>1 DEF q
    <3>2. \A k \in Nat : Edge(part) + Edge(k) = Edge(part + k)
      BY <1>2 DEF Edge
    <3>3. q + 1 \in Nat
      BY <3>1
    <3>4. Edge(q + 1) = Edge(q) + partSize /\ Edge(q) \in Nat
      BY <1>2, <3>1, Edges
    <3>5. Edge(part) + Edge(q) = Edge(part + q)
      BY <3>1, <3>2
    <3>6. Edge(part) + Edge(q + 1) = Edge(part + (q + 1))
      BY <3>2, <3>3
    <3>7. QED  BY <3>4, <3>5, <3>6
  <2>3. CASE m % partSize = 0
    <3>1. t = Edge(q)
      BY <2>1, <2>2, <2>3 DEF ToPartBoundary, q
    <3>2. QED  BY <1>2, <2>1, <2>2, <3>1 DEF IsCut, q
  <2>4. CASE m % partSize # 0
    <3>1. t = Lesser(Edge(q + 1), Len(up))
      <4>1. m + partSize - (m % partSize) = Edge(q + 1)
        BY <1>2, <2>1, <2>2 DEF q
      <4>2. QED  BY <2>4, <4>1 DEF ToPartBoundary
    <3>2. t = Edge(q + 1) \/ t = Len(up)
      BY <3>1 DEF Lesser
    <3>3. CASE t = Len(up)
      <4>1. b = cut
        BY <1>1, <1>2, <1>4, <3>3
      <4>2. QED  BY <1>1, <4>1
    <3>4. CASE t = Edge(q + 1)
      <4>1. q + 1 \in Nat /\ part + (q + 1) \in Nat
        BY <1>2, <2>1 DEF q
      <4>2. b = Edge(part + (q + 1))
        BY <2>2, <3>4
      <4>3. QED  BY <4>1, <4>2 DEF IsCut
    <3>5. QED  BY <3>2, <3>3, <3>4
  <2>5. QED  BY <2>3, <2>4
<1>10. b <= objSize
  <2> HIDE DEF b
  <2>1. QED  BY <1>2, <1>1, <1>3, <1>7
<1>11. QED  BY <1>7, <1>8, <1>9, <1>10

-----------------------------------------------------------------------------
(* The inductive invariant of the responder *)

Serving == phase \in {"part", "list", "next", "copy"}

RangeOK ==
    IF phase = "request" THEN i = 0 /\ sent = <<>> /\ fetched = {}
    ELSE IF phase = "refused" THEN Wanted = {} /\ sent = <<>> /\ fetched = {}
    ELSE Ranged /\ Wanted = start..(Stop - 1)

ContentsOK ==
    phase = "copy" =>
        /\ count \in Nat \ {0} /\ i + count <= indexes
        /\ Inside(up) /\ file \in Seq(Int)

NextOK == phase = "next" => part < next /\ next <= lastPart

\* What holds as long as no response of the upstream is cut short.
Exact ==
    Truncates = FALSE =>
        /\ Serving => sent = Run(start, Position)
        /\ phase = "copy" => Contents(up, file, count)
        /\ phase = "failed" => \E y \in start..Stop : sent = Run(start, y)
        /\ phase = "done" => sent = Run(start, Stop)
        /\ WholeParts(fetched)

LazyInv ==
    /\ LazyTypes /\ RangeOK
    /\ Serving => i < indexes
    /\ \A b \in fetched : InRange(b)
    /\ ContentsOK /\ NextOK /\ Exact

LEMMA ServingIs ==
    ASSUME LazyInv, Serving
    PROVE  LazyTypes /\ Ranged /\ Wanted = start..(Stop - 1) /\ i < indexes
BY DEF LazyInv, RangeOK, Serving

\* The range of bytes is that of the header.
LEMMA RangeOfIs ==
    ASSUME LazyTypes, Accepted(header),
           NEW s, s = RangeOf(header)[1], NEW e, e = RangeOf(header)[2]
    PROVE  /\ s \in Nat /\ e \in Nat /\ s <= e /\ (e < objSize \/ (objSize = 0 /\ e = 0))
           /\ Wanted = s..(Lesser(e + 1, objSize) - 1)
<1>1. objSize \in 0..MaxObjSize /\ header \in Headers /\ MaxObjSize \in Nat /\ objSize \in Nat
  BY ObjectPartsAssumption DEF LazyTypes
<1>2. CASE header.kind = "none"
  <2>1. s = 0 /\ e = IF objSize = 0 THEN 0 ELSE objSize - 1
    BY <1>2 DEF RangeOf
  <2>2. Wanted = 0..(objSize - 1)
    BY <1>2 DEF Wanted
  <2>3. Lesser(e + 1, objSize) = objSize
    BY <1>1, <2>1 DEF Lesser
  <2>4. QED  BY <1>1, <2>1, <2>2, <2>3
<1>3. CASE header.kind = "range"
  <2>1. header.a \in Nat /\ header.b \in Nat /\ header.a < objSize /\ header.a <= header.b
    BY <1>1, <1>3 DEF Headers, Accepted
  <2>2. s = header.a /\ e = Lesser(header.b, objSize - 1)
    BY <1>3 DEF RangeOf, LastByte
  <2>3. e \in Nat /\ e < objSize /\ s <= e /\ e <= header.b /\ (e = header.b \/ e = objSize - 1)
    BY <1>1, <2>1, <2>2 DEF Lesser
  <2>4. Lesser(e + 1, objSize) = e + 1
    BY <1>1, <2>3 DEF Lesser
  <2>5. Wanted = {b \in 0..(objSize - 1) : header.a <= b /\ b <= header.b}
    BY <1>3 DEF Wanted
  <2>6. Wanted = s..e
    BY <1>1, <2>1, <2>2, <2>3, <2>5
  <2>7. QED  BY <2>1, <2>2, <2>3, <2>4, <2>6
<1>4. CASE header.kind = "from"
  <2>1. header.a \in Nat /\ header.a < objSize
    BY <1>1, <1>4 DEF Headers, Accepted
  <2>2. s = header.a /\ e = objSize - 1
    BY <1>4 DEF RangeOf
  <2>3. Lesser(e + 1, objSize) = objSize
    BY <1>1, <2>2 DEF Lesser
  <2>4. Wanted = {b \in 0..(objSize - 1) : header.a <= b}
    BY <1>4 DEF Wanted
  <2>5. QED  BY <1>1, <2>1, <2>2, <2>3, <2>4
<1>5. CASE header.kind = "suffix"
  <2>1. header.b \in Nat /\ objSize # 0 /\ header.b # 0
    BY <1>1, <1>5 DEF Headers, Accepted
  <2>2. s = objSize - Lesser(header.b, objSize) /\ e = objSize - 1
    BY <1>5 DEF RangeOf
  <2>3. s \in Nat /\ s <= e
    BY <1>1, <2>1, <2>2 DEF Lesser
  <2>4. Lesser(e + 1, objSize) = objSize
    BY <1>1, <2>2 DEF Lesser
  <2>5. Wanted = {b \in 0..(objSize - 1) : b >= objSize - header.b}
    BY <1>5 DEF Wanted
  <2>6. \A b \in 0..(objSize - 1) : b >= objSize - header.b <=> s <= b
    BY <1>1, <2>1, <2>2 DEF Lesser
  <2>7. QED  BY <1>1, <2>2, <2>3, <2>4, <2>5, <2>6
<1>6. header.kind \in {"none", "range", "from", "suffix"}
  BY <1>1 DEF Headers
<1>7. QED  BY <1>2, <1>3, <1>4, <1>5, <1>6

\* A header that is refused asks for no byte of the object.
LEMMA RefusedIs ==
    ASSUME LazyTypes, ~Accepted(header)
    PROVE  Wanted = {}
<1>1. objSize \in 0..MaxObjSize /\ header \in Headers /\ MaxObjSize \in Nat /\ objSize \in Nat
  BY ObjectPartsAssumption DEF LazyTypes
<1>2. CASE header.kind = "none"
  BY <1>2 DEF Accepted
<1>3. CASE header.kind = "range"
  BY <1>1, <1>3 DEF Headers, Accepted, Wanted
<1>4. CASE header.kind = "from"
  BY <1>1, <1>4 DEF Headers, Accepted, Wanted
<1>5. CASE header.kind = "suffix"
  BY <1>1, <1>5 DEF Headers, Accepted, Wanted
<1>6. header.kind \in {"none", "range", "from", "suffix"}
  BY <1>1 DEF Headers
<1>7. QED  BY <1>2, <1>3, <1>4, <1>5, <1>6

-----------------------------------------------------------------------------
(* What the steps leave alone *)

LEMMA SameRange ==
    ASSUME UNCHANGED <<request, range>>
    PROVE  /\ Wanted' = Wanted /\ Stop' = Stop /\ indexes' = indexes
           /\ firstPart' = firstPart /\ lastPart' = lastPart
           /\ Ranged' <=> Ranged
           /\ \A k : Edge(k)' = Edge(k)
           /\ \A b : InRange(b)' <=> InRange(b)
<1>1. /\ partSize' = partSize /\ objSize' = objSize /\ header' = header
      /\ start' = start /\ end' = end
  BY DEF request, range
<1>2. firstPart' = firstPart /\ lastPart' = lastPart
  BY <1>1 DEF firstPart, lastPart
<1>3. Wanted' = Wanted
  BY <1>1 DEF Wanted
<1>4. Stop' = Stop /\ indexes' = indexes
  BY <1>1, <1>2 DEF Stop, Lesser, indexes
<1>5. Ranged' <=> Ranged
  BY <1>1 DEF Ranged
<1>6. \A k : Edge(k)' = Edge(k)
  BY <1>1 DEF Edge
<1>7. \A b : InRange(b)' <=> InRange(b)
  BY <1>1, <1>2 DEF InRange, Edge
<1>8. QED  BY <1>2, <1>3, <1>4, <1>5, <1>6, <1>7

LEMMA SamePlace ==
    ASSUME UNCHANGED <<request, range, i>>
    PROVE  part' = part /\ Position' = Position
<1>1. i' = i /\ start' = start /\ partSize' = partSize /\ firstPart' = firstPart
  BY SameRange DEF request, range
<1>2. QED  BY <1>1 DEF part, Position, Edge

LEMMA SameContents ==
    ASSUME UNCHANGED <<request, range, i>>, NEW u, NEW f, NEW n,
           up' = u, file' = f, count' = n
    PROVE  Contents(up, file, count)' <=> Contents(u, f, n)
<1>1. part' = part /\ partSize' = partSize /\ objSize' = objSize
  BY SamePlace DEF request
<1>2. \A k : Edge(k)' = Edge(k)
  BY SameRange
<1>3. Edge(part)' = Edge(part) /\ EndOf(count)' = EndOf(n)
  BY <1>1 DEF EndOf, Edge, Lesser
<1>4. \A cut : IsCut(cut)' <=> IsCut(cut)
  BY <1>1 DEF IsCut, Edge
<1>5. QED  BY <1>3, <1>4 DEF Contents, Run

LEMMA SameWhole ==
    ASSUME UNCHANGED request, NEW F, fetched' = F
    PROVE  WholeParts(fetched)' <=> WholeParts(F)
BY DEF WholeParts, request, Parts, PartBytes, FromTo, Lesser, ToSet

\* Steps of the others, of which only the files of the object change.
LEMMA NewFiles ==
    ASSUME LazyInv, UNCHANGED <<request, range, i, next, contents, client, phase>>,
           stored' \subseteq Parts
    PROVE  LazyInv'
<1>1. /\ i' = i /\ next' = next /\ up' = up /\ file' = file /\ count' = count
      /\ sent' = sent /\ fetched' = fetched /\ phase' = phase
      /\ partSize' = partSize /\ objSize' = objSize /\ header' = header
      /\ start' = start /\ end' = end
  BY DEF request, range, contents, client
<1>2. LazyTypes' /\ (Serving' <=> Serving)
  BY <1>1 DEF LazyInv, LazyTypes, Parts, Headers, Serving
<1>3. /\ Wanted' = Wanted /\ Stop' = Stop /\ indexes' = indexes
      /\ lastPart' = lastPart /\ (Ranged' <=> Ranged)
      /\ part' = part /\ Position' = Position
      /\ \A b : InRange(b)' <=> InRange(b)
  BY SameRange, SamePlace
<1>4. RangeOK' /\ (Serving' => i' < indexes') /\ (\A b \in fetched' : InRange(b)') /\ NextOK'
  BY <1>1, <1>2, <1>3 DEF LazyInv, RangeOK, NextOK
<1>5. ContentsOK'
  BY <1>1, <1>3 DEF LazyInv, ContentsOK, Inside
<1>6. Exact'
  <2>1. Contents(up, file, count)' <=> Contents(up, file, count)
    BY <1>1, SameContents
  <2>2. WholeParts(fetched)' <=> WholeParts(fetched)
    BY <1>1, SameWhole
  <2>3. /\ Run(start, Position)' = Run(start, Position) /\ Run(start, Stop)' = Run(start, Stop)
        /\ \A y : Run(start, y)' = Run(start, y)
    BY <1>1, <1>3 DEF Run
  <2>4. QED  BY <1>1, <1>2, <1>3, <2>1, <2>2, <2>3 DEF LazyInv, Exact
<1>7. QED  BY <1>2, <1>4, <1>5, <1>6 DEF LazyInv

\* The steps of the loop that send nothing.
LEMMA SendsNothing ==
    ASSUME LazyInv, Serving, UNCHANGED <<request, range, i, client, disk>>,
           phase' \in {"list", "next", "copy", "failed"},
           phase' = "next" => part < next' /\ next' <= lastPart,
           phase' = "copy" =>
               /\ count' \in Nat \ {0} /\ i + count' <= indexes
               /\ Inside(up') /\ file' \in Seq(Int)
               /\ Truncates = FALSE => Contents(up', file', count')
    PROVE  LazyInv'
<1>1. /\ i' = i /\ sent' = sent /\ fetched' = fetched /\ stored' = stored
      /\ partSize' = partSize /\ objSize' = objSize /\ header' = header
      /\ start' = start /\ end' = end
  BY DEF request, range, client, disk
<1>2. LazyTypes' /\ (Serving' => Serving)
  BY <1>1 DEF LazyInv, LazyTypes, Parts, Headers
<1>3. /\ Wanted' = Wanted /\ Stop' = Stop /\ indexes' = indexes
      /\ lastPart' = lastPart /\ (Ranged' <=> Ranged)
      /\ part' = part /\ Position' = Position
      /\ \A b : InRange(b)' <=> InRange(b)
  BY SameRange, SamePlace
<1>4. LazyTypes /\ Ranged /\ Wanted = start..(Stop - 1) /\ i < indexes
  BY ServingIs
<1>5. RangeOK' /\ (Serving' => i' < indexes') /\ (\A b \in fetched' : InRange(b)') /\ NextOK'
  BY <1>1, <1>3, <1>4 DEF LazyInv, RangeOK, NextOK
<1>6. ContentsOK'
  BY <1>1, <1>3 DEF ContentsOK, Inside
<1>7. Exact'
  <2>1. SUFFICES ASSUME Truncates = FALSE
                 PROVE  /\ Serving' => sent' = Run(start, Position)'
                        /\ phase' = "copy" => Contents(up, file, count)'
                        /\ phase' = "failed" => \E y \in start'..Stop' : sent' = Run(start, y)'
                        /\ phase' # "done" /\ WholeParts(fetched)'
    BY DEF Exact
  <2>2. sent = Run(start, Position) /\ WholeParts(fetched)
    BY <2>1 DEF LazyInv, Exact
  <2>3. Contents(up, file, count)' <=> Contents(up', file', count')
    BY <1>1, SameContents
  <2>4. WholeParts(fetched)'
    BY <1>1, <2>2, SameWhole
  <2>5. /\ Run(start, Position)' = Run(start, Position)
        /\ \A y : Run(start, y)' = Run(start, y)
    BY <1>1, <1>3 DEF Run
  <2>6. Position \in start..Stop
    BY <1>4, Places, RangeBounds DEF LazyTypes
  <2>7. QED  BY <1>1, <1>3, <2>1, <2>2, <2>3, <2>4, <2>5, <2>6
<1>8. QED  BY <1>2, <1>5, <1>6, <1>7 DEF LazyInv

-----------------------------------------------------------------------------
(* The steps of the responder *)

LEMMA LazyInitHolds == LazyInit => LazyInv
<1> SUFFICES ASSUME LazyInit PROVE LazyInv
  OBVIOUS
<1>1. LazyTypes
  BY ObjectPartsAssumption DEF LazyInit, LazyTypes
<1>2. RangeOK /\ ~Serving /\ ContentsOK /\ NextOK /\ fetched = {}
  BY DEF LazyInit, RangeOK, Serving, ContentsOK, NextOK
<1>3. Exact
  BY <1>2 DEF LazyInit, Exact, WholeParts
<1>4. QED  BY <1>1, <1>2, <1>3 DEF LazyInv

LEMMA RespondHolds == ASSUME LazyInv, Respond PROVE LazyInv'
<1>1. /\ i' = i /\ i = 0 /\ sent' = <<>> /\ fetched' = {} /\ stored' = stored
      /\ partSize' = partSize /\ objSize' = objSize /\ header' = header
      /\ phase' = "part" /\ phase = "request"
  BY DEF LazyInv, RangeOK, Respond, request, client, disk
<1>2. /\ start' \in Nat /\ end' \in Nat /\ start' <= end'
      /\ end' < objSize \/ (objSize = 0 /\ end' = 0)
      /\ Wanted = start'..(Lesser(end' + 1, objSize) - 1)
  BY RangeOfIs DEF LazyInv, Respond
<1>3. LazyTypes' /\ Serving'
  BY <1>1, <1>2 DEF LazyInv, LazyTypes, Parts, Headers, Serving
<1>4. Wanted' = Wanted /\ Stop' = Lesser(end' + 1, objSize) /\ Ranged'
  BY <1>1, <1>2 DEF Wanted, Stop, Lesser, Ranged
<1>5. i' < indexes'
  <2>1. partSize \in Nat \ {0}
    BY DEF LazyInv, LazyTypes
  <2>2. start' \div partSize \in Nat /\ end' \div partSize \in Nat
        /\ start' \div partSize <= end' \div partSize
    <3> DEFINE q == start' \div partSize
               r == end' \div partSize
    <3>1. /\ q \in Nat /\ r \in Nat /\ Edge(q) <= start' /\ end' < Edge(r) + partSize
      BY <1>2, <2>1, PartOfByte
    <3> HIDE DEF q, r
    <3>2. Edge(q) \in Nat /\ Edge(r) \in Nat /\ (r < q => Edge(r) + partSize <= Edge(q))
      BY <2>1, <3>1, Edges
    <3>3. q <= r
      BY <1>2, <2>1, <3>1, <3>2
    <3>4. QED  BY <3>1, <3>3 DEF q, r
  <2>3. QED  BY <1>1, <2>2 DEF indexes, firstPart, lastPart
<1>6. RangeOK' /\ ContentsOK' /\ NextOK'
  BY <1>1, <1>2, <1>4 DEF RangeOK, ContentsOK, NextOK
<1>7. Exact'
  <2>1. Position' = start' /\ Run(start, Position)' = Run(start', start')
    BY <1>1 DEF Position, Run
  <2>2. sent' = Run(start, Position)'
    BY <1>1, <1>2, <2>1, RunOfNone
  <2>3. WholeParts(fetched)'
    BY <1>1 DEF WholeParts
  <2>4. QED  BY <1>1, <2>2, <2>3 DEF Exact
<1>8. QED  BY <1>1, <1>3, <1>5, <1>6, <1>7 DEF LazyInv

LEMMA RefuseHolds == ASSUME LazyInv, Refuse PROVE LazyInv'
<1>1. /\ i' = i /\ sent' = <<>> /\ fetched' = {} /\ stored' = stored
      /\ partSize' = partSize /\ objSize' = objSize /\ header' = header
      /\ start' = start /\ end' = end /\ phase' = "refused"
  BY DEF LazyInv, RangeOK, Refuse, request, range, client, disk
<1>2. LazyTypes' /\ ~Serving'
  BY <1>1 DEF LazyInv, LazyTypes, Parts, Headers, Serving
<1>3. Wanted' = {}
  <2>1. Wanted = {}
    BY RefusedIs DEF LazyInv, Refuse
  <2>2. QED  BY <1>1, <2>1 DEF Wanted
<1>4. RangeOK' /\ ContentsOK' /\ NextOK'
  BY <1>1, <1>3 DEF RangeOK, ContentsOK, NextOK
<1>5. Exact'
  <2>1. WholeParts(fetched)'
    BY <1>1 DEF WholeParts
  <2>2. QED  BY <1>1, <1>2, <2>1 DEF Exact
<1>6. QED  BY <1>1, <1>2, <1>4, <1>5 DEF LazyInv

LEMMA PartFromStorageHolds == ASSUME LazyInv, PartFromStorage PROVE LazyInv'
<1>1. Serving /\ LazyTypes /\ Ranged /\ i < indexes
  BY ServingIs DEF PartFromStorage, Serving
<1>2. /\ Contents(<<>>, PartBytes(part), 1) /\ Inside(<<>>) /\ PartBytes(part) \in Seq(Int)
      /\ 1 \in Nat \ {0} /\ i + 1 <= indexes
  BY <1>1, ContentsOfStored
<1>3. up' = <<>> /\ file' = PartBytes(part) /\ count' = 1 /\ phase' = "copy"
      /\ UNCHANGED <<request, range, i, client, disk>>
  BY DEF PartFromStorage, SetContents
<1>4. QED  BY <1>1, <1>2, <1>3, SendsNothing

LEMMA PartMissingHolds == ASSUME LazyInv, PartMissing PROVE LazyInv'
BY SendsNothing DEF PartMissing, Serving

LEMMA FailHolds ==
    ASSUME LazyInv, Serving, Fail, UNCHANGED <<request, range, i, client, disk>>
    PROVE  LazyInv'
BY SendsNothing DEF Fail

LEMMA UpstreamHolds ==
    ASSUME LazyInv, Serving, UpstreamToTheEnd, UNCHANGED <<request, range, i, client, disk>>
    PROVE  LazyInv'
<1>1. LazyTypes /\ Ranged /\ i < indexes
  BY ServingIs
<1>2. PICK body \in Bodies(part * partSize, RangeToByte) :
          up' = body /\ file' = <<>> /\ count' = indexes - i /\ phase' = "copy"
  BY DEF UpstreamToTheEnd, SetContents
<1>3. /\ Truncates = FALSE => Contents(body, <<>>, indexes - i)
      /\ Inside(body)
      /\ indexes - i \in Nat \ {0} /\ i + (indexes - i) <= indexes
  BY <1>1, ContentsToTheEnd
<1>4. <<>> \in Seq(Int)
  OBVIOUS
<1>5. QED  BY <1>2, <1>3, <1>4, SendsNothing

LEMMA ListPartsHolds == ASSUME LazyInv, ListParts PROVE LazyInv'
<1>1. Serving /\ UNCHANGED <<request, range, i, client, disk>>
  BY DEF ListParts, Serving
<1>2. CASE Fail
  BY <1>1, <1>2, FailHolds
<1>3. CASE UpstreamToTheEnd
  BY <1>1, <1>3, UpstreamHolds
<1>4. CASE SearchPart # -1 /\ next' = SearchPart /\ phase' = "next" /\ UNCHANGED contents
  <2>1. IsFiniteSet(stored)
    <3>1. stored \subseteq 0..(MaxObjSize - 1) /\ MaxObjSize - 1 \in Int
      BY ObjectPartsAssumption DEF LazyInv, LazyTypes, Parts
    <3>2. IsFiniteSet(0..(MaxObjSize - 1))
      BY <3>1, FS_Interval
    <3>3. QED  BY <3>1, <3>2, FS_Subset
  <2>2. part < SearchPart /\ SearchPart <= lastPart
    BY <1>4, <2>1, SearchPartIs
  <2>3. QED  BY <1>1, <1>4, <2>2, SendsNothing
<1>5. QED  BY <1>2, <1>3, <1>4 DEF ListParts

LEMMA NextFromStorageHolds == ASSUME LazyInv, NextFromStorage PROVE LazyInv'
<1>1. Serving /\ LazyTypes /\ Ranged /\ i < indexes
  BY ServingIs DEF NextFromStorage, Serving
<1>2. PICK body \in Bodies(part * partSize, NextToByte) :
          /\ up' = body /\ file' = PartBytes(next) /\ count' = next - part + 1
          /\ phase' = "copy" /\ UNCHANGED <<request, range, i, client, disk>>
  BY DEF NextFromStorage, SetContents
<1>3. next \in stored /\ part < next /\ next <= lastPart
  BY DEF NextFromStorage, LazyInv, NextOK
<1>4. /\ Truncates = FALSE => Contents(body, PartBytes(next), next - part + 1)
      /\ Inside(body) /\ PartBytes(next) \in Seq(Int)
      /\ next - part + 1 \in Nat \ {0} /\ i + (next - part + 1) <= indexes
  BY <1>1, <1>3, ContentsToNext
<1>5. QED  BY <1>1, <1>2, <1>4, SendsNothing

LEMMA NextMissingHolds == ASSUME LazyInv, NextMissing PROVE LazyInv'
BY UpstreamHolds DEF NextMissing, Serving
LEMMA Slice ==
    ASSUME NEW s \in Seq(Int), NEW m \in Nat \ {0}, NEW n \in Int, n <= Len(s)
    PROVE  SubSeq(s, m, n) \in Seq(Int) /\ Len(SubSeq(s, m, n)) \in Nat
<1>1. CASE m <= n
  BY <1>1
<1>2. CASE ~(m <= n)
  <2>1. 1..(1 + n - m) = {}
    BY <1>2
  <2>2. SubSeq(s, m, n) = <<>>
    BY <2>1, <1>2
  <2>3. QED  BY <2>2
<1>3. QED  BY <1>1, <1>2

LEMMA ToSendIs ==
    ASSUME LazyInv, phase = "copy"
    PROVE  startOffset \in Nat /\ toSend \in Seq(Int) /\ Len(toSend) \in Nat
<1>1. partSize \in Nat \ {0} /\ start \in Nat /\ end \in Nat /\ count \in Nat \ {0}
  BY DEF LazyInv, LazyTypes, ContentsOK
<1>2. startOffset \in Nat /\ end % partSize \in Nat
  BY <1>1 DEF startOffset
<1>3. endLimit \in Int
  <2>1. (count - 1) * partSize \in Int
    BY <1>1
  <2>2. QED  BY <1>2, <2>1 DEF endLimit
<1>4. data \in Seq(Int) /\ Len(data) \in Nat
  BY DEF LazyInv, ContentsOK, Inside, data
<1> DEFINE limit == IF isLast THEN Lesser(startOffset + endLimit, Len(data)) ELSE Len(data)
<1>5. limit \in Int /\ limit <= Len(data)
  BY <1>2, <1>3, <1>4 DEF Lesser
<1>6. toSend = SubSeq(data, startOffset + 1, limit)
  BY DEF toSend
<1> HIDE DEF limit
<1>7. QED  BY <1>2, <1>4, <1>5, <1>6, Slice

\* Whatever is read of the contents, it is inside of the range, and whole parts.
LEMMA ReadsOK ==
    ASSUME LazyInv, phase = "copy", NEW n \in Nat, ReadAndClose(n)
    PROVE  /\ \A b \in fetched' : InRange(b)
           /\ Truncates = FALSE => WholeParts(fetched')
<1> DEFINE t == ToPartBoundary(Lesser(n, Len(up)))
           S == {up[k] : k \in 1..t}
<1>1. fetched' = fetched \cup S
  BY DEF ReadAndClose
<1>2. /\ LazyTypes /\ Ranged /\ i < indexes /\ count \in Nat \ {0}
      /\ Inside(up) /\ Len(up) \in Nat
  BY ServingIs DEF Serving, LazyInv, ContentsOK, Inside
<1>3. t \in 0..Len(up)
  BY <1>2, ReadsInside
<1>4. \A b \in S : InRange(b)
  BY <1>2, <1>3 DEF Inside
<1>5. ASSUME Truncates = FALSE
      PROVE  WholeParts(fetched \cup S)
  <2>1. Contents(up, file, count) /\ WholeParts(fetched)
    BY <1>5 DEF LazyInv, Exact
  <2>2. PICK b \in Nat : IsCut(b) /\ b <= objSize /\ S = Edge(part)..(b - 1)
    BY <1>2, <2>1, ReadsWhole
  <2>3. part \in Nat
    BY <1>2, Places
  <2> HIDE DEF S
  <2>4. QED  BY <1>2, <2>1, <2>2, <2>3, AddWhole
<1>6. QED  BY <1>1, <1>4, <1>5 DEF LazyInv

LEMMA CopyHolds == ASSUME LazyInv, Copy PROVE LazyInv'
<1>1. /\ i' = i + count /\ sent' = sent \o toSend /\ stored' = stored
      /\ partSize' = partSize /\ objSize' = objSize /\ header' = header
      /\ start' = start /\ end' = end /\ phase = "copy"
      /\ phase' = IF i + count = indexes THEN "done" ELSE "part"
      /\ UNCHANGED <<request, range>>
  BY DEF Copy, request, range, disk
<1>2. /\ LazyTypes /\ Ranged /\ Wanted = start..(Stop - 1) /\ i < indexes
      /\ count \in Nat \ {0} /\ i + count <= indexes /\ i \in Nat
  BY <1>1, ServingIs DEF Serving, LazyInv, ContentsOK, LazyTypes
<1>3. LazyTypes'
  BY <1>1, <1>2 DEF LazyTypes, Parts, Headers
<1>4. /\ Wanted' = Wanted /\ Stop' = Stop /\ indexes' = indexes /\ firstPart' = firstPart
      /\ (Ranged' <=> Ranged)
      /\ \A b : InRange(b)' <=> InRange(b)
  BY <1>1, SameRange
<1>5. /\ \A b \in fetched' : InRange(b)
      /\ Truncates = FALSE => WholeParts(fetched')
  <2>1. startOffset + Len(toSend) \in Nat
    BY <1>1, ToSendIs
  <2>2. ReadAndClose(startOffset + Len(toSend))
    BY DEF Copy
  <2>3. QED  BY <1>1, <2>1, <2>2, ReadsOK
<1>6. /\ RangeOK' /\ (Serving' => i' < indexes') /\ (\A b \in fetched' : InRange(b)')
      /\ ContentsOK' /\ NextOK'
  <2>1. indexes \in Int
    BY <1>2, RangeBounds DEF indexes
  <2>2. QED  BY <1>1, <1>2, <1>4, <1>5, <2>1 DEF RangeOK, ContentsOK, NextOK, Serving
<1>7. Exact'
  <2>1. SUFFICES ASSUME Truncates = FALSE
                 PROVE  /\ phase' = "part" => sent' = Run(start, Position)'
                        /\ phase' = "done" => sent' = Run(start, Stop)'
                        /\ WholeParts(fetched)'
    BY <1>1 DEF Exact, Serving
  <2>2. sent = Run(start, Position) /\ Contents(up, file, count)
    BY <1>1, <2>1 DEF LazyInv, Exact, Serving
  <2>3. /\ NextPosition \in Nat /\ Position <= NextPosition /\ NextPosition <= Stop
        /\ toSend = Run(Position, NextPosition)
    BY <1>2, <2>2, SendsNext
  <2>4. Position \in Int /\ start \in Int /\ start <= Position /\ NextPosition \in Int
    BY <1>2, <2>3, Places DEF LazyTypes
  <2>5. sent' = Run(start, NextPosition)
    BY <1>1, <2>2, <2>3, <2>4, RunJoin
  <2>6. phase' = "part" => Position' = NextPosition
    <3>1. part' = part + count
      <4>1. firstPart \in Int
        BY <1>2, RangeBounds
      <4>2. QED  BY <1>1, <1>2, <1>4, <4>1 DEF part
    <3>2. i' # 0
      BY <1>1, <1>2
    <3>3. QED  BY <1>1, <3>1, <3>2 DEF Position, NextPosition, isLast, Edge
  <2>7. phase' = "done" => Stop' = NextPosition
    BY <1>1, <1>4 DEF NextPosition, isLast
  <2>8. /\ Run(start, Position)' = Run(start, Position')
        /\ Run(start, Stop)' = Run(start, Stop')
    BY <1>1 DEF Run
  <2>9. WholeParts(fetched)'
    BY <1>1, <1>5, <2>1, SameWhole
  <2>10. QED  BY <2>5, <2>6, <2>7, <2>8, <2>9
<1>8. QED  BY <1>3, <1>6, <1>7 DEF LazyInv

LEMMA CopyFailsHolds == ASSUME LazyInv, CopyFails PROVE LazyInv'
<1>1. /\ i' = i /\ stored' = stored
      /\ partSize' = partSize /\ objSize' = objSize /\ header' = header
      /\ start' = start /\ end' = end /\ phase = "copy" /\ phase' = "failed"
      /\ UNCHANGED <<request, range>>
  BY DEF CopyFails, request, range, disk
<1>2. /\ LazyTypes /\ Ranged /\ Wanted = start..(Stop - 1) /\ i < indexes
      /\ count \in Nat \ {0} /\ i + count <= indexes
  BY <1>1, ServingIs DEF Serving, LazyInv, ContentsOK
<1>3. LazyTypes'
  BY <1>1, <1>2 DEF LazyTypes, Parts, Headers
<1>4. /\ Wanted' = Wanted /\ Stop' = Stop /\ (Ranged' <=> Ranged)
      /\ \A b : InRange(b)' <=> InRange(b)
  BY <1>1, SameRange
<1>5. startOffset \in Nat /\ Len(toSend) \in Nat
  BY <1>1, ToSendIs
<1>6. PICK k \in 0..Len(toSend) :
          /\ sent' = sent \o SubSeq(toSend, 1, k)
          /\ \E n \in (IF k = 0 THEN 0 ELSE startOffset + k)..(startOffset + Len(toSend)) :
                 ReadAndClose(n)
  BY DEF CopyFails
<1>7. /\ \A b \in fetched' : InRange(b)
      /\ Truncates = FALSE => WholeParts(fetched')
  <2>1. PICK n \in (IF k = 0 THEN 0 ELSE startOffset + k)..(startOffset + Len(toSend)) :
            ReadAndClose(n)
    BY <1>6
  <2>2. n \in Nat
    BY <1>5
  <2>3. QED  BY <1>1, <2>1, <2>2, ReadsOK
<1>8. /\ RangeOK' /\ ~Serving' /\ (\A b \in fetched' : InRange(b)')
      /\ ContentsOK' /\ NextOK'
  BY <1>1, <1>2, <1>4, <1>7 DEF RangeOK, ContentsOK, NextOK, Serving
<1>9. Exact'
  <2>1. SUFFICES ASSUME Truncates = FALSE
                 PROVE  /\ \E y \in start'..Stop' : sent' = Run(start, y)'
                        /\ WholeParts(fetched)'
    BY <1>1, <1>8 DEF Exact
  <2>2. sent = Run(start, Position) /\ Contents(up, file, count)
    BY <1>1, <2>1 DEF LazyInv, Exact, Serving
  <2>3. /\ NextPosition \in Nat /\ Position <= NextPosition /\ NextPosition <= Stop
        /\ toSend = Run(Position, NextPosition)
    BY <1>2, <2>2, SendsNext
  <2>4. /\ Position \in Int /\ start \in Int /\ start <= Position /\ NextPosition \in Int
        /\ Stop \in Int
    BY <1>2, <2>3, Places, RangeBounds DEF LazyTypes
  <2>5. Len(toSend) = NextPosition - Position
    BY <2>3, <2>4, RunIs
  <2>6. SubSeq(toSend, 0 + 1, k) = Run(Position + 0, Position + k)
    <3>1. /\ k \in Int /\ 0 \in Nat /\ 0 <= k /\ k <= NextPosition - Position
          /\ Position \in Int /\ NextPosition \in Int /\ Position <= NextPosition
      BY <1>5, <2>3, <2>4, <2>5
    <3>2. SubSeq(Run(Position, NextPosition), 0 + 1, k) = Run(Position + 0, Position + k)
      BY ONLY <3>1, RunSub
    <3>3. QED  BY <2>3, <3>2
  <2>7. PICK y \in Int : y = Position + k /\ Position <= y /\ y <= NextPosition
    BY <1>5, <2>4, <2>5
  <2>8. SubSeq(toSend, 1, k) = Run(Position, y)
    <3>1. 0 + 1 = 1 /\ Position + 0 = Position
      BY <2>4
    <3>2. QED  BY <2>6, <2>7, <3>1
  <2>9. sent' = Run(start, y)
    <3>1. Run(start, Position) \o Run(Position, y) = Run(start, y)
      BY <2>4, <2>7, RunJoin
    <3>2. QED  BY <1>6, <2>2, <2>8, <3>1
  <2>10. y \in start..Stop
    BY <2>3, <2>4, <2>7
  <2>11. WholeParts(fetched)'
    BY <1>1, <1>7, <2>1, SameWhole
  <2>12. QED  BY <1>1, <1>4, <2>9, <2>10, <2>11 DEF Run
<1>10. QED  BY <1>3, <1>8, <1>9 DEF LazyInv

LEMMA LazyInvariant == LazySpec => []LazyInv
<1>1. LazyInit => LazyInv
  BY LazyInitHolds
<1>2. LazyInv /\ [LazyNext]_lazyVars => LazyInv'
  <2> SUFFICES ASSUME LazyInv, [LazyNext]_lazyVars PROVE LazyInv'
    OBVIOUS
  <2>1. CASE Respond
    BY <2>1, RespondHolds
  <2>2. CASE Refuse
    BY <2>2, RefuseHolds
  <2>3. CASE PartFromStorage
    BY <2>3, PartFromStorageHolds
  <2>4. CASE PartMissing
    BY <2>4, PartMissingHolds
  <2>5. CASE TooManyFiles
    BY <2>5, FailHolds DEF TooManyFiles, Serving
  <2>6. CASE ListParts
    BY <2>6, ListPartsHolds
  <2>7. CASE NextFromStorage
    BY <2>7, NextFromStorageHolds
  <2>8. CASE NextMissing
    BY <2>8, NextMissingHolds
  <2>9. CASE Copy
    BY <2>9, CopyHolds
  <2>10. CASE CopyFails
    BY <2>10, CopyFailsHolds
  <2>11. stored \subseteq Parts
    BY DEF LazyInv, LazyTypes
  <2>12. CASE Others
    BY <2>11, <2>12, NewFiles DEF Others, SavePart, DiscardPart, Discard
  <2>13. CASE UNCHANGED lazyVars
    BY <2>11, <2>13, NewFiles DEF lazyVars, disk
  <2>14. QED
    BY <2>1, <2>2, <2>3, <2>4, <2>5, <2>6, <2>7, <2>8, <2>9, <2>10, <2>12, <2>13
    DEF LazyNext, Handle
<1>3. QED  BY <1>1, <1>2, PTL DEF LazySpec
-----------------------------------------------------------------------------
(* The answers *)

\* What the client has got is a row of bytes from the start of the range.
LEMMA SentIs ==
    ASSUME LazyInv, Truncates = FALSE, phase \notin {"request", "refused"}
    PROVE  /\ start \in Nat /\ Stop \in Nat /\ start <= Stop /\ Wanted = start..(Stop - 1)
           /\ \E y \in start..Stop : /\ sent = Run(start, y)
                                     /\ phase = "done" => y = Stop
<1>1. LazyTypes /\ Ranged /\ Wanted = start..(Stop - 1) /\ start \in Nat
  BY DEF LazyInv, RangeOK, LazyTypes
<1>2. Stop \in Nat /\ start <= Stop
  BY <1>1, RangeBounds
<1>3. CASE phase = "failed"
  BY <1>1, <1>2, <1>3 DEF LazyInv, Exact
<1>4. CASE phase = "done"
  BY <1>1, <1>2, <1>4 DEF LazyInv, Exact
<1>5. CASE Serving
  <2>1. i < indexes /\ phase # "done" /\ sent = Run(start, Position)
    BY <1>5 DEF LazyInv, Exact, Serving
  <2>2. Position \in start..Stop
    BY <1>1, <1>2, <2>1, Places
  <2>3. QED  BY <1>1, <1>2, <2>1, <2>2
<1>6. QED  BY <1>3, <1>4, <1>5 DEF LazyInv, LazyTypes, Serving

\* Whatever is saved, evicted and discarded while lazilyRespond runs, the
\* client gets the bytes of its range in order, none twice and none left out,
\* unless a response of the upstream ends early and nobody notices.
THEOREM LazySentIsPrefix ==
    ASSUME Truncates = FALSE PROVE LazySpec => []SentIsPrefix
<1>1. ASSUME LazyInv PROVE SentIsPrefix
  <2>1. CASE phase \in {"request", "refused"}
    BY <1>1, <2>1 DEF LazyInv, RangeOK, SentIsPrefix
  <2>2. CASE phase \notin {"request", "refused"}
    <3>1. /\ start \in Nat /\ Stop \in Nat /\ start <= Stop /\ Wanted = start..(Stop - 1)
          /\ \E y \in start..Stop : sent = Run(start, y)
      BY <1>1, <2>2, SentIs
    <3>2. PICK y \in start..Stop : sent = Run(start, y)
      BY <3>1
    <3>3. y \in Nat /\ start <= y /\ y <= Stop
      BY <3>1
    <3>4. DOMAIN sent = 1..(y - start) /\ \A k \in 1..(y - start) : sent[k] = start + k - 1
      BY <3>2 DEF Run
    <3>5. ASSUME NEW k \in DOMAIN sent
          PROVE  /\ sent[k] \in Wanted
                 /\ {b \in Wanted : b < sent[k]} = {sent[j] : j \in 1..(k - 1)}
      <4>1. k \in 1..(y - start) /\ sent[k] = start + k - 1
        BY <3>4
      <4>2. sent[k] \in Wanted
        BY <3>1, <3>3, <4>1
      <4>3. {b \in Wanted : b < sent[k]} = start..(start + k - 2)
        BY <3>1, <3>3, <4>1
      <4>4. {sent[j] : j \in 1..(k - 1)} = start..(start + k - 2)
        <5>1. ASSUME NEW j \in 1..(k - 1) PROVE sent[j] \in start..(start + k - 2)
          BY <3>1, <3>3, <3>4, <4>1
        <5>2. ASSUME NEW b \in start..(start + k - 2) PROVE \E j \in 1..(k - 1) : sent[j] = b
          <6>1. /\ b - start + 1 \in 1..(k - 1) /\ b - start + 1 \in 1..(y - start)
                /\ start + (b - start + 1) - 1 = b
            BY <3>1, <3>3, <4>1
          <6>2. QED  BY <3>4, <6>1
        <5>3. QED  BY <5>1, <5>2
      <4>5. QED  BY <4>2, <4>3, <4>4
    <3>6. QED  BY <3>5 DEF SentIsPrefix
  <2>3. QED  BY <2>1, <2>2
<1>2. QED  BY <1>1, LazyInvariant, PTL

\* A response that ends without a failure is the whole range, and a request is
\* refused only when the object has none of the bytes it asks for.
THEOREM LazyAnswerIsComplete ==
    ASSUME Truncates = FALSE PROVE LazySpec => []AnswerIsComplete
<1>1. ASSUME LazyInv PROVE AnswerIsComplete
  <2>1. phase = "refused" => Wanted = {}
    BY <1>1 DEF LazyInv, RangeOK
  <2>2. ASSUME phase = "done" PROVE ToSet(sent) = Wanted
    <3>1. /\ start \in Nat /\ Stop \in Nat /\ start <= Stop /\ Wanted = start..(Stop - 1)
          /\ sent = Run(start, Stop)
      BY <1>1, <2>2, SentIs
    <3>2. DOMAIN sent = 1..(Stop - start) /\ \A k \in 1..(Stop - start) : sent[k] = start + k - 1
      BY <3>1 DEF Run
    <3>3. ASSUME NEW k \in DOMAIN sent PROVE sent[k] \in Wanted
      BY <3>1, <3>2
    <3>4. ASSUME NEW b \in Wanted PROVE \E k \in DOMAIN sent : sent[k] = b
      <4>1. b - start + 1 \in 1..(Stop - start) /\ start + (b - start + 1) - 1 = b
        BY <3>1
      <4>2. QED  BY <3>2, <4>1
    <3>5. QED  BY <3>3, <3>4 DEF ToSet
  <2>3. QED  BY <2>1, <2>2 DEF AnswerIsComplete
<1>2. QED  BY <1>1, LazyInvariant, PTL

\* What is read from the upstream ends on a boundary of parts, even if the
\* client wants less or leaves, so that every part read can be saved.
THEOREM LazyFetchesWholeParts ==
    ASSUME Truncates = FALSE PROVE LazySpec => []FetchesWholeParts
<1>1. ASSUME LazyInv PROVE FetchesWholeParts
  BY <1>1 DEF LazyInv, Exact, WholeParts, FetchesWholeParts
<1>2. QED  BY <1>1, LazyInvariant, PTL

\* No part outside of the range is read from the upstream, even if its
\* responses end early.
THEOREM LazyFetchesOnlyTheRange == LazySpec => []FetchesOnlyTheRange
<1>1. ASSUME LazyInv,
             NEW p \in Parts, NEW b, b \in ToSet(PartBytes(p)), b \in fetched
      PROVE  \E w \in Wanted : w \in ToSet(PartBytes(p))
  <2>1. phase \notin {"request", "refused"}
    BY <1>1 DEF LazyInv, RangeOK
  <2>2. LazyTypes /\ Ranged /\ Wanted = start..(Stop - 1)
    BY <1>1, <2>1 DEF LazyInv, RangeOK
  <2>3. /\ partSize \in Nat \ {0} /\ objSize \in Nat /\ start \in Nat /\ end \in Nat /\ p \in Nat
        /\ start <= end /\ b \in 0..(objSize - 1)
        /\ Edge(firstPart) <= b /\ b < Edge(lastPart + 1)
    BY <1>1, <2>2 DEF LazyTypes, Ranged, Parts, LazyInv, InRange
  <2>4. ToSet(PartBytes(p)) = Edge(p)..(Lesser(Edge(p + 1), objSize) - 1)
    BY <2>2, <2>3, BytesOfPart
  <2>5. /\ firstPart \in Nat /\ lastPart \in Nat
        /\ start = Edge(firstPart) + (start % partSize)
        /\ end = Edge(lastPart) + (end % partSize)
        /\ start % partSize \in 0..(partSize - 1) /\ end % partSize \in 0..(partSize - 1)
    BY <2>2, RangeBounds
  <2>6. /\ Edge(p) \in Nat /\ Edge(p + 1) = Edge(p) + partSize
        /\ Edge(firstPart) \in Nat /\ Edge(lastPart) \in Nat
        /\ Edge(lastPart + 1) = Edge(lastPart) + partSize
    BY <2>3, <2>5, Edges
  <2>7. Edge(p) <= b /\ b < Edge(p) + partSize
    BY <1>1, <2>3, <2>4, <2>6 DEF Lesser
  <2>8. p <= lastPart /\ firstPart <= p
    <3>1. lastPart < p => Edge(lastPart) + partSize <= Edge(p)
      BY <2>3, <2>5, Edges
    <3>2. p < firstPart => Edge(p) + partSize <= Edge(firstPart)
      BY <2>3, <2>5, Edges
    <3>3. QED  BY <2>3, <2>5, <2>6, <2>7, <3>1, <3>2
  <2>9. end < objSize /\ Stop = end + 1
    BY <2>2, <2>3 DEF Ranged, Stop, Lesser
  <2>10. CASE p = firstPart
    <3>1. start \in Wanted
      BY <2>2, <2>3, <2>9
    <3>2. start \in Edge(p)..(Lesser(Edge(p + 1), objSize) - 1)
      BY <2>3, <2>5, <2>6, <2>9, <2>10 DEF Lesser
    <3>3. QED  BY <2>4, <3>1, <3>2
  <2>11. CASE firstPart < p
    <3>1. Edge(firstPart) + partSize <= Edge(p) /\ Edge(p) <= Edge(lastPart)
      BY <2>3, <2>5, <2>8, <2>11, Edges
    <3>2. Edge(p) \in Wanted
      BY <2>2, <2>3, <2>5, <2>6, <2>9, <3>1
    <3>3. Edge(p) \in Edge(p)..(Lesser(Edge(p + 1), objSize) - 1)
      BY <2>3, <2>6, <2>7 DEF Lesser
    <3>4. QED  BY <2>4, <3>2, <3>3
  <2>12. QED  BY <2>3, <2>5, <2>8, <2>10, <2>11
<1>2. ASSUME LazyInv PROVE FetchesOnlyTheRange
  BY <1>1, <1>2 DEF FetchesOnlyTheRange
<1>3. QED  BY <1>2, LazyInvariant, PTL
=============================================================================
