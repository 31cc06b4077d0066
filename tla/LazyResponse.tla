----------------------------- MODULE LazyResponse -----------------------------
(***************************************************************************)
(* How a request for an object with fresh metadata is answered: knownFull  *)
(* and knownRanged of handler/cache/handler.go and lazilyRespond with its  *)
(* helpers. The range is cut into parts; a part on disk is read from its   *)
(* file, a missing one is asked of the upstream together with the missing  *)
(* ones after it, and the readers are chained, skipped, limited and closed *)
(* so that the client gets its range and nothing else.                     *)
(*                                                                         *)
(* A byte of the object is its position. Other goroutines save, evict and  *)
(* discard parts between any two calls to the storage. An opened file is   *)
(* read whole: deleting it does not close it. The body of a response of    *)
(* the upstream is read through a pipe and ends early, without an error,   *)
(* when the proxy fails to copy all of it (it logs the error only).        *)
(*                                                                         *)
(* Init, Next, Spec and TypeOK of PartWriter are LazyInit, LazyNext,       *)
(* LazySpec and LazyTypeOK here, since both are proved about in a module.  *)
(*                                                                         *)
(* Left out: several ranges in a request and metadata that does not        *)
(* satisfy it (both are proxied), HEAD, headers, an object that changes at *)
(* the upstream, and the casts of byte and part numbers.                   *)
(*                                                                         *)
(* An operator commented `Mutant' is a wrong variant of the definition     *)
(* after it, which a property must be able to tell from it.                *)
(***************************************************************************)
EXTENDS ObjectParts

CONSTANT
    Truncates  \* whether the body of an upstream response may end early

ASSUME LazyResponseAssumption == Truncates \in BOOLEAN

VARIABLES
    header,    \* the Range header of the request, or its absence
    start, end,  \* the range to send, both ends included
    i,         \* the index, among the parts of the range, of the next one
    next,      \* the part that getContents found in the list, or -1
    up, file,  \* the contents: bytes of the upstream, then bytes of a file
    count,     \* how many parts the contents stand for
    sent,      \* the bytes the client got
    fetched,   \* the bytes that were read from the upstream
    stored,    \* the parts of the object on disk
    directory, \* whether the object has a directory on disk
    phase      \* "request", "part", "list", "next", "copy", "done",
               \* "failed", "refused"

request  == <<partSize, objSize, header>>
range    == <<start, end>>
contents == <<up, file, count>>
client   == <<sent, fetched>>
disk     == <<stored, directory>>
lazyVars == <<request, range, i, next, contents, client, disk, phase>>

FromTo(from, to) == [k \in 1..(to - from + 1) |-> from + k - 1]
Parts           == 0..(MaxObjSize - 1)
PartBytes(p)    == FromTo(p * partSize, Lesser((p + 1) * partSize, objSize) - 1)

-----------------------------------------------------------------------------
(* ParseRequestRange, knownRanged, knownFull *)

\* The headers: none, bytes=a-b, bytes=a- and bytes=-b.
Headers == {[kind |-> "none"]}
           \cup [kind : {"range"}, a : 0..MaxObjSize, b : 0..MaxObjSize]
           \cup [kind : {"from"}, a : 0..MaxObjSize]
           \cup [kind : {"suffix"}, b : 0..(MaxObjSize + 1)]

\* Mutant: the end of the range is not cut to the object.
TakeEnd(h)    == h.b
LastByte(h)   == Lesser(h.b, objSize - 1)

\* Mutant: a suffix longer than the object is refused.
ShortSuffixOnly(h) ==
    CASE h.kind = "none"   -> TRUE
      [] h.kind = "range"  -> h.a < objSize /\ h.a <= h.b
      [] h.kind = "from"   -> h.a < objSize
      [] h.kind = "suffix" -> h.b \in 1..objSize
\* Whether the header is one range of the object.
Accepted(h) ==
    CASE h.kind = "none"   -> TRUE
      [] h.kind = "range"  -> h.a < objSize /\ h.a <= h.b
      [] h.kind = "from"   -> h.a < objSize
      [] h.kind = "suffix" -> objSize # 0 /\ h.b # 0

\* <<start, end>>, as they are given to lazilyRespond.
RangeOf(h) ==
    CASE h.kind = "none"   -> <<0, IF objSize = 0 THEN 0 ELSE objSize - 1>>
      [] h.kind = "range"  -> <<h.a, LastByte(h)>>
      [] h.kind = "from"   -> <<h.a, objSize - 1>>
      [] h.kind = "suffix" -> <<objSize - Lesser(h.b, objSize), objSize - 1>>

Respond ==
    /\ phase = "request" /\ Accepted(header)
    /\ start' = RangeOf(header)[1]
    /\ end'   = RangeOf(header)[2]
    /\ phase'    = "part"
    /\ UNCHANGED <<request, i, next, contents, client, disk>>

\* 416.
Refuse ==
    /\ phase = "request" /\ ~Accepted(header)
    /\ phase' = "refused"
    /\ UNCHANGED <<request, range, i, next, contents, client, disk>>

-----------------------------------------------------------------------------
(* BreakInIndexes, getUpstreamReader *)

firstPart == start \div partSize
\* Mutant: the end of the range is taken for the byte after it.
PartAfterEnd == (end + 1) \div partSize
lastPart  == end \div partSize
indexes   == 1 + lastPart - firstPart  \* the number of them
part      == firstPart + i             \* indexes[i].Part

\* The last byte asked of the upstream when no later part is on disk.
RangeToByte   == Lesser(objSize, (lastPart + 1) * partSize - 1)

\* The bodies that may be read of a response to a request for from-to.
Bodies(from, to) ==
    LET body == FromTo(from, Lesser(to, objSize - 1))
    IN  IF Truncates THEN {SubSeq(body, 1, n) : n \in 0..Len(body)} ELSE {body}

SetContents(u, f, n) ==
    /\ up'    = u
    /\ file'  = f
    /\ count' = n
    /\ next'  = -1
    /\ phase'    = "copy"

\* Everything that is left of the range comes from the upstream.
UpstreamToTheEnd ==
    \E body \in Bodies(part * partSize, RangeToByte) :
        SetContents(body, <<>>, indexes - i)

Fail ==
    /\ phase'   = "failed"
    /\ next' = -1
    /\ UNCHANGED contents

-----------------------------------------------------------------------------
(* getContents *)

PartFromStorage ==
    /\ phase = "part" /\ part \in stored
    /\ SetContents(<<>>, PartBytes(part), 1)
    /\ UNCHANGED <<request, range, i, client, disk>>

\* The part is not on disk, or its file does not open.
PartMissing ==
    /\ phase = "part"
    /\ phase' = "list"
    /\ UNCHANGED <<request, range, i, next, contents, client, disk>>

\* EMFILE.
TooManyFiles ==
    /\ phase = "part"
    /\ Fail
    /\ UNCHANGED <<request, range, i, client, disk>>

\* sort.Search over the list of available parts: a binary search, although
\* the condition holds in the middle of the list only.
SearchPart ==
    LET parts == SetToSortSeq(stored, <)
        n     == Cardinality(stored)
        ends  == 1..n + 1
        search[w \in ends \X ends] ==
            LET middle == (w[1] + w[2]) \div 2
            IN  IF w[1] >= w[2] THEN w[1]
                ELSE IF parts[middle] > part /\ parts[middle] <= lastPart
                     THEN search[<<w[1], middle>>] ELSE search[<<middle + 1, w[2]>>]
        found == search[<<1, n + 1>>]
    IN  IF found > n THEN -1 ELSE parts[found]

\* GetAvailableParts; it fails when the directory is gone.
ListParts ==
    /\ phase = "list"
    /\ \/ Fail
       \/ /\ directory /\ SearchPart # -1
          /\ next' = SearchPart
          /\ phase'   = "next"
          /\ UNCHANGED contents
       \/ /\ directory /\ SearchPart = -1
          /\ UpstreamToTheEnd
    /\ UNCHANGED <<request, range, i, client, disk>>

\* Mutant: the upstream is asked for the first byte of the file too.
OverlapByte == next * partSize
NextToByte  == Lesser(objSize, next * partSize - 1)

\* The part in the list is opened, and the upstream asked for those before.
NextFromStorage ==
    /\ phase = "next" /\ next \in stored
    /\ \E body \in Bodies(part * partSize, NextToByte) :
           SetContents(body, PartBytes(next), next - part + 1)
    /\ UNCHANGED <<request, range, i, client, disk>>

\* It is gone since the list was read, or its file does not open.
NextMissing ==
    /\ phase = "next"
    /\ UpstreamToTheEnd
    /\ UNCHANGED <<request, range, i, client, disk>>

-----------------------------------------------------------------------------
(* lazilyRespond: the readers around the contents, io.Copy and Close *)

data == up \o file
startOffset == IF i = 0 THEN start % partSize ELSE 0
isLast      == i + count = indexes
endLimit    == (count - 1) * partSize + (end % partSize) + 1 - startOffset

\* What is copied to the client if nothing fails.
toSend ==
    SubSeq(data, startOffset + 1,
           IF isLast THEN Lesser(startOffset + endLimit, Len(data)) ELSE Len(data))

\* Mutant: the response is closed where the client stopped reading.
CloseAtOnce(n)    == n
\* partReadCloser: Close reads on to the next boundary of parts.
ToPartBoundary(n) ==
    IF n % partSize = 0 THEN n ELSE Lesser(n + partSize - (n % partSize), Len(up))

\* n bytes of the contents are read, then the contents are closed.
ReadAndClose(n) ==
    fetched' = fetched \cup
        {up[k] : k \in 1..ToPartBoundary(Lesser(n, Len(up)))}

Copy ==
    /\ phase = "copy"
    /\ sent' = sent \o toSend
    /\ ReadAndClose(startOffset + Len(toSend))
    /\ i'    = i + count
    /\ phase'   = IF i + count = indexes THEN "done" ELSE "part"
    /\ UNCHANGED <<request, range, next, contents, disk>>

\* The client, the upstream or a file fails after k more bytes were sent.
CopyFails ==
    /\ phase = "copy"
    /\ \E k \in 0..Len(toSend) :
        /\ sent' = sent \o SubSeq(toSend, 1, k)
        /\ \E n \in (IF k = 0 THEN 0 ELSE startOffset + k)
                    ..(startOffset + Len(toSend)) :
               ReadAndClose(n)
    /\ phase' = "failed"
    /\ UNCHANGED <<request, range, i, next, contents, disk>>

-----------------------------------------------------------------------------
(* Other goroutines: SavePart, DiscardPart and Discard of the object *)

Answering == phase \in {"request", "part", "list", "next"}

SavePart(p) ==
    /\ Answering /\ p * partSize < objSize
    /\ stored'    = stored \cup {p}
    /\ directory' = TRUE
    /\ UNCHANGED <<request, range, i, next, contents, client, phase>>

DiscardPart(p) ==
    /\ Answering /\ p \in stored
    /\ stored' = stored \ {p}
    /\ UNCHANGED <<request, range, i, next, contents, client, directory, phase>>

Discard ==
    /\ Answering /\ directory
    /\ stored'    = {}
    /\ directory' = FALSE
    /\ UNCHANGED <<request, range, i, next, contents, client, phase>>

-----------------------------------------------------------------------------
\* The metadata has just been read, so the object has a directory.
LazyInit ==
    /\ partSize \in PartSizes
    /\ objSize \in 0..MaxObjSize
    /\ header \in Headers
    /\ stored \in SUBSET {p \in Parts : p * partSize < objSize}
    /\ directory = TRUE
    /\ start = 0 /\ end = 0 /\ i = 0 /\ next = -1
    /\ up = <<>> /\ file = <<>> /\ count = 0
    /\ sent = <<>> /\ fetched = {}
    /\ phase = "request"

Handle ==
    \/ Respond \/ Refuse
    \/ PartFromStorage \/ PartMissing \/ TooManyFiles
    \/ ListParts \/ NextFromStorage \/ NextMissing
    \/ Copy \/ CopyFails

Others ==
    \/ \E p \in Parts : SavePart(p) \/ DiscardPart(p)
    \/ Discard

LazyNext == Handle \/ Others
LazySpec == LazyInit /\ [][LazyNext]_lazyVars

-----------------------------------------------------------------------------
(* Properties *)

\* Every variable holds values of its type.
LazyTypeOK ==
    /\ partSize \in PartSizes
    /\ objSize \in 0..MaxObjSize
    /\ header \in Headers
    /\ {start, end} \subseteq 0..(MaxObjSize - 1) \cup {0}
    /\ i \in 0..MaxObjSize + 1 /\ count \in 0..MaxObjSize + 1
    /\ next \in Parts \cup {-1}
    /\ \A s \in {up, file, sent} : s \in Seq(0..(MaxObjSize - 1))
    /\ fetched \subseteq 0..(MaxObjSize - 1)
    /\ stored \subseteq Parts
    /\ directory \in BOOLEAN
    /\ phase \in {"request", "part", "list", "next", "copy", "done", "failed", "refused"}

\* The bytes the header asks for, by its meaning in RFC 7233.
Wanted ==
    {b \in 0..(objSize - 1) :
        CASE header.kind = "none"   -> TRUE
          [] header.kind = "range"  -> header.a <= b /\ b <= header.b
          [] header.kind = "from"   -> header.a <= b
          [] header.kind = "suffix" -> b >= objSize - header.b}

\* Whatever is saved, evicted and discarded while lazilyRespond runs, the
\* client gets the bytes of its range in order, none twice and none left
\* out, from whichever files and upstream responses they come.
SentIsPrefix ==
    \A k \in DOMAIN sent :
        /\ sent[k] \in Wanted
        /\ {b \in Wanted : b < sent[k]} = {sent[j] : j \in 1..(k - 1)}

\* A response that ends without a failure is the whole range, and a request is
\* refused only when the object has none of the bytes it asks for
\* (knownRanged, lazilyRespond).
AnswerIsComplete ==
    /\ phase = "done" => ToSet(sent) = Wanted
    /\ phase = "refused" => Wanted = {}

\* What is read from the upstream ends on a boundary of parts, even if the
\* client wants less or leaves, so that every part read can be saved
\* (partReadCloser.Close).
FetchesWholeParts ==
    \A p \in Parts :
        LET bytes == ToSet(PartBytes(p))
        IN  bytes \subseteq fetched \/ bytes \cap fetched = {}

\* No part outside of the range is read from the upstream (getContents asks
\* for no byte beyond the part of the last byte): a client that jumps
\* about in a file makes the cache fetch what it watches.
FetchesOnlyTheRange ==
    \A p \in Parts :
        ToSet(PartBytes(p)) \cap fetched # {} => ToSet(PartBytes(p)) \cap Wanted # {}

=============================================================================
