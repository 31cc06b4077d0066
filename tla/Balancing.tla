----------------------------- MODULE Balancing -----------------------------
(***************************************************************************)
(* The balancing algorithms of an upstream (upstream/balancing): what Set  *)
(* makes of the addresses, and which of them Get may answer.               *)
(*                                                                         *)
(* An address has the name its hash is taken of (the host of the config,   *)
(* or the IP it was resolved to) and a weight.  A path is the point it is  *)
(* hashed to.  Numbers of the code that are uint32 are taken modulo Word.  *)
(***************************************************************************)
EXTENDS Integers, Sequences, SequencesExt, FiniteSetsExt, Functions, TLC

CONSTANTS
  Hash(_, _, _),    \* the point of a name, an index and an alignment (md5)
  Score(_, _),      \* the score of a name for a point (crc32)
  PointsPerServer, PointsPerHash,
  Word,             \* 2^32
  NoAddress         \* Get returned an error

ASSUME BalancingAssumption ==
  /\ PointsPerHash \in Nat \ {0} /\ Word \in Nat \ {0}
  /\ PointsPerServer \in Nat /\ PointsPerServer >= PointsPerHash

Algorithms == {"ketama", "legacyketama", "random", "rendezvous",
               "unweighted-random", "unweighted-roundrobin"}

Weights(s) == [i \in DOMAIN s |-> s[i].weight]
SumOf(numbers) == FoldLeft(LAMBDA a, b : a + b, 0, numbers)
TotalWeight(s) == SumOf(Weights(s))

EqualWeights(s) == \A i, j \in DOMAIN s : s[i].weight = s[j].weight

(***************************************************************************)
(* ketama and legacyketama: a ring of points.                              *)
(***************************************************************************)
MaxPoints(s) == (Len(s) * PointsPerServer) % Word

\* the share of the i-th address; a total of 0 is a division by zero
Points(s, i) == ((s[i].weight * MaxPoints(s)) % Word) \div (TotalWeight(s) % Word)

Panics(algo, s) ==
  algo \in {"ketama", "legacyketama"} /\ s # <<>> /\ TotalWeight(s) % Word = 0

\* the first n points of an address
PointsOn(a, n) ==
  {[address |-> a, point |-> Hash(a.name, k \div PointsPerHash, k % PointsPerHash)] : k \in 0..n-1}

\* Every share is rounded up by 1 to PointsPerHash points, and the ring is cut at its
\* capacity, so the last addresses get fewer.
LegacyRing(s) ==
  LET rounded == [i \in DOMAIN s |-> (Points(s, i) + PointsPerHash) - (Points(s, i) % PointsPerHash)]
      room(i) == Max({0, MaxPoints(s) - SumOf(SubSeq(rounded, 1, i - 1))})
  IN  UNION {PointsOn(s[i], Min({rounded[i], room(i)})) : i \in DOMAIN s}

Ring(s) ==
  UNION {PointsOn(s[i], PointsPerHash * (Points(s, i) \div PointsPerHash)) : i \in DOMAIN s}

\* Points that are equal are in any order.
Owners(points, point) == {p.address : p \in {q \in points : q.point = point}}
PointsIn(points) == {p.point : p \in points}

\* Mutant: the search does not wrap around.
KetamaGetNoWrap(ring, at) ==
  LET below == {p \in PointsIn(ring) : p < at}
  IN  IF below = {} THEN {NoAddress} ELSE Owners(ring, Max(below))

\* sorted downwards: the first point below that of the path, else the first of all
KetamaGet(ring, at) ==
  LET below == {p \in PointsIn(ring) : p < at}
  IN  IF ring = {} THEN {NoAddress}
      ELSE Owners(ring, Max(IF below # {} THEN below ELSE PointsIn(ring)))

\* sorted upwards: find never gets past the last point, it does not wrap around
LegacyKetamaGet(ring, at) ==
  LET notLess == {p \in PointsIn(ring) : p >= at}
  IN  IF ring = {} THEN {NoAddress}
      ELSE Owners(ring, IF notLess # {} THEN Min(notLess) ELSE Max(PointsIn(ring)))

(***************************************************************************)
(* random, rendezvous.                                                     *)
(***************************************************************************)
Reached(chosen, reached) == chosen < reached

\* sort.Sort by weight, downwards; addresses of one weight are in any order.
Order(s) ==
  CHOOSE p \in Bijection(DOMAIN s, DOMAIN s) :
    \A i, j \in DOMAIN s : i < j => s[p[i]].weight >= s[p[j]].weight

\* the first whose weights reach the chosen number
RandomGet(s) ==
  LET sorted  == [i \in DOMAIN s |-> s[Order(s)[i]]]
      reached == [i \in DOMAIN s |-> SumOf(SubSeq(Weights(sorted), 1, i)) % Word]
      Hit(chosen) == {i \in DOMAIN s : Reached(chosen % Word, reached[i])}
  IN  IF TotalWeight(sorted) <= 0 THEN {NoAddress}
      ELSE {IF Hit(chosen) = {} THEN NoAddress ELSE sorted[Min(Hit(chosen))] :
              chosen \in 0..TotalWeight(sorted) - 1}

\* The k-th multiplier to the power of the addresses from k on, times the multipliers
\* before it, is the sum of the weights before k and of as many times the weight of k: all
\* multipliers are positive when the first weight is. After a first weight of 0 they are
\* 0, +Inf and then NaN, which no score is greater than, or NaN from the start.
Scored(s) ==
  IF s[1].weight > 0 THEN DOMAIN s ELSE {i \in DOMAIN s : i = 2 /\ s[i].weight > 0}

\* Equal weights have multipliers of 1. What others are is left to the floating point
\* arithmetic: any address that has a score.
RendezvousGet(s, at) ==
  LET score == [i \in DOMAIN s |-> Score(s[i].name, at)]
      found == {i \in Scored(s) : score[i] > 0}
      best  == {i \in found : \A j \in found : score[j] <= score[i]}
  IN  IF s = <<>> \/ found = {} THEN {NoAddress}
      ELSE IF EqualWeights(s) THEN {s[Min(best)]} ELSE {s[i] : i \in found}

(***************************************************************************)
(* All of them: what Set keeps, and what Get may answer of it.             *)
(***************************************************************************)
RingOf(algo, s) ==
  CASE Panics(algo, s) -> {}
    [] ~Panics(algo, s) /\ algo = "ketama" -> Ring(s)
    [] ~Panics(algo, s) /\ algo = "legacyketama" -> LegacyRing(s)
    [] algo \notin {"ketama", "legacyketama"} -> {}

Set(algo, s) == [algo |-> algo, servers |-> s, ring |-> RingOf(algo, s), counter |-> 0]

Get(b, at) ==
  CASE b.algo = "ketama" -> KetamaGet(b.ring, at)
    [] b.algo = "legacyketama" -> LegacyKetamaGet(b.ring, at)
    [] b.algo = "random" -> RandomGet(b.servers)
    [] b.algo = "rendezvous" -> RendezvousGet(b.servers, at)
    [] b.algo = "unweighted-random" ->
         IF b.servers = <<>> THEN {NoAddress} ELSE Range(b.servers)
    [] b.algo = "unweighted-roundrobin" ->
         IF b.servers = <<>> THEN {NoAddress}
         ELSE {b.servers[(b.counter % Len(b.servers)) + 1]}

\* Mutant: the counter is advanced twice for an answer.
AdvanceTwice(b) ==
  IF b.algo = "unweighted-roundrobin" /\ b.servers # <<>>
  THEN [b EXCEPT !.counter = (@ + 2) % Word] ELSE b

\* atomic.AddUint32 of the round-robin, unless there is no address
Advance(b) ==
  IF b.algo = "unweighted-roundrobin" /\ b.servers # <<>>
  THEN [b EXCEPT !.counter = (@ + 1) % Word] ELSE b
=============================================================================
