---------------------------- MODULE Routing_proofs ----------------------------
(***************************************************************************)
(* The choice of a location for any set of locations in any order, the     *)
(* requests to the upstreams, for any clients, status codes and addresses, *)
(* the turns of the round-robin, for any number of addresses, and the      *)
(* rings and sums of the other algorithms: which paths stay with their     *)
(* addresses when one of them goes, and that a server is always found.     *)
(***************************************************************************)
EXTENDS Routing, FiniteSetTheorems, WellFoundedInduction, TLAPS

-----------------------------------------------------------------------------
(* The first and the last of a set of positions *)

LEMMA MinIsLeast ==
    ASSUME NEW S \in SUBSET Nat, S # {}
    PROVE  Min(S) \in S /\ \A y \in S : Min(S) <= y
<1>1. PICK x \in S : \A y \in S : ~(<<y, x>> \in OpToRel(<, Nat))
  BY WFMin, NatLessThanWellFounded, Zenon
<1>2. ASSUME NEW y \in S
      PROVE  x <= y
  <2>1. ~(<<y, x>> \in OpToRel(<, Nat))
    BY <1>1
  <2>2. x \in Nat /\ y \in Nat
    OBVIOUS
  <2>3. y < x => <<y, x>> \in OpToRel(<, Nat)
    BY <2>2, Zenon DEF OpToRel
  <2>4. ~(y < x)
    BY <2>1, <2>3, Zenon
  <2>5. QED  BY <2>2, <2>4
<1>3. QED  BY <1>2 DEF Min

LEMMA MaxIsLargest ==
    ASSUME NEW n \in Nat, NEW S \in SUBSET (0..n), S # {}
    PROVE  Max(S) \in S /\ \A y \in S : Max(S) >= y
<1> DEFINE T == {n - x : x \in S}
<1>1. T \in SUBSET Nat /\ T # {}
  <2>1. \A x \in S : x \in Nat /\ n - x \in Nat
    OBVIOUS
  <2>2. QED  BY <2>1
<1>2. \A x \in S : n - x \in T /\ x \in Nat
  OBVIOUS
<1>3. \A t \in T : \E x \in S : t = n - x
  OBVIOUS
<1> HIDE DEF T
<1>4. Min(T) \in T /\ \A y \in T : Min(T) <= y
  BY <1>1, MinIsLeast
<1>5. PICK x \in S : Min(T) = n - x
  BY <1>3, <1>4
<1>6. \A y \in S : x >= y
  <2> SUFFICES ASSUME NEW y \in S PROVE x >= y
    OBVIOUS
  <2>1. n - x <= n - y
    BY <1>2, <1>4, <1>5
  <2>2. QED  BY <1>2, <2>1
<1>7. QED  BY <1>6 DEF Max

LEMMA MaxIsInside ==
    ASSUME NEW n \in Nat, NEW S \in SUBSET (1..n), S # {}
    PROVE  Max(S) \in S
<1>1. S \in SUBSET (0..n)
  OBVIOUS
<1>2. QED  BY <1>1, MaxIsLargest

\* There is only one.
LEMMA MaxIs ==
    ASSUME NEW n \in Nat, NEW S \in SUBSET (0..n), NEW m \in S, \A y \in S : m >= y
    PROVE  Max(S) = m
<1>1. Max(S) \in S /\ Max(S) >= m
  <2>1. S # {}
    OBVIOUS
  <2>2. QED  BY <2>1, MaxIsLargest
<1>2. \A y \in S : y \in Nat
  OBVIOUS
<1> DEFINE x == Max(S)
<1>3. x \in S /\ x >= m
  BY <1>1
<1> HIDE DEF x
<1>4. x = m
  BY <1>2, <1>3
<1>5. QED  BY <1>4 DEF x

LEMMA MinIs ==
    ASSUME NEW S \in SUBSET Nat, NEW m \in S, \A y \in S : m <= y
    PROVE  Min(S) = m
<1>1. Min(S) \in S /\ Min(S) <= m
  BY MinIsLeast
<1>2. m \in Nat /\ Min(S) \in Nat /\ m <= Min(S)
  BY <1>1
<1>3. QED  BY <1>1, <1>2

-----------------------------------------------------------------------------
(* The location that a muxer answers *)

\* What is known of the locations of a virtual host.
Sound(locations) ==
    /\ Len(locations) \in Nat /\ DOMAIN locations = 1..Len(locations)
    /\ Parsable(locations)
    /\ \A i \in DOMAIN locations : /\ locations[i].kind \in Kinds
                                   /\ locations[i] # NoLocation
                                   /\ Len(locations[i].prefix) \in Nat

\* Under every key of the trie there is a location with that prefix.
LEMMA TrieIsKeyed ==
    ASSUME NEW locations, Sound(locations)
    PROVE  LET trie == LocationTrie(locations)
           IN  /\ \A k \in DOMAIN trie : /\ trie[k] \in Range(locations)
                                         /\ HasPrefix(trie[k]) /\ trie[k].prefix = k
               /\ \A l \in Range(locations) : HasPrefix(l) => l.prefix \in DOMAIN trie
<1> DEFINE With(prefix) == {i \in DOMAIN locations : /\ HasPrefix(locations[i])
                                                     /\ locations[i].prefix = prefix}
           Keys == {locations[i].prefix : i \in {j \in DOMAIN locations : HasPrefix(locations[j])}}
<1>1. LocationTrie(locations) = [prefix \in Keys |-> locations[Max(With(prefix))]]
  BY DEF LocationTrie
<1>2. ASSUME NEW k \in Keys
      PROVE  Max(With(k)) \in With(k)
  <2>1. With(k) \in SUBSET (1..Len(locations)) /\ With(k) # {} /\ Len(locations) \in Nat
    BY <1>2 DEF Sound
  <2> HIDE DEF With
  <2>2. QED  BY <2>1, MaxIsInside
<1>3. \A l \in Range(locations) : HasPrefix(l) => l.prefix \in Keys
  BY DEF Range
<1>4. QED  BY <1>1, <1>2, <1>3 DEF Range

\* The regular expressions are those of the locations, and one that accepts is found.
LEMMA RegexIsFound ==
    ASSUME NEW locations, Sound(locations), NEW path
    PROVE  LET regex == FirstMatchingRegex(NewLocationMuxer(locations), path)
           IN  \/ /\ regex = NoLocation
                  /\ \A l \in Range(locations) : IsRegular(l) => path \notin l.matches
               \/ /\ regex \in Range(locations) /\ IsRegular(regex) /\ path \in regex.matches
<1> DEFINE regexes == Restrict(locations, {i \in DOMAIN locations : IsRegular(locations[i])})
           matching == {i \in DOMAIN regexes : path \in regexes[i].matches}
<1>1. FirstMatchingRegex(NewLocationMuxer(locations), path) =
        IF matching = {} THEN NoLocation ELSE regexes[Min(matching)]
  BY DEF FirstMatchingRegex, NewLocationMuxer
<1>2. \A i : i \in matching <=> /\ i \in DOMAIN locations /\ IsRegular(locations[i])
                                /\ path \in locations[i].matches
  BY DEF Restrict
<1>3. \A i \in matching : regexes[i] = locations[i]
  BY DEF Restrict
<1>4. matching \in SUBSET Nat
  BY <1>2 DEF Sound
<1> HIDE DEF matching, regexes
<1>5. matching # {} => Min(matching) \in matching
  BY <1>4, MinIsLeast
<1>6. QED  BY <1>1, <1>2, <1>3, <1>5 DEF Range

\* The prefixes that take part are tried by their length, when no two are alike.
LEMMA LongestIsFound ==
    ASSUME NEW locations, Sound(locations), NEW path, Unambiguous(path, Range(locations)),
           NEW l \in LongestMatchingPath(NewLocationMuxer(locations), path)
    PROVE  \/ /\ l = NoLocation
              /\ \A m \in Range(locations) : HasPrefix(m) => ~TakesPart(m, path)
           \/ /\ l \in Range(locations) /\ HasPrefix(l) /\ TakesPart(l, path)
              /\ \A m \in Range(locations) :
                    HasPrefix(m) /\ TakesPart(m, path) => Len(m.prefix) <= Len(l.prefix)
<1> DEFINE trie == LocationTrie(locations)
           L == Range(locations)
           matching == {k \in DOMAIN trie : TakesPart(trie[k], path)}
           longest == {k \in matching : \A other \in matching : Len(other) <= Len(k)}
<1>1. l \in IF matching = {} THEN {NoLocation} ELSE {trie[k] : k \in longest}
  BY DEF LongestMatchingPath, NewLocationMuxer
<1>2. /\ \A k \in DOMAIN trie : trie[k] \in L /\ HasPrefix(trie[k]) /\ trie[k].prefix = k
      /\ \A m \in L : HasPrefix(m) => m.prefix \in DOMAIN trie
  BY TrieIsKeyed
<1> HIDE DEF trie
<1>3. ASSUME NEW m \in L, HasPrefix(m)
      PROVE  trie[m.prefix] = m
  <2>1. trie[m.prefix] \in L /\ HasPrefix(trie[m.prefix]) /\ trie[m.prefix].prefix = m.prefix
    BY <1>2, <1>3
  <2>2. EqualFold(trie[m.prefix].prefix, m.prefix)
    BY <2>1 DEF EqualFold
  <2>3. QED  BY <1>3, <2>1, <2>2 DEF Unambiguous
<1>4. \A m \in L : HasPrefix(m) /\ TakesPart(m, path) => m.prefix \in matching
  BY <1>2, <1>3
<1>5. QED  BY <1>1, <1>2, <1>4

LEMMA MatchAnswers ==
    ASSUME NEW locations, Sound(locations), NEW path, Unambiguous(path, Range(locations)),
           NEW l \in Match(NewLocationMuxer(locations), path)
    PROVE  IF l = NoLocation THEN \A m \in Range(locations) : ~Accepts(m, path)
           ELSE Answers(l, path, Range(locations))
<1> DEFINE L == Range(locations)
           regex == FirstMatchingRegex(NewLocationMuxer(locations), path)
<1>1. PICK p \in LongestMatchingPath(NewLocationMuxer(locations), path) :
        l = IF p # NoLocation /\ p.kind = "bestNonRegular" THEN p
            ELSE IF regex # NoLocation THEN regex ELSE p
  BY DEF Match
<1>2. \/ /\ p = NoLocation
         /\ \A m \in L : HasPrefix(m) => ~TakesPart(m, path)
      \/ /\ p \in L /\ HasPrefix(p) /\ TakesPart(p, path)
         /\ \A m \in L : HasPrefix(m) /\ TakesPart(m, path) => Len(m.prefix) <= Len(p.prefix)
  BY LongestIsFound
<1>3. \/ regex = NoLocation /\ \A m \in L : IsRegular(m) => path \notin m.matches
      \/ regex \in L /\ IsRegular(regex) /\ path \in regex.matches
  BY RegexIsFound
<1>4. \A m \in L : /\ m # NoLocation /\ Len(m.prefix) \in Nat
                   /\ HasPrefix(m) <=> ~IsRegular(m)
                   /\ m.kind = "bestNonRegular" => HasPrefix(m)
  BY DEF Sound, Parsable, Range, Kinds, HasPrefix, IsRegular
<1>5. \A m \in L : /\ IsRegular(m) => (Accepts(m, path) <=> path \in m.matches)
                   /\ HasPrefix(m) => (Accepts(m, path) <=> TakesPart(m, path))
  BY <1>4 DEF Accepts
<1> HIDE DEF regex, L
<1>6. CASE l = NoLocation
  BY <1>1, <1>2, <1>3, <1>4, <1>5, <1>6 DEF L
<1>7. CASE l # NoLocation /\ l = p
  <2>1. l \in L /\ HasPrefix(l) /\ Accepts(l, path) /\ ~IsRegular(l)
    BY <1>2, <1>4, <1>5, <1>7
  <2>2. \A r \in L : Accepts(r, path) /\ ~IsRegular(r) => ~(Len(r.prefix) > Len(l.prefix))
    BY <1>2, <1>4, <1>5, <1>7, <2>1
  <2>3. l.kind # "bestNonRegular" => \A r \in L : Accepts(r, path) => ~IsRegular(r)
    BY <1>1, <1>3, <1>4, <1>5, <1>7, <2>1
  <2>4. Answers(l, path, L)
    <3>1. CASE l.kind = "bestNonRegular"
      BY <2>1, <2>2, <3>1 DEF Answers, IsRegular
    <3>2. CASE l.kind # "bestNonRegular"
      <4>1. \A r \in L : Accepts(r, path) =>
              ~(IsRegular(r) \/ (~IsRegular(r) /\ Len(r.prefix) > Len(l.prefix)))
        BY <2>2, <2>3, <3>2
      <4>2. QED  BY <2>1, <3>2, <4>1 DEF Answers, IsRegular
    <3>3. QED  BY <3>1, <3>2
  <2>5. QED  BY <1>7, <2>4 DEF L
<1>8. CASE l # NoLocation /\ l # p
  <2>1. l = regex /\ l \in L /\ IsRegular(l) /\ Accepts(l, path)
    BY <1>1, <1>3, <1>5, <1>8
  <2>2. ASSUME NEW r \in L, r # l, Accepts(r, path), r.kind = "bestNonRegular",
               \A s \in L \ {l, r} : Accepts(s, path) =>
                  IsRegular(s) \/ Len(s.prefix) < Len(r.prefix)
        PROVE  FALSE
    <3>1. p \in L /\ HasPrefix(p) /\ Accepts(p, path) /\ Len(r.prefix) <= Len(p.prefix)
      BY <1>2, <1>4, <1>5, <2>2
    <3>2. p = r
      BY <1>4, <1>8, <2>2, <3>1
    <3>3. QED  BY <1>1, <1>4, <1>8, <2>2, <3>2
  <2>3. Answers(l, path, L)
    <3> DEFINE rivals == {r \in L \ {l} : Accepts(r, path)}
               Best(r) == /\ r.kind = "bestNonRegular"
                          /\ \A s \in rivals \ {r} : \/ IsRegular(s)
                                                     \/ Len(s.prefix) < Len(r.prefix)
    <3>1. ~\E r \in rivals : Best(r)
      <4> SUFFICES ASSUME NEW r \in rivals, Best(r) PROVE FALSE
        OBVIOUS
      <4>1. \A s \in L \ {l, r} : Accepts(s, path) => s \in rivals \ {r}
        OBVIOUS
      <4>2. QED  BY <2>2, <4>1
    <3>2. l.kind = "regular" /\ Accepts(l, path)
      BY <2>1 DEF IsRegular
    <3>3. (\E r \in rivals : Best(r)) =
            \E r \in rivals : /\ r.kind = "bestNonRegular"
                              /\ \A s \in rivals \ {r} : \/ IsRegular(s)
                                                         \/ Len(s.prefix) < Len(r.prefix)
      OBVIOUS
    <3> HIDE DEF Best
    <3>4. QED  BY <3>1, <3>2, <3>3, Zenon DEF Answers, IsRegular
  <2>4. QED  BY <1>8, <2>3 DEF L
<1>9. QED  BY <1>6, <1>7, <1>8

-----------------------------------------------------------------------------

LEMMA MuxerOfSetup ==
    Spec => [](setup \in Setups /\ Parsable(setup.locations)
               /\ muxer = NewLocationMuxer(setup.locations))
<1> DEFINE I == /\ setup \in Setups /\ Parsable(setup.locations)
                /\ muxer = NewLocationMuxer(setup.locations)
<1>1. Init => I
  BY DEF Init
<1>2. [Next]_vars => UNCHANGED <<setup, muxer>>
  BY DEF Next, vars, Resolve, Locate, GetAddress, Do, Retry, Answer, Forget
<1>3. I /\ [Next]_vars => I'
  BY <1>2
<1>4. QED  BY <1>1, <1>3, PTL DEF Spec

\* Of any locations, in whatever order they were read, the muxer answers the right one
\* for every path that is not contended for (location_muxer.go).
THEOREM RoutingRightLocation == Spec => []RightLocation
<1>1. ASSUME setup \in Setups, Parsable(setup.locations),
             muxer = NewLocationMuxer(setup.locations)
      PROVE  RightLocation
  <2>1. Sound(setup.locations)
    BY <1>1, RoutingAssumption DEF Sound
  <2>2. QED  BY <1>1, <2>1, MatchAnswers DEF RightLocation, Configured
<1>2. QED  BY <1>1, MuxerOfSetup, PTL

-----------------------------------------------------------------------------
(* A request and its upstreams *)

Fields == {"pc", "path", "location", "upstream", "tries", "address", "code", "opened",
           "closed", "answers"}

\* A body is open between the answer of an upstream and its copy or retry only.
RequestOK(r) ==
    /\ DOMAIN r = Fields
    /\ r.pc \in {"idle", "address", "do", "answered", "done"}
    /\ r.closed \in Nat
    /\ r.pc # "done" => r.answers = <<>>
    /\ r.pc = "address" => r.tries \in {0, 1}
    /\ r.pc \in {"do", "answered"} => r.tries \in {1, 2}
    /\ r.pc \in {"address", "do"} => r.opened = r.closed
    /\ r.pc = "answered" => r.opened = r.closed + 1
    /\ r.pc = "done" => /\ Len(r.answers) = 1
                        /\ r.answers[1] \in {500, r.code}
                        /\ r.tries <= 2
                        /\ r.opened = r.closed

ReqOK ==
    /\ req = [c \in Clients |-> req[c]]
    /\ \A c \in Clients : RequestOK(req[c])

LEMMA OneRequest ==
    ASSUME ReqOK, NEW c \in Clients, NEW r, req' = [req EXCEPT ![c] = r], RequestOK(r)
    PROVE  ReqOK'
BY DEF ReqOK

LEMMA FailsOK ==
    ASSUME ReqOK, NEW c \in Clients, req[c].pc \in {"address", "do"}, req' = Fails(c)
    PROVE  ReqOK'
<1> DEFINE r == [req[c] EXCEPT !.pc = "done", !.answers = Append(@, 500)]
<1>1. RequestOK(req[c])
  BY DEF ReqOK
<1>2. Append(<<>>, 500) = <<500>>
  OBVIOUS
<1>3. /\ DOMAIN r = Fields /\ r.pc = "done" /\ r.answers = <<500>> /\ r.closed = req[c].closed
      /\ r.opened = req[c].opened /\ r.tries = req[c].tries /\ r.code = req[c].code
  BY <1>1, <1>2, ZenonT(60) DEF RequestOK, Fields
<1>4. RequestOK(r)
  <2> HIDE DEF r
  <2>1. req[c].tries <= 2 /\ req[c].opened = req[c].closed /\ req[c].closed \in Nat
    BY <1>1 DEF RequestOK
  <2>2. QED  BY <1>3, <2>1 DEF RequestOK
<1>5. req' = [req EXCEPT ![c] = r]
  BY ZenonT(60) DEF Fails
<1> HIDE DEF r
<1>6. QED  BY <1>4, <1>5, OneRequest

LEMMA ReqStep ==
    ASSUME ReqOK, NEW c \in Clients,
           \/ \E path \in Requested : Locate(c, path)
           \/ GetAddress(c) \/ Do(c) \/ Retry(c) \/ Answer(c) \/ Forget(c)
    PROVE  ReqOK'
<1>1. RequestOK(req[c])
  BY DEF ReqOK
<1>2. RequestOK(Idle)
  BY DEF RequestOK, Idle, Fields
<1>3. CASE \E path \in Requested : Locate(c, path)
  <2>1. PICK path, location : req' = [req EXCEPT ![c] =
                 [Idle EXCEPT !.pc = "address", !.path = path, !.location = location,
                              !.upstream = IF location = NoLocation THEN Main
                                           ELSE location.upstream]]
    BY <1>3 DEF Locate
  <2> DEFINE r == [Idle EXCEPT !.pc = "address", !.path = path, !.location = location,
                               !.upstream = IF location = NoLocation THEN Main
                                            ELSE location.upstream]
  <2>2. RequestOK(r)
    BY DEF RequestOK, Idle, Fields
  <2> HIDE DEF r
  <2>3. QED  BY <2>1, <2>2, OneRequest DEF r
<1>4. CASE GetAddress(c)
  <2>1. req[c].pc = "address"
    BY <1>4 DEF GetAddress
  <2>2. PICK address : req' = IF address = NoAddress THEN Fails(c)
                              ELSE [req EXCEPT ![c].pc = "do", ![c].address = address,
                                               ![c].tries = @ + 1]
    BY <1>4 DEF GetAddress
  <2> DEFINE r == [req[c] EXCEPT !.pc = "do", !.address = address, !.tries = @ + 1]
  <2>3. /\ DOMAIN r = Fields /\ r.pc = "do" /\ r.answers = req[c].answers
        /\ r.tries = req[c].tries + 1
        /\ r.closed = req[c].closed /\ r.opened = req[c].opened
    BY <1>1 DEF RequestOK, Fields
  <2>4. req' = Fails(c) \/ req' = [req EXCEPT ![c] = r]
    BY <1>1, <2>2 DEF RequestOK, Fields, ReqOK
  <2> HIDE DEF r
  <2>5. RequestOK(r)
    BY <1>1, <2>1, <2>3 DEF RequestOK
  <2>6. QED  BY <2>1, <2>4, <2>5, OneRequest, FailsOK
<1>5. CASE Do(c)
  <2>1. req[c].pc = "do"
    BY <1>5 DEF Do
  <2>2. CASE req' = Fails(c)
    BY <2>1, <2>2, FailsOK
  <2>3. ASSUME NEW code \in Codes,
               req' = [req EXCEPT ![c].pc = "answered", ![c].code = code, ![c].opened = @ + 1]
        PROVE  ReqOK'
    <3> DEFINE r == [req[c] EXCEPT !.pc = "answered", !.code = code, !.opened = @ + 1]
    <3>1. /\ DOMAIN r = Fields /\ r.pc = "answered" /\ r.answers = req[c].answers
          /\ r.opened = req[c].opened + 1
          /\ r.closed = req[c].closed /\ r.tries = req[c].tries
      BY <1>1 DEF RequestOK, Fields
    <3>2. req' = [req EXCEPT ![c] = r]
      BY <1>1, <2>3 DEF RequestOK, Fields, ReqOK
    <3> HIDE DEF r
    <3>3. RequestOK(r)
      BY <1>1, <2>1, <3>1 DEF RequestOK
    <3>4. QED  BY <3>2, <3>3, OneRequest
  <2>4. QED  BY <1>5, <2>2, <2>3 DEF Do
<1>6. CASE Retry(c)
  <2> DEFINE r == [req[c] EXCEPT !.pc = "address", !.upstream = CodesToRetry[req[c].code],
                                 !.closed = @ + 1]
  <2>1. req[c].pc = "answered" /\ req[c].tries = 1 /\ req' = [req EXCEPT ![c] = r]
    BY <1>1, <1>6 DEF Retry, Retries, RequestOK, Fields, ReqOK
  <2>2. /\ DOMAIN r = Fields /\ r.pc = "address" /\ r.answers = req[c].answers
        /\ r.closed = req[c].closed + 1
        /\ r.opened = req[c].opened /\ r.tries = req[c].tries
    BY <1>1 DEF RequestOK, Fields
  <2> HIDE DEF r
  <2>3. RequestOK(r)
    BY <1>1, <2>1, <2>2 DEF RequestOK
  <2>4. QED  BY <2>1, <2>3, OneRequest
<1>7. CASE Answer(c)
  <2> DEFINE r == [req[c] EXCEPT !.pc = "done", !.answers = Append(@, req[c].code),
                                 !.closed = @ + 1]
  <2>1. req[c].pc = "answered" /\ req' = [req EXCEPT ![c] = r]
    BY <1>1, <1>7 DEF Answer, RequestOK, Fields, ReqOK
  <2>2. Append(<<>>, req[c].code) = <<req[c].code>>
    OBVIOUS
  <2>3. /\ DOMAIN r = Fields /\ r.pc = "done" /\ r.answers = <<req[c].code>>
        /\ r.closed = req[c].closed + 1
        /\ r.opened = req[c].opened /\ r.tries = req[c].tries /\ r.code = req[c].code
    BY <1>1, <2>1, <2>2 DEF RequestOK, Fields
  <2> HIDE DEF r
  <2>4. RequestOK(r)
    BY <1>1, <2>1, <2>3 DEF RequestOK
  <2>5. QED  BY <2>1, <2>4, OneRequest
<1>8. CASE Forget(c)
  BY <1>2, <1>8, OneRequest DEF Forget
<1>9. QED  BY <1>3, <1>4, <1>5, <1>6, <1>7, <1>8

\* However many clients, retries and failures, a request is answered once and
\* every body that an upstream sent for it is closed (proxy/impl.go).
THEOREM RoutingAnsweredOnce == Spec => []AnsweredOnce
<1>1. Init => ReqOK
  BY DEF Init, ReqOK, RequestOK, Idle, Fields
<1>2. ReqOK /\ [Next]_vars => ReqOK'
  <2>1. ASSUME ReqOK, UNCHANGED req PROVE ReqOK'
    BY <2>1 DEF ReqOK
  <2>2. QED  BY <2>1, ReqStep DEF Next, vars, Resolve
<1>3. ReqOK => AnsweredOnce
  BY DEF ReqOK, RequestOK, AnsweredOnce
<1>4. QED  BY <1>1, <1>2, <1>3, PTL DEF Spec

-----------------------------------------------------------------------------
(* Numbers modulo n *)

LEMMA MultipleIsLarge ==
    ASSUME NEW n \in Nat \ {0}, NEW k \in Int, n * k > 0
    PROVE  n * k >= n
<1>1. k >= 1
  <2>1. k < 1 => n * k <= 0
    OBVIOUS
  <2>2. QED  BY <2>1
<1>2. QED  BY <1>1

LEMMA DivMod ==
    ASSUME NEW n \in Nat \ {0}, NEW x \in Nat
    PROVE  \E p \in Int : x = n * p + (x % n)
<1>1. x = n * (x \div n) + (x % n) /\ x \div n \in Int
  OBVIOUS
<1>2. QED  BY <1>1

\* Two numbers that are less than n apart differ modulo n.
LEMMA NearDiffer ==
    ASSUME NEW n \in Nat \ {0}, NEW x \in Nat, NEW y \in Nat, x < y, y - x < n
    PROVE  x % n # y % n
<1>1. SUFFICES ASSUME x % n = y % n PROVE FALSE
  OBVIOUS
<1>2. PICK p \in Int : x = n * p + (x % n)
  BY DivMod
<1>3. PICK q \in Int : y = n * q + (y % n)
  BY DivMod
<1>4. x % n \in Int
  OBVIOUS
<1>5. n * (q - p) = n * q - n * p
  OBVIOUS
<1>6. n * p \in Int /\ n * q \in Int
  OBVIOUS
<1>7. n * (q - p) = y - x
  BY <1>1, <1>2, <1>3, <1>4, <1>5, <1>6
<1>8. n * (q - p) >= n
  BY <1>7, MultipleIsLarge
<1>9. QED  BY <1>7, <1>8

\* A multiple of n can be added.
LEMMA ShiftIsSame ==
    ASSUME NEW n \in Nat \ {0}, NEW x \in Nat, NEW w \in Nat, w % n = 0
    PROVE  (x + w) % n = x % n
<1>1. PICK p \in Int : x = n * p + (x % n)
  BY DivMod
<1>2. PICK q \in Int : w = n * q + (w % n)
  BY DivMod
<1>3. PICK k \in Int : x + w = n * k + ((x + w) % n)
  <2>1. x + w \in Nat
    OBVIOUS
  <2>2. QED  BY <2>1, DivMod
<1>4. x % n \in 0 .. n - 1 /\ (x + w) % n \in 0 .. n - 1
  OBVIOUS
<1> DEFINE d == (p + q) - k
<1>5. n * d = (n * p + n * q) - n * k
  OBVIOUS
<1>6. n * p \in Int /\ n * q \in Int /\ n * k \in Int /\ d \in Int
  OBVIOUS
<1> HIDE DEF d
<1>7. n * d = ((x + w) % n) - (x % n)
  <2> DEFINE a == n * p
             b == n * q
             c == n * k
             r == x % n
             s == (x + w) % n
  <2>1. a \in Int /\ b \in Int /\ c \in Int /\ r \in Int /\ s \in Int
    BY <1>4, <1>6
  <2>2. x = a + r /\ w = b /\ x + w = c + s /\ n * d = (a + b) - c
    BY <1>1, <1>2, <1>3, <1>5, <1>6
  <2> HIDE DEF a, b, c, r, s
  <2>3. n * d = s - r
    BY <2>1, <2>2
  <2>4. QED  BY <2>3 DEF r, s
<1>8. n * (-d) = -(n * d)
  BY <1>6
<1>9. ~(n * d > 0)
  BY <1>4, <1>6, <1>7, MultipleIsLarge
<1>10. ~(n * (-d) > 0)
  <2>1. -d \in Int /\ n * d \in Int
    BY <1>6
  <2>2. n * (-d) > 0 => n * (-d) >= n
    BY <2>1, MultipleIsLarge
  <2>3. QED  BY <1>4, <1>7, <1>8, <2>1, <2>2
<1>11. QED  BY <1>4, <1>6, <1>7, <1>8, <1>9, <1>10

-----------------------------------------------------------------------------
(* FlattenSeq *)

\* The body of the recursive function of FlattenSeq.
Joined(f, seqs, i) == IF i = 1 THEN seqs[i] ELSE f[i - 1] \o seqs[i]

IsJoined(f, seqs, n) == f = [i \in 1..n |-> Joined(f, seqs, i)]

LEMMA JoinedExists ==
    ASSUME NEW seqs, NEW n \in Nat
    PROVE  \E f : IsJoined(f, seqs, n)
<1> DEFINE Bad == {m \in Nat : ~\E f : IsJoined(f, seqs, m)}
<1>1. SUFFICES ASSUME Bad # {} PROVE FALSE
  OBVIOUS
<1>2. PICK m \in Bad : \A k \in Bad : m <= k
  <2>1. Bad \in SUBSET Nat
    OBVIOUS
  <2> HIDE DEF Bad
  <2>2. QED  BY <2>1, <1>1, MinIsLeast
<1>3. CASE m = 0
  <2>1. IsJoined([i \in 1..0 |-> <<>>], seqs, 0)
    BY DEF IsJoined
  <2>2. QED  BY <2>1, <1>2, <1>3
<1>4. CASE m # 0
  <2>1. m \in Nat /\ m - 1 \in Nat /\ m - 1 \notin Bad
    BY <1>2, <1>4
  <2>2. PICK f : IsJoined(f, seqs, m - 1)
    BY <2>1
  <2> DEFINE g == [i \in 1..m |-> Joined(f, seqs, i)]
  <2>3. \A i \in 1..m - 1 : f[i] = Joined(f, seqs, i)
    BY <2>1, <2>2 DEF IsJoined
  <2>4. \A i \in 1..m - 1 : g[i] = f[i]
    BY <2>1, <2>3
  <2>5. ASSUME NEW i \in 1..m
        PROVE  Joined(g, seqs, i) = Joined(f, seqs, i)
    <3>1. i = 1 \/ i - 1 \in 1..m - 1
      BY <2>1
    <3>2. i = 1 \/ g[i - 1] = f[i - 1]
      BY <3>1, <2>4
    <3> HIDE DEF g
    <3>3. QED  BY <3>2 DEF Joined
  <2>6. g = [i \in 1..m |-> Joined(g, seqs, i)]
    BY <2>5
  <2>7. QED  BY <2>6, <1>2 DEF IsJoined
<1>5. QED  BY <1>3, <1>4

LEMMA FlattenDef ==
    ASSUME NEW seqs, Len(seqs) \in Nat, Len(seqs) # 0
    PROVE  \E f : IsJoined(f, seqs, Len(seqs)) /\ FlattenSeq(seqs) = f[Len(seqs)]
<1> DEFINE f == CHOOSE f : IsJoined(f, seqs, Len(seqs))
<1>1. IsJoined(f, seqs, Len(seqs))
  BY JoinedExists
<1>2. FlattenSeq(seqs) = f[Len(seqs)]
  BY DEF FlattenSeq, IsJoined, Joined
<1>3. QED  BY <1>1, <1>2
-----------------------------------------------------------------------------
(* What the resolver finds *)

\* A sequence of different addresses, all of the hosts before the n-th.
Found(s, A, addresses, n) ==
    /\ s \in Seq(A)
    /\ \A i, j \in 1..Len(s) : s[i] = s[j] => i = j
    /\ \A i \in 1..Len(s) : \E k \in 1..n : s[i].host = addresses[k].host

LEMMA FoundJoin ==
    ASSUME NEW addresses, NEW A, NEW n \in Nat, NEW s, NEW t,
           Found(s, A, addresses, n), t \in Seq(A),
           \A i, j \in 1..Len(t) : t[i] = t[j] => i = j,
           \A i \in 1..Len(t) : t[i].host = addresses[n + 1].host,
           \A k \in 1..n : addresses[k].host # addresses[n + 1].host
    PROVE  Found(s \o t, A, addresses, n + 1)
<1> DEFINE u == s \o t
<1>1. s \in Seq(A) /\ t \in Seq(A) /\ Len(s) \in Nat /\ Len(t) \in Nat
  BY DEF Found
<1>2. /\ u \in Seq(A) /\ Len(u) = Len(s) + Len(t)
      /\ \A i \in 1..Len(u) : u[i] = IF i <= Len(s) THEN s[i] ELSE t[i - Len(s)]
  BY <1>1
<1> HIDE DEF u
<1>3. \A i \in 1..Len(u) : \/ i \in 1..Len(s) /\ u[i] = s[i]
                           \/ i - Len(s) \in 1..Len(t) /\ u[i] = t[i - Len(s)] /\ i > Len(s)
  BY <1>1, <1>2
<1>4. \A i \in 1..Len(u) : \E k \in 1..n + 1 : u[i].host = addresses[k].host
  <2>1. \A i \in 1..Len(s) : \E k \in 1..n + 1 : s[i].host = addresses[k].host
    <3>1. 1..n \subseteq 1..n + 1
      OBVIOUS
    <3>2. QED  BY <3>1 DEF Found
  <2>2. n + 1 \in 1..n + 1
    OBVIOUS
  <2>3. \A i \in 1..Len(t) : \E k \in 1..n + 1 : t[i].host = addresses[k].host
    BY <2>2
  <2> SUFFICES ASSUME NEW i \in 1..Len(u)
               PROVE  \E k \in 1..n + 1 : u[i].host = addresses[k].host
    OBVIOUS
  <2>4. CASE i \in 1..Len(s) /\ u[i] = s[i]
    BY <2>1, <2>4
  <2>5. CASE i - Len(s) \in 1..Len(t) /\ u[i] = t[i - Len(s)]
    BY <2>3, <2>5
  <2>6. QED  BY <1>3, <2>4, <2>5
<1>5. ASSUME NEW i \in 1..Len(u), NEW j \in 1..Len(u), u[i] = u[j]
      PROVE  i = j
  <2>1. CASE i \in 1..Len(s) /\ j \in 1..Len(s) /\ u[i] = s[i] /\ u[j] = s[j]
    BY <1>5, <2>1 DEF Found
  <2>2. CASE /\ i - Len(s) \in 1..Len(t) /\ u[i] = t[i - Len(s)]
             /\ j - Len(s) \in 1..Len(t) /\ u[j] = t[j - Len(s)]
    <3>1. i - Len(s) = j - Len(s)
      BY <1>5, <2>2
    <3>2. QED  BY <1>1, <1>2, <3>1
  <2>3. ASSUME NEW a \in 1..Len(s), NEW b \in 1..Len(t) PROVE s[a] # t[b]
    <3>1. PICK k \in 1..n : s[a].host = addresses[k].host
      BY DEF Found
    <3>2. QED  BY <3>1
  <2>4. CASE i \in 1..Len(s) /\ u[i] = s[i] /\ j - Len(s) \in 1..Len(t) /\ u[j] = t[j - Len(s)]
    BY <1>5, <2>3, <2>4
  <2>5. CASE j \in 1..Len(s) /\ u[j] = s[j] /\ i - Len(s) \in 1..Len(t) /\ u[i] = t[i - Len(s)]
    BY <1>5, <2>3, <2>5
  <2>6. QED  BY <1>3, <2>1, <2>2, <2>4, <2>5, Zenon
<1>6. QED  BY <1>2, <1>4, <1>5 DEF Found, u

\* A finite set is listed by SetToSeq, without repetition.
LEMMA SetToSeqIs ==
    ASSUME NEW S, IsFiniteSet(S)
    PROVE  /\ SetToSeq(S) \in Seq(S)
           /\ \A i, j \in 1..Len(SetToSeq(S)) : SetToSeq(S)[i] = SetToSeq(S)[j] => i = j
<1>1. PICK n \in Nat : ExistsBijection(1..n, S)
  BY FS_NatBijection
<1>2. Cardinality(S) = n
  BY <1>1, FS_CountingElements
<1>3. PICK g \in [1..n -> S] : \A a, b \in 1..n : g[a] = g[b] => a = b
  BY <1>1 DEF ExistsBijection, Bijection, Injection, IsInjective
<1>4. IsInjective(g)
  BY <1>3 DEF IsInjective
<1>5. SetToSeq(S) \in [1..n -> S] /\ IsInjective(SetToSeq(S))
  BY <1>2, <1>3, <1>4 DEF SetToSeq
<1>6. QED  BY <1>5 DEF IsInjective
-----------------------------------------------------------------------------
(* The turns of the round-robin *)

\* Every setup names different hosts.
DifferentHosts ==
    \A s \in Setups : \A i, j \in DOMAIN s.addresses :
        s.addresses[i].host = s.addresses[j].host => i = j

Distinct(servers) ==
    /\ Len(servers) \in Nat /\ DOMAIN servers = 1..Len(servers)
    /\ \A i, j \in 1..Len(servers) : servers[i] = servers[j] => i = j

\* The addresses that a setup may come to: hosts by their names, or by their IPs.
AddressesOf(s) ==
    UNION {{[host |-> s.addresses[i].host, name |-> name, weight |-> s.addresses[i].weight] :
               name \in {s.addresses[i].host} \cup {x.ip : x \in IPs[s.addresses[i].host]}} :
           i \in DOMAIN s.addresses}

LEMMA ResolvedIs ==
    ASSUME NEW s \in Setups, NEW i \in DOMAIN s.addresses
    PROVE  LET r == Resolved(s.addresses[i])
               A == AddressesOf(s)
           IN  /\ r \in Seq(A)
               /\ \A a, b \in 1..Len(r) : r[a] = r[b] => a = b
               /\ \A a \in 1..Len(r) : r[a].host = s.addresses[i].host
<1> DEFINE address == s.addresses[i]
           ips == {x \in IPs[address.host] : x.family \in Families}
           resolved(x) == [host |-> address.host, name |-> x.ip, weight |-> address.weight]
           R == {resolved(x) : x \in ips}
           A == AddressesOf(s)
           r == SetToSeq(R)
<1>1. Resolved(address) = r
  BY DEF Resolved
<1>2. IsFiniteSet(ips)
  <2>1. IsFiniteSet(IPs[address.host])
    BY RoutingAssumption
  <2>2. ips \in SUBSET IPs[address.host]
    OBVIOUS
  <2>3. QED  BY <2>1, <2>2, FS_Subset
<1>3. IsFiniteSet(R)
  <2> DEFINE f == [x \in ips |-> resolved(x)]
  <2>1. f \in Surjection(ips, R)
    BY DEF Surjection
  <2> HIDE DEF f, ips, R
  <2>2. QED  BY <1>2, <2>1, FS_Surjection DEF ExistsSurjection
<1>4. r \in Seq(R) /\ \A a, b \in 1..Len(r) : r[a] = r[b] => a = b
  BY <1>3, SetToSeqIs
<1>5. R \subseteq A /\ \A a \in R : a.host = address.host
  BY DEF AddressesOf
<1> HIDE DEF R, A, r
<1>6. r \in Seq(A) /\ \A a \in 1..Len(r) : r[a].host = address.host
  BY <1>4, <1>5
<1>7. QED  BY <1>1, <1>4, <1>6 DEF A

\* Whatever names cannot be looked up, the addresses that are left are different.
LEMMA ResultIs ==
    ASSUME DifferentHosts, NEW s \in Setups, NEW failed,
           NEW found, found = [i \in DOMAIN s.addresses |->
                                 IF i \in failed THEN <<>> ELSE Resolved(s.addresses[i])]
    PROVE  Distinct(FlattenSeq(found))
<1> DEFINE addresses == s.addresses
           n == Len(addresses)
           A == AddressesOf(s)
<1>1. n \in Nat /\ DOMAIN addresses = 1..n
  BY RoutingAssumption
<1>2. DOMAIN found = 1..n /\ Len(found) = n
  BY <1>1
<1> HIDE DEF A
<1>3. ASSUME NEW i \in 1..n
      PROVE  /\ found[i] \in Seq(A)
             /\ \A a, b \in 1..Len(found[i]) : found[i][a] = found[i][b] => a = b
             /\ \A a \in 1..Len(found[i]) : found[i][a].host = addresses[i].host
  <2>1. CASE i \in failed
    <3>1. found[i] = <<>>
      BY <1>1, <2>1
    <3>2. found[i] \in Seq(A) /\ Len(found[i]) = 0
      <4>1. <<>> \in Seq(A) /\ Len(<<>>) = 0
        OBVIOUS
      <4>2. QED  BY <3>1, <4>1, Zenon
    <3>3. 1..Len(found[i]) = {}
      BY <3>2
    <3>4. QED  BY <3>2, <3>3
  <2>2. CASE i \notin failed
    <3>1. found[i] = Resolved(addresses[i])
      BY <1>1, <2>2
    <3>2. QED  BY <1>1, <3>1, ResolvedIs DEF A
  <2>3. QED  BY <2>1, <2>2
<1>4. CASE n = 0
  <2>1. FlattenSeq(found) = found
    BY <1>2, <1>4 DEF FlattenSeq
  <2>2. QED  BY <1>2, <1>4, <2>1 DEF Distinct
<1>5. CASE n # 0
  <2>1. PICK f : IsJoined(f, found, n) /\ FlattenSeq(found) = f[n]
    BY <1>1, <1>2, <1>5, FlattenDef
  <2> DEFINE Bad == {m \in 1..n : ~Found(f[m], A, addresses, m)}
  <2>2. \A i \in 1..n : f[i] = Joined(f, found, i)
    BY <2>1 DEF IsJoined
  <2>3. ASSUME Bad # {} PROVE FALSE
    <3>1. PICK m \in Bad : \A k \in Bad : m <= k
      <4>1. Bad \in SUBSET Nat
        BY <1>1
      <4> HIDE DEF Bad
      <4>2. QED  BY <4>1, <2>3, MinIsLeast
    <3>2. m \in 1..n /\ ~Found(f[m], A, addresses, m)
      BY <3>1
    <3>3. CASE m = 1
      <4>1. f[m] = found[1]
        BY <2>2, <3>2, <3>3 DEF Joined
      <4>2. Found(f[m], A, addresses, m)
        <5>1. 1 \in 1..n /\ 1 \in 1..1
          BY <3>2, <3>3
        <5>2. /\ f[1] \in Seq(A)
              /\ \A a, b \in 1..Len(f[1]) : f[1][a] = f[1][b] => a = b
              /\ \A a \in 1..Len(f[1]) : f[1][a].host = addresses[1].host
          <6>1. f[1] = found[1]
            BY <3>3, <4>1
          <6>2. /\ found[1] \in Seq(A)
                /\ \A a, b \in 1..Len(found[1]) : found[1][a] = found[1][b] => a = b
                /\ \A a \in 1..Len(found[1]) : found[1][a].host = addresses[1].host
            BY <1>3, <5>1, Zenon
          <6>3. QED  BY <6>1, <6>2, Zenon
        <5>3. QED  BY <3>3, <5>1, <5>2 DEF Found
      <4>3. QED  BY <3>2, <4>2
    <3>4. CASE m # 1
      <4> DEFINE k == m - 1
      <4>1. k \in 1..n /\ k \in Nat /\ m = k + 1 /\ k + 1 \in 1..n
        BY <1>1, <3>2, <3>4
      <4>2. Found(f[k], A, addresses, k)
        BY <3>1, <4>1
      <4>3. f[m] = f[k] \o found[k + 1]
        BY <2>2, <3>2, <3>4, <4>1 DEF Joined
      <4>4. \A j \in 1..k : addresses[j].host # addresses[k + 1].host
        <5> SUFFICES ASSUME NEW j \in 1..k PROVE addresses[j].host # addresses[k + 1].host
          OBVIOUS
        <5>1. j \in 1..n /\ j # k + 1
          BY <1>1, <4>1
        <5>2. QED  BY <1>1, <4>1, <5>1 DEF DifferentHosts
      <4> HIDE DEF k
      <4>5. /\ found[k + 1] \in Seq(A)
            /\ \A a, b \in 1..Len(found[k + 1]) : found[k + 1][a] = found[k + 1][b] => a = b
            /\ \A a \in 1..Len(found[k + 1]) : found[k + 1][a].host = addresses[k + 1].host
        BY <1>3, <4>1
      <4>6. Found(f[k] \o found[k + 1], A, addresses, k + 1)
        BY <4>1, <4>2, <4>4, <4>5, FoundJoin
      <4>7. QED  BY <3>2, <4>1, <4>3, <4>6
    <3>5. QED  BY <3>3, <3>4
  <2>4. Found(f[n], A, addresses, n)
    BY <1>1, <1>5, <2>3
  <2>5. f[n] \in Seq(A) /\ \A i, j \in 1..Len(f[n]) : f[n][i] = f[n][j] => i = j
    BY <2>4 DEF Found
  <2>6. Len(f[n]) \in Nat /\ DOMAIN f[n] = 1..Len(f[n])
    BY <2>5
  <2>7. QED  BY <2>1, <2>5, <2>6, Zenon DEF Distinct
<1>6. QED  BY <1>4, <1>5
\* The k-th number before counter, where it overflows to 0 after Word - 1.
Before(counter, k) == IF k <= counter THEN counter - k ELSE counter - k + Word

\* The last answers are those of the last numbers of the counter.
InTurn(b, r) ==
    /\ Distinct(b.servers)
    /\ DOMAIN b = {"algo", "servers", "ring", "counter"}
    /\ b.counter \in 0..Word - 1
    /\ r \in Seq(Range(b.servers)) /\ Len(r) <= Len(b.servers)
    /\ Len(b.servers) <= Word =>
         \A j \in 1..Len(r) :
           r[j] = b.servers[(Before(b.counter, Len(r) + 1 - j) % Len(b.servers)) + 1]

LEMMA InTurnSet ==
    ASSUME NEW algo, NEW servers, Distinct(servers)
    PROVE  InTurn(Set(algo, servers), <<>>)
<1> DEFINE b == Set(algo, servers)
<1>1. /\ DOMAIN b = {"algo", "servers", "ring", "counter"}
      /\ b.servers = servers /\ b.counter = 0
  BY DEF Set
<1>2. 0 \in 0..Word - 1
  BY BalancingAssumption
<1>3. <<>> \in Seq(Range(servers)) /\ Len(<<>>) = 0 /\ 1..0 = {} /\ 0 <= Len(servers)
  BY DEF Distinct
<1> HIDE DEF b
<1>4. \A j \in 1..Len(<<>>) : FALSE
  BY <1>3
<1>5. InTurn(b, <<>>)
  BY <1>1, <1>2, <1>3, <1>4 DEF InTurn
<1>6. QED  BY <1>5 DEF b

\* Of as many numbers in a row as there are servers, two that are both before the
\* overflow, or both after it, are of different servers.
LEMMA NearTurns ==
    ASSUME NEW b, NEW r, InTurn(b, r), Len(b.servers) <= Word,
           NEW i \in 1..Len(r), NEW j \in 1..Len(r), i < j,
           \/ Len(r) + 1 - i <= b.counter
           \/ Len(r) + 1 - j > b.counter
           \/ Word % Len(b.servers) = 0
    PROVE  r[i] # r[j]
<1> DEFINE n == Len(b.servers)
           L == Len(r)
           c == b.counter
           x == Before(c, L + 1 - i)
           y == Before(c, L + 1 - j)
<1>1. /\ n \in Nat /\ L \in Nat /\ L <= n /\ n # 0 /\ c \in 0..Word - 1 /\ Word \in Nat
      /\ i \in Nat /\ j \in Nat /\ 1 <= i /\ j <= L /\ n <= Word
  BY BalancingAssumption DEF InTurn, Distinct
<1>2. r[i] = b.servers[(x % n) + 1] /\ r[j] = b.servers[(y % n) + 1]
  BY DEF InTurn
<1>3. \A k, l \in 1..n : b.servers[k] = b.servers[l] => k = l
  BY DEF InTurn, Distinct
<1> HIDE DEF n, L, c
<1>4. /\ x \in Nat /\ y \in Nat
      /\ x = IF L + 1 - i <= c THEN c - (L + 1 - i) ELSE c - (L + 1 - i) + Word
      /\ y = IF L + 1 - j <= c THEN c - (L + 1 - j) ELSE c - (L + 1 - j) + Word
  BY <1>1 DEF Before
<1> HIDE DEF x, y
<1>5. x % n # y % n
  <2>1. CASE x < y
    <3>1. y - x < n
      BY <1>1, <1>4, <2>1
    <3>2. QED  BY <1>1, <1>4, <2>1, <3>1, NearDiffer
  <2>2. CASE ~(x < y)
    <3>1. L + 1 - i > c /\ L + 1 - j <= c
      BY <1>1, <1>4, <2>2
    <3>2. Word % n = 0
      <4>1. L + 1 - i <= c \/ L + 1 - j > c \/ Word % n = 0
        BY DEF n, L, c
      <4>2. QED  BY <1>1, <3>1, <4>1
    <3> DEFINE z == y + Word
    <3>3. z % n = y % n
      BY <1>1, <1>4, <3>2, ShiftIsSame
    <3>4. z \in Nat /\ x < z /\ z - x < n
      BY <1>1, <1>4, <3>1
    <3> HIDE DEF z
    <3>5. x % n # z % n
      BY <1>1, <1>4, <3>4, NearDiffer
    <3>6. QED  BY <3>3, <3>5
  <2>3. QED  BY <2>1, <2>2
<1>6. (x % n) + 1 \in 1..n /\ (y % n) + 1 \in 1..n /\ x % n \in Int /\ y % n \in Int
  BY <1>1, <1>4
<1>7. QED  BY <1>2, <1>3, <1>5, <1>6

\* A set of which both parts have at most one element has at most two.
LEMMA AtMostTwo ==
    ASSUME NEW S, NEW P, NEW Q, S = P \cup Q,
           \A x, y \in P : x = y, \A x, y \in Q : x = y
    PROVE  IsFiniteSet(S) /\ Cardinality(S) <= 2
<1>1. \E p, q : S \subseteq {p, q}
  <2>1. CASE P = {} \/ Q = {}
    BY <2>1
  <2>2. CASE P # {} /\ Q # {}
    <3>1. PICK p \in P, q \in Q : TRUE
      BY <2>2
    <3>2. S \subseteq {p, q}
      BY <3>1
    <3>3. QED  BY <3>2
  <2>3. QED  BY <2>1, <2>2
<1>2. PICK p, q : S \subseteq {p, q}
  BY <1>1
<1>3. IsFiniteSet({p}) /\ Cardinality({p}) = 1
  BY FS_Singleton
<1>4. {p, q} = {p} \cup {q}
  OBVIOUS
<1>5. IsFiniteSet({p, q}) /\ Cardinality({p, q}) \in {1, 2}
  BY <1>3, <1>4, FS_AddElement
<1>6. IsFiniteSet(S) /\ Cardinality(S) <= Cardinality({p, q}) /\ Cardinality(S) \in Nat
  BY <1>2, <1>5, FS_Subset, FS_CardinalityType
<1>7. QED  BY <1>5, <1>6
LEMMA InTurnTakesTurns ==
    ASSUME InTurn(balancer, recent), Len(balancer.servers) <= Word
    PROVE  TakesTurns
<1> DEFINE n == Len(balancer.servers)
           L == Len(recent)
           Of(a) == {i \in DOMAIN recent : recent[i] = a}
<1>1. DOMAIN recent = 1..L /\ L \in Nat /\ n \in Nat /\ balancer.counter \in Nat
  BY BalancingAssumption DEF InTurn, Distinct
<1>2. SUFFICES ASSUME NEW a \in Range(recent)
               PROVE  Cardinality(Of(a)) <=
                        (IF balancer.counter < L /\ Word % n # 0 THEN 2 ELSE 1)
  BY DEF TakesTurns
<1>3. ASSUME NEW i \in Of(a), NEW j \in Of(a), i # j,
             \/ L + 1 - i <= balancer.counter /\ L + 1 - j <= balancer.counter
             \/ L + 1 - i > balancer.counter /\ L + 1 - j > balancer.counter
             \/ Word % n = 0
      PROVE  FALSE
  <2>1. i \in 1..L /\ j \in 1..L /\ recent[i] = recent[j]
    BY <1>1
  <2>2. CASE i < j
    BY <1>3, <2>1, <2>2, NearTurns
  <2>3. CASE j < i
    BY <1>3, <2>1, <2>3, NearTurns
  <2>4. QED  BY <1>1, <1>3, <2>1, <2>2, <2>3
<1>4. CASE ~(balancer.counter < L) \/ Word % n = 0
  <2>1. PICK i \in Of(a) : TRUE
    BY DEF Range
  <2>2. \A j \in Of(a) : j = i
    <3>1. ASSUME ~(balancer.counter < L), NEW j \in Of(a)
          PROVE  L + 1 - j <= balancer.counter
      BY <1>1, <3>1
    <3>2. QED  BY <1>3, <1>4, <2>1, <3>1
  <2>5. Of(a) = {i}
    BY <2>1, <2>2
  <2>3. Cardinality({i}) = 1
    BY FS_Singleton
  <2>4. Cardinality(Of(a)) = 1
    BY <2>3, <2>5
  <2> HIDE DEF Of
  <2>6. QED  BY <1>4, <2>4
<1>5. CASE balancer.counter < L /\ Word % n # 0
  <2> DEFINE P == {i \in Of(a) : L + 1 - i <= balancer.counter}
             Q == {i \in Of(a) : L + 1 - i > balancer.counter}
  <2>1. \A x, y \in P : x = y
    BY <1>3
  <2>2. \A x, y \in Q : x = y
    BY <1>3
  <2>3. Of(a) = P \cup Q
    BY <1>1
  <2> HIDE DEF P, Q, Of
  <2>4. Cardinality(Of(a)) <= 2
    BY <2>1, <2>2, <2>3, AtMostTwo
  <2>5. QED  BY <1>5, <2>4
<1>6. QED  BY <1>4, <1>5

\* An answer of the round-robin is the last one in turn.
LEMMA InTurnRemember ==
    ASSUME InTurn(balancer, recent), balancer.servers # <<>>,
           balancer' = [balancer EXCEPT !.counter = (@ + 1) % Word],
           NEW a, a = balancer.servers[(balancer.counter % Len(balancer.servers)) + 1],
           recent' = Remember(a)
    PROVE  InTurn(balancer', recent')
<1> DEFINE s == balancer.servers
           n == Len(s)
           L == Len(recent)
           c == balancer.counter
           d == balancer'.counter
           all == Append(recent, a)
           r == recent'
<1>1. /\ n \in Nat /\ L \in Nat /\ L <= n /\ c \in 0..Word - 1 /\ Word \in Nat \ {0}
      /\ DOMAIN s = 1..n /\ recent \in Seq(Range(s)) /\ DOMAIN recent = 1..L
  BY BalancingAssumption DEF InTurn, Distinct
<1>2. n # 0
  BY <1>1
<1>3. /\ balancer'.servers = s /\ d = (c + 1) % Word
      /\ DOMAIN balancer' = {"algo", "servers", "ring", "counter"}
  BY DEF InTurn
<1>4. d = (IF c + 1 = Word THEN 0 ELSE c + 1) /\ d \in 0..Word - 1
  <2>1. d = (c + 1) % Word /\ c \in 0..Word - 1 /\ Word \in Nat \ {0}
    BY <1>1, <1>3
  <2> HIDE DEF c, d
  <2>2. CASE c + 1 = Word
    <3>1. Word % Word = 0
      BY <2>1
    <3>2. QED  BY <2>1, <2>2, <3>1
  <2>3. CASE c + 1 < Word
    <3>1. (c + 1) % Word = c + 1
      BY <2>1, <2>3
    <3>2. QED  BY <2>1, <2>3, <3>1
  <2>4. QED  BY <2>1, <2>2, <2>3
<1>5. a \in Range(s)
  <2>1. (c % n) + 1 \in 1..n
    BY <1>1, <1>2
  <2>2. QED  BY <1>1, <2>1 DEF Range
<1>6. /\ all \in Seq(Range(s)) /\ Len(all) = L + 1 /\ all[L + 1] = a
      /\ \A j \in 1..L : all[j] = recent[j]
  BY <1>1, <1>5
<1>7. r = IF L + 1 > n THEN Tail(all) ELSE all
  BY <1>6 DEF Remember
<1> HIDE DEF all, r, c, d, n, L
<1>8. CASE L + 1 > n
  <2>1. r = Tail(all)
    BY <1>7, <1>8
  <2>2. L = n
    BY <1>1, <1>8
  <2>3. r \in Seq(Range(s)) /\ Len(r) = L /\ \A j \in 1..L : r[j] = all[j + 1]
    BY <1>1, <1>6, <2>1
  <2>4. ASSUME n <= Word, NEW j \in 1..L
        PROVE  r[j] = s[(Before(d, L + 1 - j) % n) + 1]
    <3>1. CASE j = L
      <4>1. Before(d, L + 1 - j) = c
        BY <1>1, <1>4, <3>1 DEF Before
      <4>2. r[j] = a
        BY <1>1, <1>6, <2>3, <3>1
      <4>3. QED  BY <4>1, <4>2 DEF c, n
    <3>2. CASE j # L
      <4>1. j + 1 \in 1..L /\ j \in Nat
        BY <1>1, <3>2
      <4>2. Before(d, L + 1 - j) = Before(c, L + 1 - (j + 1))
        BY <1>1, <1>4, <2>4, <4>1 DEF Before
      <4>3. r[j] = recent[j + 1]
        BY <1>6, <2>3, <4>1
      <4>4. recent[j + 1] = s[(Before(c, L + 1 - (j + 1)) % n) + 1]
        BY <2>4, <4>1 DEF InTurn, n, L, c
      <4>5. QED  BY <4>2, <4>3, <4>4
    <3>3. QED  BY <3>1, <3>2
  <2>5. QED  BY <1>1, <1>3, <1>4, <2>3, <2>4 DEF InTurn, r, d, n
<1>9. CASE ~(L + 1 > n)
  <2>1. r = all
    BY <1>7, <1>9
  <2>2. L + 1 <= n
    BY <1>1, <1>9
  <2>3. ASSUME n <= Word, NEW j \in 1..L + 1
        PROVE  r[j] = s[(Before(d, L + 1 + 1 - j) % n) + 1]
    <3>1. CASE j = L + 1
      <4>1. Before(d, L + 1 + 1 - j) = c
        <5>1. L + 1 + 1 - j = 1
          BY <1>1, <3>1
        <5>2. Before(d, 1) = c
          BY <1>1, <1>4 DEF Before
        <5>3. QED  BY <5>1, <5>2
      <4>2. r[j] = a
        BY <1>6, <2>1, <3>1
      <4>3. QED  BY <4>1, <4>2 DEF c, n
    <3>2. CASE j # L + 1
      <4>1. j \in 1..L
        BY <1>1, <3>2
      <4>2. Before(d, L + 1 + 1 - j) = Before(c, L + 1 - j)
        <5> DEFINE k == L + 1 - j
        <5>1. k \in 1..Word /\ k < Word /\ L + 1 + 1 - j = k + 1
          BY <1>1, <2>2, <2>3, <4>1
        <5> HIDE DEF k
        <5>2. Before(d, k + 1) = Before(c, k)
          BY <1>1, <1>4, <5>1 DEF Before
        <5>3. QED  BY <5>1, <5>2 DEF k
      <4>3. r[j] = recent[j]
        BY <1>6, <2>1, <4>1
      <4>4. recent[j] = s[(Before(c, L + 1 - j) % n) + 1]
        BY <2>3, <4>1 DEF InTurn, n, L, c
      <4>5. QED  BY <4>2, <4>3, <4>4
    <3>3. QED  BY <3>1, <3>2
  <2>4. r \in Seq(Range(s)) /\ Len(r) = L + 1
    BY <1>6, <2>1
  <2>5. QED  BY <1>1, <1>3, <1>4, <2>2, <2>3, <2>4 DEF InTurn, r, d, n
<1>10. QED  BY <1>8, <1>9

TurnsOK == setup \in Setups /\ InTurn(balancer, recent)

LEMMA TurnsStep ==
    ASSUME DifferentHosts, TurnsOK, [Next]_vars
    PROVE  TurnsOK'
<1>1. ASSUME NEW failed, Resolve(failed)
      PROVE  TurnsOK'
  <2> DEFINE found == [i \in DOMAIN setup.addresses |->
                         IF i \in failed THEN <<>> ELSE Resolved(setup.addresses[i])]
  <2>1. balancer' = Set(setup.algo, FlattenSeq(found)) /\ recent' = <<>> /\ setup' = setup
    BY <1>1 DEF Resolve
  <2>2. setup \in Setups
    BY DEF TurnsOK
  <2>3. Distinct(FlattenSeq(found))
    BY <2>2, ResultIs
  <2> HIDE DEF found
  <2>4. InTurn(balancer', recent')
    BY <2>1, <2>3, InTurnSet
  <2>5. QED  BY <2>1, <2>2, <2>4 DEF TurnsOK
<1>2. ASSUME NEW c \in Clients, GetAddress(c)
      PROVE  TurnsOK'
  <2>1. PICK address \in IF req[c].upstream = Simple THEN {SimpleAddress}
                         ELSE Get(balancer, PathPoint(req[c].path)) :
          IF req[c].upstream = Main
          THEN /\ balancer' = Advance(balancer)
               /\ recent' = IF balancer' = balancer THEN recent ELSE Remember(address)
          ELSE UNCHANGED <<balancer, recent>>
    BY <1>2 DEF GetAddress
  <2>2. setup' = setup
    BY <1>2 DEF GetAddress
  <2>3. CASE balancer' = balancer /\ recent' = recent
    BY <2>2, <2>3 DEF TurnsOK
  <2>4. CASE ~(balancer' = balancer /\ recent' = recent)
    <3>1. /\ req[c].upstream = Main /\ balancer' = Advance(balancer) /\ balancer' # balancer
          /\ recent' = Remember(address)
      BY <2>1, <2>4
    <3>2. /\ balancer.algo = "unweighted-roundrobin" /\ balancer.servers # <<>>
          /\ balancer' = [balancer EXCEPT !.counter = (@ + 1) % Word]
      BY <3>1 DEF Advance
    <3>3. address \in Get(balancer, PathPoint(req[c].path))
      BY <2>1, <3>1 DEF Main, Simple
    <3>4. address = balancer.servers[(balancer.counter % Len(balancer.servers)) + 1]
      BY <3>2, <3>3 DEF Get
    <3>5. InTurn(balancer, recent)
      BY DEF TurnsOK
    <3>6. InTurn(balancer', recent')
      BY <3>1, <3>2, <3>4, <3>5, InTurnRemember
    <3>7. QED  BY <2>2, <3>6 DEF TurnsOK
  <2>5. QED  BY <2>3, <2>4
<1>3. ASSUME UNCHANGED <<setup, balancer, recent>>
      PROVE  TurnsOK'
  BY <1>3 DEF TurnsOK
<1>4. QED  BY <1>1, <1>2, <1>3 DEF Next, vars, Locate, Do, Retry, Answer, Forget

\* When the configured hosts differ and there are no more addresses than the counter
\* has values, every server gets its turn, whatever names cannot be looked up and
\* however the requests and the retries of the clients interleave (roundrobin.Get).
THEOREM RoutingTakesTurns ==
    ASSUME DifferentHosts
    PROVE  Spec => [](Len(balancer.servers) <= Word => TakesTurns)
<1>1. Init => TurnsOK
  <2> SUFFICES ASSUME Init PROVE TurnsOK
    OBVIOUS
  <2>1. /\ setup \in Setups /\ recent = <<>>
        /\ balancer = Set(setup.algo, Unresolved(setup.addresses))
    BY DEF Init
  <2> DEFINE s == Unresolved(setup.addresses)
  <2>2. Distinct(s)
    <3>1. /\ Len(setup.addresses) \in Nat /\ DOMAIN setup.addresses = 1..Len(setup.addresses)
          /\ \A i, j \in DOMAIN setup.addresses :
               setup.addresses[i].host = setup.addresses[j].host => i = j
      BY <2>1, RoutingAssumption DEF DifferentHosts
    <3>2. DOMAIN s = 1..Len(setup.addresses) /\ Len(s) = Len(setup.addresses)
      BY <3>1 DEF Unresolved
    <3>3. \A i \in 1..Len(setup.addresses) : s[i].host = setup.addresses[i].host
      BY <3>1 DEF Unresolved
    <3> HIDE DEF s
    <3>4. QED  BY <3>1, <3>2, <3>3 DEF Distinct
  <2> HIDE DEF s
  <2>3. QED  BY <2>1, <2>2, InTurnSet DEF TurnsOK, s
<1>2. TurnsOK /\ [Next]_vars => TurnsOK'
  BY TurnsStep
<1>3. TurnsOK => (Len(balancer.servers) <= Word => TakesTurns)
  BY InTurnTakesTurns DEF TurnsOK
<1>4. QED  BY <1>1, <1>2, <1>3, PTL DEF Spec

-----------------------------------------------------------------------------
(* Sums *)

\* Induction, for a set of numbers.
LEMMA AllNumbers ==
    ASSUME NEW T, 0 \in T, \A k \in Nat : k \in T => k + 1 \in T
    PROVE  \A k \in Nat : k \in T
<1> DEFINE Bad == {k \in Nat : k \notin T}
<1>1. ASSUME Bad # {} PROVE FALSE
  <2>1. PICK m \in Bad : \A k \in Bad : m <= k
    <3>1. Bad \in SUBSET Nat
      OBVIOUS
    <3> HIDE DEF Bad
    <3>2. QED  BY <3>1, <1>1, MinIsLeast
  <2>2. m \in Nat /\ m # 0 /\ m \notin T
    BY <2>1
  <2>3. m - 1 \in Nat /\ m - 1 \notin Bad /\ (m - 1) + 1 = m
    BY <2>1, <2>2
  <2>4. QED  BY <2>2, <2>3
<1>2. QED  BY <1>1

\* The body of the recursive function of FoldLeft.
AddLast(f, s, u) == IF u = {} THEN 0 ELSE LET x == Max(u) IN f[u \ {x}] + s[x]

\* f is that function on the sets of at most d elements.
IsSum(f, s, D, d) ==
    f = [u \in SUBSET D |-> IF Cardinality(u) <= d THEN AddLast(f, s, u) ELSE 0]

LEMMA FiniteUpTo ==
    ASSUME NEW n \in Nat, NEW u \in SUBSET (1..n)
    PROVE  IsFiniteSet(u) /\ Cardinality(u) \in Nat /\ Cardinality(u) <= n
<1>1. IsFiniteSet(1..n) /\ Cardinality(1..n) = n
  <2>1. 1 \in Int /\ n \in Int
    OBVIOUS
  <2>2. IsFiniteSet(1..n) /\ Cardinality(1..n) = IF 1 > n THEN 0 ELSE n - 1 + 1
    BY <2>1, FS_Interval
  <2>3. QED  BY <2>2
<1>2. IsFiniteSet(u) /\ Cardinality(u) <= n
  BY <1>1, FS_Subset
<1>3. QED  BY <1>2, FS_CardinalityType

LEMMA LastOf ==
    ASSUME NEW n \in Nat, NEW u \in SUBSET (1..n), u # {}
    PROVE  /\ Max(u) \in u /\ u \ {Max(u)} \in SUBSET (1..n)
           /\ Cardinality(u) \in Nat /\ Cardinality(u \ {Max(u)}) < Cardinality(u)
<1>1. Max(u) \in u
  BY MaxIsInside
<1>2. IsFiniteSet(u) /\ Cardinality(u) \in Nat
  BY FiniteUpTo
<1>3. Cardinality(u \ {Max(u)}) = Cardinality(u) - 1
  <2>1. ASSUME NEW x \in u PROVE Cardinality(u \ {x}) = Cardinality(u) - 1
    <3>1. IsFiniteSet(u)
      BY <1>2
    <3>2. Cardinality(u \ {x}) = IF x \in u THEN Cardinality(u) - 1 ELSE Cardinality(u)
      BY ONLY <3>1, FS_RemoveElement
    <3>3. QED  BY <3>2
  <2>2. QED  BY <1>1, <2>1
<1>4. Cardinality(u) - 1 < Cardinality(u)
  BY <1>2
<1>5. Cardinality(u \ {Max(u)}) < Cardinality(u)
  BY <1>3, <1>4, Zenon
<1>6. u \ {Max(u)} \in SUBSET (1..n)
  OBVIOUS
<1>7. QED  BY <1>1, <1>2, <1>5, <1>6, Zenon

LEMMA SumExists ==
    ASSUME NEW s, NEW n \in Nat, NEW d \in Nat
    PROVE  \E f : IsSum(f, s, 1..n, d)
<1> DEFINE T == {k \in Nat : \E f : IsSum(f, s, 1..n, k)}
           D == 1..n
<1>1. 0 \in T
  <2> DEFINE g == [u \in SUBSET D |-> 0]
  <2>1. ASSUME NEW u \in SUBSET D
        PROVE  (IF Cardinality(u) <= 0 THEN AddLast(g, s, u) ELSE 0) = 0
    <3>1. CASE u = {}
      BY <3>1 DEF AddLast
    <3>2. CASE u # {}
      <4>1. Cardinality(u) \in Nat /\ Cardinality(u \ {Max(u)}) < Cardinality(u)
            /\ Cardinality(u \ {Max(u)}) \in Nat
        <5>1. Cardinality(u) \in Nat /\ Cardinality(u \ {Max(u)}) < Cardinality(u)
          BY <3>2, LastOf
        <5>2. u \ {Max(u)} \in SUBSET (1..n)
          OBVIOUS
        <5>3. QED  BY <5>1, <5>2, FiniteUpTo
      <4>2. QED  BY <4>1
    <3>3. QED  BY <3>1, <3>2
  <2>2. g = [u \in SUBSET D |-> IF Cardinality(u) <= 0 THEN AddLast(g, s, u) ELSE 0]
    BY <2>1
  <2>3. QED  BY <2>2 DEF IsSum
<1>2. ASSUME NEW k \in Nat, k \in T PROVE k + 1 \in T
  <2>1. PICK f : IsSum(f, s, D, k)
    BY <1>2
  <2> DEFINE g == [u \in SUBSET D |-> IF Cardinality(u) <= k + 1 THEN AddLast(f, s, u) ELSE 0]
  <2>2. ASSUME NEW u \in SUBSET D, u # {}, Cardinality(u) <= k + 1
        PROVE  g[u \ {Max(u)}] = f[u \ {Max(u)}]
    <3> DEFINE v == u \ {Max(u)}
    <3>1. v \in SUBSET D /\ Cardinality(v) < Cardinality(u) /\ Cardinality(u) \in Nat
      BY <2>2, LastOf
    <3>2. Cardinality(v) \in Nat
      BY <3>1, FiniteUpTo
    <3>3. Cardinality(v) <= k /\ Cardinality(v) <= k + 1
      BY <2>2, <3>1, <3>2
    <3> HIDE DEF v
    <3>4. f[v] = AddLast(f, s, v)
      BY <2>1, <3>1, <3>3 DEF IsSum
    <3>5. g[v] = AddLast(f, s, v)
      BY <3>1, <3>3
    <3>6. QED  BY <3>4, <3>5 DEF v
  <2>3. ASSUME NEW u \in SUBSET D, Cardinality(u) <= k + 1
        PROVE  AddLast(g, s, u) = AddLast(f, s, u)
    <3> HIDE DEF g
    <3>1. QED  BY <2>2, <2>3 DEF AddLast
  <2>4. g = [u \in SUBSET D |-> IF Cardinality(u) <= k + 1 THEN AddLast(g, s, u) ELSE 0]
    BY <2>3
  <2>5. IsSum(g, s, D, k + 1)
    BY <2>4 DEF IsSum
  <2>6. QED  BY <2>5
<1> HIDE DEF T
<1>3. d \in T
  BY <1>1, <1>2, AllNumbers
<1>4. QED  BY <1>3 DEF T

IsWholeSum(f, s, D) == f = [u \in SUBSET D |-> AddLast(f, s, u)]

LEMMA SumDef ==
    ASSUME NEW s
    PROVE  SumOf(s) = (CHOOSE f : IsWholeSum(f, s, DOMAIN s))[DOMAIN s]
BY DEF SumOf, FoldLeft, MapThenFoldSet, IsWholeSum, AddLast

\* g has the sums of the first elements of s.
Running(g, s, n) ==
    /\ g \in [0..n -> Nat] /\ g[0] = 0
    /\ \A k \in 1..n : g[k] = g[k - 1] + s[k]

LEMMA SumIsRunning ==
    ASSUME NEW n \in Nat, NEW s \in [1..n -> Nat]
    PROVE  \E g : Running(g, s, n) /\ SumOf(s) = g[n]
<1> DEFINE D == 1..n
           f == CHOOSE f : IsWholeSum(f, s, D)
<1>1. IsWholeSum(f, s, D)
  <2>1. PICK h : IsSum(h, s, D, n)
    BY SumExists
  <2>2. \A u \in SUBSET D : Cardinality(u) <= n
    BY FiniteUpTo
  <2>3. IsWholeSum(h, s, D)
    <3>1. [u \in SUBSET D |-> IF Cardinality(u) <= n THEN AddLast(h, s, u) ELSE 0]
            = [u \in SUBSET D |-> AddLast(h, s, u)]
      BY <2>2
    <3>2. QED  BY <2>1, <3>1 DEF IsSum, IsWholeSum
  <2>4. QED  BY <2>3
<1>2. SumOf(s) = f[D]
  BY SumDef
<1> HIDE DEF f
<1> DEFINE g == [k \in 0..n |-> f[1..k]]
<1>3. ASSUME NEW k \in 1..n PROVE f[1..k] = f[1..(k - 1)] + s[k]
  <2>1. 1..k \in SUBSET D /\ 1..k # {} /\ (1..k) \ {k} = 1..(k - 1)
    <3>1. \A x \in 1..k : x \in 1..n /\ (x # k => x \in 1..(k - 1))
      OBVIOUS
    <3>2. \A x \in 1..(k - 1) : x \in 1..k /\ x # k
      OBVIOUS
    <3>3. k \in 1..k
      OBVIOUS
    <3>4. QED  BY <3>1, <3>2, <3>3
  <2>2. Max(1..k) = k
    <3>1. k \in 1..k /\ \A y \in 1..k : k >= y
      OBVIOUS
    <3>2. \A x \in 1..k : (\A y \in 1..k : x >= y) => x = k
      OBVIOUS
    <3>3. QED  BY <3>1, <3>2 DEF Max
  <2>3. f[1..k] = AddLast(f, s, 1..k)
    BY <1>1, <2>1 DEF IsWholeSum
  <2>4. QED  BY <2>1, <2>2, <2>3 DEF AddLast
<1>4. f[1..0] = 0
  <2>1. 1..0 = {} /\ 1..0 \in SUBSET D
    OBVIOUS
  <2>2. f[1..0] = AddLast(f, s, 1..0)
    BY <1>1, <2>1 DEF IsWholeSum
  <2>3. QED  BY <2>1, <2>2 DEF AddLast
<1>5. \A k \in 0..n : f[1..k] \in Nat
  <2> DEFINE T == {k \in Nat : k <= n => f[1..k] \in Nat}
  <2>1. 0 \in T
    BY <1>4
  <2>2. ASSUME NEW k \in Nat, k \in T PROVE k + 1 \in T
    <3>1. CASE k + 1 <= n
      <4>1. k + 1 \in 1..n /\ (k + 1) - 1 = k /\ k <= n
        BY <3>1
      <4>2. f[1..(k + 1)] = f[1..k] + s[k + 1]
        BY <1>3, <4>1
      <4>3. f[1..k] \in Nat /\ s[k + 1] \in Nat
        BY <2>2, <4>1
      <4>4. f[1..(k + 1)] \in Nat
        BY <4>2, <4>3
      <4>5. QED  BY <4>4
    <3>2. CASE ~(k + 1 <= n)
      BY <3>2
    <3>3. QED  BY <3>1, <3>2
  <2> HIDE DEF T
  <2>3. \A k \in Nat : k \in T
    BY <2>1, <2>2, AllNumbers
  <2>4. QED  BY <2>3 DEF T
<1>6. g \in [0..n -> Nat] /\ g[0] = 0 /\ g[n] = f[D]
  BY <1>4, <1>5
<1>7. \A k \in 1..n : g[k] = g[k - 1] + s[k]
  <2> SUFFICES ASSUME NEW k \in 1..n PROVE g[k] = g[k - 1] + s[k]
    OBVIOUS
  <2>1. k \in 0..n /\ k - 1 \in 0..n
    OBVIOUS
  <2>2. g[k] = f[1..k] /\ g[k - 1] = f[1..(k - 1)]
    BY <2>1
  <2>3. QED  BY <1>3, <2>2
<1>8. QED  BY <1>2, <1>6, <1>7 DEF Running

\* Any two such functions agree as far as their sequences do.
LEMMA RunningAgree ==
    ASSUME NEW n \in Nat, NEW m \in Nat, m <= n, NEW s, NEW t, NEW g, NEW h,
           Running(g, s, n), Running(h, t, m), \A k \in 1..m : s[k] = t[k]
    PROVE  \A k \in 0..m : h[k] = g[k]
<1> DEFINE T == {k \in Nat : k <= m => h[k] = g[k]}
<1>1. 0 \in T
  BY DEF Running
<1>2. ASSUME NEW k \in Nat, k \in T PROVE k + 1 \in T
  <2>1. CASE k + 1 <= m
    <3>1. k + 1 \in 1..m /\ k + 1 \in 1..n /\ (k + 1) - 1 = k /\ k <= m
      BY <2>1
    <3>2. h[k] = g[k]
      BY <1>2, <3>1
    <3>3. h[k + 1] = h[k] + t[k + 1] /\ g[k + 1] = g[k] + s[k + 1]
      BY <3>1 DEF Running
    <3>4. QED  BY <3>1, <3>2, <3>3
  <2>2. CASE ~(k + 1 <= m)
    BY <2>2
  <2>3. QED  BY <2>1, <2>2
<1> HIDE DEF T
<1>3. \A k \in Nat : k \in T
  BY <1>1, <1>2, AllNumbers
<1>4. QED  BY <1>3 DEF T

\* A sum is at least each of its elements, and grows with each.
LEMMA RunningGrows ==
    ASSUME NEW n \in Nat, NEW s \in [1..n -> Nat], NEW g, Running(g, s, n)
    PROVE  /\ \A k \in 0..n : g[k] <= g[n]
           /\ \A k \in 1..n : s[k] <= g[n]
<1> DEFINE T == {k \in Nat : k <= n => g[n - k] <= g[n]}
<1>1. 0 \in T
  BY DEF Running
<1>2. ASSUME NEW k \in Nat, k \in T PROVE k + 1 \in T
  <2>1. CASE k + 1 <= n
    <3> DEFINE j == n - k
    <3>1. j \in 1..n /\ j - 1 = n - (k + 1) /\ k <= n /\ j - 1 \in 0..n
      BY <2>1
    <3>2. g[j] <= g[n]
      BY <1>2, <3>1
    <3>3. g[j] = g[j - 1] + s[j] /\ s[j] \in Nat /\ g[j - 1] \in Nat /\ g[n] \in Nat
      BY <3>1 DEF Running
    <3> HIDE DEF j
    <3>4. g[j - 1] <= g[n]
      BY <3>2, <3>3
    <3>5. QED  BY <3>1, <3>4
  <2>2. CASE ~(k + 1 <= n)
    BY <2>2
  <2>3. QED  BY <2>1, <2>2
<1> HIDE DEF T
<1>3. \A k \in Nat : k \in T
  BY <1>1, <1>2, AllNumbers
<1>4. ASSUME NEW k \in 0..n PROVE g[k] <= g[n]
  <2>1. n - k \in Nat /\ n - k <= n /\ n - (n - k) = k
    OBVIOUS
  <2>2. QED  BY <1>3, <2>1 DEF T
<1>5. ASSUME NEW k \in 1..n PROVE s[k] <= g[n]
  <2>1. k \in 0..n /\ k - 1 \in 0..n
    OBVIOUS
  <2>2. g[k] = g[k - 1] + s[k] /\ g[k - 1] \in Nat /\ s[k] \in Nat /\ g[n] \in Nat
    BY <2>1 DEF Running
  <2>3. QED  BY <1>4, <2>1, <2>2
<1>6. QED  BY <1>4, <1>5

\* n numbers that are at most w, or equal to w.
LEMMA RunningBounds ==
    ASSUME NEW n \in Nat, NEW s \in [1..n -> Nat], NEW g, Running(g, s, n), NEW w \in Nat
    PROVE  /\ (\A k \in 1..n : s[k] <= w) => g[n] <= n * w
           /\ (\A k \in 1..n : s[k] = w) => g[n] = n * w
<1> DEFINE T == {k \in Nat : k <= n =>
                   /\ (\A j \in 1..n : s[j] <= w) => g[k] <= k * w
                   /\ (\A j \in 1..n : s[j] = w) => g[k] = k * w}
<1>1. 0 \in T
  BY DEF Running
<1>2. ASSUME NEW k \in Nat, k \in T PROVE k + 1 \in T
  <2>1. CASE k + 1 <= n
    <3>1. k + 1 \in 1..n /\ (k + 1) - 1 = k /\ k <= n /\ k \in 0..n
      BY <2>1
    <3>2. g[k + 1] = g[k] + s[k + 1] /\ g[k] \in Nat /\ s[k + 1] \in Nat
      BY <3>1 DEF Running
    <3>3. (k + 1) * w = k * w + w /\ k * w \in Nat
      OBVIOUS
    <3>4. (\A j \in 1..n : s[j] <= w) => g[k + 1] <= (k + 1) * w
      BY <1>2, <3>1, <3>2, <3>3
    <3>5. (\A j \in 1..n : s[j] = w) => g[k + 1] = (k + 1) * w
      BY <1>2, <3>1, <3>2, <3>3
    <3>6. QED  BY <3>4, <3>5
  <2>2. CASE ~(k + 1 <= n)
    BY <2>2
  <2>3. QED  BY <2>1, <2>2
<1> HIDE DEF T
<1>3. \A k \in Nat : k \in T
  BY <1>1, <1>2, AllNumbers
<1>4. QED  BY <1>3 DEF T

-----------------------------------------------------------------------------
(* What the balancer of an upstream is made of *)

LEMMA AddressIs ==
    ASSUME NEW s \in Setups, NEW a \in AddressesOf(s)
    PROVE  /\ a.weight \in Nat /\ a # NoAddress
           /\ \A k \in 0..Word, x \in 0..(PointsPerHash - 1) : Hash(a.name, k, x) \in 0..MaxPoint
           /\ \A at \in 0..MaxPoint : Score(a.name, at) \in Nat
           /\ \E i \in DOMAIN s.addresses : a.weight = s.addresses[i].weight
<1>1. PICK i \in DOMAIN s.addresses :
        \E name \in {s.addresses[i].host} \cup {x.ip : x \in IPs[s.addresses[i].host]} :
          a = [host |-> s.addresses[i].host, name |-> name, weight |-> s.addresses[i].weight]
  BY DEF AddressesOf
<1>2. PICK name \in {s.addresses[i].host} \cup {x.ip : x \in IPs[s.addresses[i].host]} :
        a = [host |-> s.addresses[i].host, name |-> name, weight |-> s.addresses[i].weight]
  BY <1>1
<1>3. /\ s.addresses[i].weight \in Nat
      /\ [host |-> s.addresses[i].host, name |-> name, weight |-> s.addresses[i].weight] # NoAddress
      /\ \A k \in 0..Word, x \in 0..(PointsPerHash - 1) : Hash(name, k, x) \in 0..MaxPoint
      /\ \A at \in 0..MaxPoint : Score(name, at) \in Nat
  BY RoutingAssumption
<1>4. a.name = name /\ a.weight = s.addresses[i].weight
  BY <1>2
<1>5. QED  BY <1>2, <1>3, <1>4

LEMMA FlattenIsSeq ==
    ASSUME NEW A, NEW n \in Nat, NEW found, DOMAIN found = 1..n, Len(found) = n,
           \A i \in 1..n : found[i] \in Seq(A),
           found = <<>> \/ n # 0
    PROVE  FlattenSeq(found) \in Seq(A)
<1>1. CASE n = 0
  BY <1>1 DEF FlattenSeq
<1>2. CASE n # 0
  <2>1. PICK f : IsJoined(f, found, n) /\ FlattenSeq(found) = f[n]
    BY <1>2, FlattenDef
  <2>2. \A i \in 1..n : f[i] = Joined(f, found, i)
    BY <2>1 DEF IsJoined
  <2> DEFINE T == {k \in Nat : k + 1 <= n => f[k + 1] \in Seq(A)}
  <2>3. 0 \in T
    <3>1. 1 \in 1..n /\ f[1] = found[1]
      BY <1>2, <2>2 DEF Joined
    <3>2. QED  BY <3>1
  <2>4. ASSUME NEW k \in Nat, k \in T PROVE k + 1 \in T
    <3>1. CASE (k + 1) + 1 <= n
      <4> DEFINE m == (k + 1) + 1
      <4>1. m \in 1..n /\ m # 1 /\ m - 1 = k + 1 /\ k + 1 <= n
        BY <3>1
      <4> HIDE DEF m
      <4>2. f[m] = f[k + 1] \o found[m]
        BY <2>2, <4>1 DEF Joined
      <4>3. f[k + 1] \in Seq(A) /\ found[m] \in Seq(A)
        BY <2>4, <4>1
      <4>4. f[m] \in Seq(A)
        BY <4>2, <4>3
      <4>5. QED  BY <4>4 DEF m
    <3>2. CASE ~((k + 1) + 1 <= n)
      BY <3>2
    <3>3. QED  BY <3>1, <3>2
  <2> HIDE DEF T
  <2>5. \A k \in Nat : k \in T
    BY <2>3, <2>4, AllNumbers
  <2>6. n - 1 \in Nat /\ (n - 1) + 1 = n
    BY <1>2
  <2>7. QED  BY <2>1, <2>5, <2>6 DEF T
<1>3. QED  BY <1>1, <1>2

BalancerOK ==
    /\ setup \in Setups
    /\ balancer.servers \in Seq(AddressesOf(setup)) /\ balancer.counter \in Nat
    /\ balancer = [algo |-> setup.algo, servers |-> balancer.servers,
                   ring |-> RingOf(setup.algo, balancer.servers),
                   counter |-> balancer.counter]
    /\ crashed <=> Panics(setup.algo, balancer.servers)

LEMMA BalancerInit == ASSUME Init PROVE BalancerOK
<1>1. /\ setup \in Setups /\ balancer = Set(setup.algo, Unresolved(setup.addresses))
      /\ crashed = Panics(setup.algo, balancer.servers)
  BY DEF Init
<1> DEFINE s == Unresolved(setup.addresses)
<1>2. s \in Seq(AddressesOf(setup))
  <2>1. /\ Len(setup.addresses) \in Nat /\ DOMAIN setup.addresses = 1..Len(setup.addresses)
    BY <1>1, RoutingAssumption
  <2>2. \A i \in DOMAIN setup.addresses :
          [host |-> setup.addresses[i].host, name |-> setup.addresses[i].host,
           weight |-> setup.addresses[i].weight] \in AddressesOf(setup)
    <3> SUFFICES ASSUME NEW i \in DOMAIN setup.addresses
                 PROVE  [host |-> setup.addresses[i].host, name |-> setup.addresses[i].host,
                         weight |-> setup.addresses[i].weight] \in AddressesOf(setup)
      OBVIOUS
    <3> DEFINE host == setup.addresses[i].host
    <3>1. [host |-> host, name |-> host, weight |-> setup.addresses[i].weight] \in
             {[host |-> host, name |-> name, weight |-> setup.addresses[i].weight] :
                name \in {host} \cup {x.ip : x \in IPs[host]}}
      OBVIOUS
    <3>2. QED  BY <3>1, Zenon DEF AddressesOf
  <2>3. s \in [1..Len(setup.addresses) -> AddressesOf(setup)]
    BY <2>1, <2>2 DEF Unresolved
  <2> HIDE DEF s
  <2>4. QED  BY <2>1, <2>3
<1> HIDE DEF s
<1>3. balancer = [algo |-> setup.algo, servers |-> s, ring |-> RingOf(setup.algo, s), counter |-> 0]
  BY <1>1 DEF Set, s
<1>4. QED  BY <1>1, <1>2, <1>3 DEF BalancerOK

LEMMA BalancerStep == ASSUME BalancerOK, [Next]_vars PROVE BalancerOK'
<1>1. ASSUME NEW failed, Resolve(failed)
      PROVE  BalancerOK'
  <2> DEFINE found == [i \in DOMAIN setup.addresses |->
                         IF i \in failed THEN <<>> ELSE Resolved(setup.addresses[i])]
             r == FlattenSeq(found)
             A == AddressesOf(setup)
             n == Len(setup.addresses)
  <2>1. balancer' = Set(setup.algo, r) /\ crashed' = Panics(setup.algo, r) /\ setup' = setup
    BY <1>1 DEF Resolve
  <2>2. setup \in Setups
    BY DEF BalancerOK
  <2>3. n \in Nat /\ DOMAIN setup.addresses = 1..n
    BY <2>2, RoutingAssumption
  <2>4. r \in Seq(A)
    <3>1. \A i \in 1..n : Resolved(setup.addresses[i]) \in Seq(A)
      BY <2>2, <2>3, ResolvedIs
    <3> HIDE DEF A, n
    <3>2. <<>> \in Seq(A)
      OBVIOUS
    <3>3. DOMAIN found = 1..n /\ Len(found) = n /\ \A i \in 1..n : found[i] \in Seq(A)
      BY <2>3, <3>1, <3>2
    <3>4. found = <<>> \/ n # 0
      BY <2>3
    <3> HIDE DEF found
    <3>5. QED  BY <2>3, <3>3, <3>4, FlattenIsSeq
  <2> HIDE DEF r
  <2>5. balancer' = [algo |-> setup.algo, servers |-> r, ring |-> RingOf(setup.algo, r), counter |-> 0]
    BY <2>1 DEF Set
  <2>6. QED  BY <2>1, <2>2, <2>4, <2>5 DEF BalancerOK, AddressesOf
<1>2. ASSUME NEW c \in Clients, GetAddress(c)
      PROVE  BalancerOK'
  <2>1. setup' = setup /\ crashed' = crashed
        /\ (balancer' = balancer \/ balancer' = Advance(balancer))
    BY <1>2 DEF GetAddress
  <2>2. \/ balancer' = balancer
        \/ balancer' = [balancer EXCEPT !.counter = (@ + 1) % Word]
    BY <2>1 DEF Advance
  <2>3. (balancer.counter + 1) % Word \in Nat
    BY BalancingAssumption DEF BalancerOK
  <2>4. QED  BY <2>1, <2>2, <2>3 DEF BalancerOK
<1>3. ASSUME UNCHANGED <<setup, balancer, crashed>>
      PROVE  BalancerOK'
  BY <1>3 DEF BalancerOK
<1>4. QED  BY <1>1, <1>2, <1>3 DEF Next, vars, Locate, Do, Retry, Answer, Forget

LEMMA BalancerInvariant == Spec => []BalancerOK
<1>1. Init => BalancerOK
  BY BalancerInit
<1>2. BalancerOK /\ [Next]_vars => BalancerOK'
  BY BalancerStep
<1>3. QED  BY <1>1, <1>2, PTL DEF Spec

-----------------------------------------------------------------------------
(* An address that goes away *)

\* Of numbers, one is the largest.
LEMMA Largest ==
    ASSUME NEW n \in Nat \ {0}, NEW f \in [1..n -> Nat]
    PROVE  \E m \in 1..n : \A j \in 1..n : f[j] <= f[m]
<1> DEFINE T == {k \in Nat : k + 1 <= n =>
                   \E m \in 1..(k + 1) : \A j \in 1..(k + 1) : f[j] <= f[m]}
<1>1. 0 \in T
  <2>1. 1 \in 1..(0 + 1) /\ \A j \in 1..(0 + 1) : j = 1
    OBVIOUS
  <2>2. f[1] \in Nat
    OBVIOUS
  <2>3. \A j \in 1..(0 + 1) : f[j] <= f[1]
    BY <2>1, <2>2
  <2>4. QED  BY <2>1, <2>3
<1>2. ASSUME NEW k \in Nat, k \in T PROVE k + 1 \in T
  <2> SUFFICES ASSUME (k + 1) + 1 <= n
               PROVE  \E m \in 1..((k + 1) + 1) : \A j \in 1..((k + 1) + 1) : f[j] <= f[m]
    OBVIOUS
  <2>1. PICK m \in 1..(k + 1) : \A j \in 1..(k + 1) : f[j] <= f[m]
    BY <1>2
  <2> DEFINE l == (k + 1) + 1
  <2>2. /\ l \in 1..l /\ m \in 1..l /\ m \in 1..n /\ l \in 1..n
        /\ \A j \in 1..l : j \in 1..n /\ (j \in 1..(k + 1) \/ j = l)
    OBVIOUS
  <2> HIDE DEF l
  <2>3. f[m] \in Nat /\ f[l] \in Nat /\ \A j \in 1..l : f[j] \in Nat
    BY <2>2
  <2>4. CASE f[l] <= f[m]
    BY <2>1, <2>2, <2>4 DEF l
  <2>5. CASE f[m] <= f[l]
    <3>1. \A j \in 1..l : f[j] <= f[l]
      BY <2>1, <2>2, <2>3, <2>5
    <3>2. QED  BY <2>2, <3>1 DEF l
  <2>6. QED  BY <2>3, <2>4, <2>5
<1> HIDE DEF T
<1>3. \A k \in Nat : k \in T
  BY <1>1, <1>2, AllNumbers
<1>4. \A k \in Nat : k + 1 <= n => \E m \in 1..(k + 1) : \A j \in 1..(k + 1) : f[j] <= f[m]
  BY <1>3 DEF T
<1>5. PICK k \in Nat : k + 1 = n
  <2>1. n - 1 \in Nat /\ (n - 1) + 1 = n
    OBVIOUS
  <2>2. QED  BY <2>1
<1>6. k + 1 <= n
  BY <1>5
<1>7. QED  BY <1>4, <1>5, <1>6

LEMMA RemoveAtIs ==
    ASSUME NEW A, NEW s \in Seq(A), NEW i \in 1..Len(s)
    PROVE  LET r == RemoveAt(s, i)
           IN  /\ r \in Seq(A) /\ Len(r) = Len(s) - 1
               /\ \A j \in 1..Len(r) : r[j] = IF j < i THEN s[j] ELSE s[j + 1]
<1> DEFINE a == SubSeq(s, 1, i - 1)
           b == SubSeq(s, i + 1, Len(s))
<1>1. Len(s) \in Nat /\ i \in Nat
  OBVIOUS
<1>2. a \in Seq(A) /\ Len(a) = i - 1 /\ \A j \in 1..Len(a) : a[j] = s[j]
  OBVIOUS
<1>3. b \in Seq(A) /\ Len(b) = Len(s) - i /\ \A j \in 1..Len(b) : b[j] = s[i + j]
  OBVIOUS
<1>4. RemoveAt(s, i) = a \o b
  BY DEF RemoveAt
<1> HIDE DEF a, b
<1>5. /\ a \o b \in Seq(A) /\ Len(a \o b) = Len(s) - 1
      /\ \A j \in 1..(Len(s) - 1) :
           (a \o b)[j] = IF j <= Len(a) THEN a[j] ELSE b[j - Len(a)]
  <2>0. a \in Seq(A) /\ b \in Seq(A) /\ Len(a) \in Nat /\ Len(b) \in Nat
    BY <1>2, <1>3
  <2>1. a \o b \in Seq(A) /\ Len(a \o b) = Len(a) + Len(b)
        /\ \A j \in 1..(Len(a) + Len(b)) :
             (a \o b)[j] = IF j <= Len(a) THEN a[j] ELSE b[j - Len(a)]
    BY ONLY <2>0
  <2>2. Len(a) + Len(b) = Len(s) - 1
    BY <1>1, <1>2, <1>3
  <2>3. QED  BY <2>1, <2>2
<1>6. ASSUME NEW j \in 1..(Len(s) - 1)
      PROVE  (a \o b)[j] = IF j < i THEN s[j] ELSE s[j + 1]
  <2>1. CASE j < i
    BY <1>1, <1>2, <1>5, <2>1
  <2>2. CASE ~(j < i)
    <3>1. j - Len(a) \in 1..Len(b) /\ i + (j - Len(a)) = j + 1 /\ ~(j <= Len(a))
      BY <1>1, <1>2, <1>3, <2>2
    <3>2. QED  BY <1>3, <1>5, <2>2, <3>1
  <2>3. QED  BY <2>1, <2>2
<1>7. QED  BY <1>4, <1>5, <1>6

\* The points of a ring, but those of a, are in the fewer of F: the path of another stays.
LEMMA KetamaKeeps ==
    ASSUME NEW n \in Nat, NEW R, NEW F, F \subseteq R, F # {}, NEW a, NEW at \in Nat,
           \A p \in R : p.point \in 0..n,
           \A p \in R : p.address = a \/ p \in F,
           a \notin KetamaGet(R, at)
    PROVE  KetamaGet(F, at) = KetamaGet(R, at)
<1> DEFINE BelowOf(S) == {p \in PointsIn(S) : p < at}
           From(S) == IF BelowOf(S) # {} THEN BelowOf(S) ELSE PointsIn(S)
           m == Max(From(R))
<1>1. PointsIn(R) \in SUBSET (0..n) /\ PointsIn(R) # {} /\ PointsIn(F) \subseteq PointsIn(R)
  BY DEF PointsIn
<1>2. KetamaGet(R, at) = Owners(R, m) /\ KetamaGet(F, at) = Owners(F, Max(From(F)))
  BY DEF KetamaGet
<1>3. From(R) \in SUBSET (0..n) /\ From(R) # {} /\ From(R) \subseteq PointsIn(R)
  BY <1>1
<1> HIDE DEF From
<1>4. m \in From(R) /\ \A y \in From(R) : m >= y
  BY <1>3, MaxIsLargest
<1> HIDE DEF m
<1>5. \A p \in R : p.point = m => p.address # a /\ p \in F
  BY <1>2 DEF Owners
<1>6. Owners(F, m) = Owners(R, m)
  BY <1>5 DEF Owners
<1>7. m \in PointsIn(F)
  <2>1. PICK p \in R : p.point = m
    BY <1>3, <1>4 DEF PointsIn
  <2>2. QED  BY <1>5, <2>1 DEF PointsIn
<1>8. m \in From(F) /\ From(F) \subseteq From(R)
  <2>1. CASE BelowOf(R) # {}
    <3>1. m \in BelowOf(R)
      BY <1>4, <2>1 DEF From
    <3>2. m \in BelowOf(F) /\ BelowOf(F) \subseteq BelowOf(R)
      BY <1>1, <1>7, <3>1
    <3>3. QED  BY <2>1, <3>2 DEF From
  <2>2. CASE BelowOf(R) = {}
    <3>1. BelowOf(F) = {}
      BY <1>1, <2>2
    <3>2. QED  BY <1>1, <1>7, <2>2, <3>1 DEF From
  <2>3. QED  BY <2>1, <2>2
<1>9. Max(From(F)) = m
  <2>1. From(F) \in SUBSET (0..n) /\ \A y \in From(F) : m >= y
    BY <1>3, <1>4, <1>8
  <2>2. QED  BY <1>8, <2>1, MaxIs
<1>10. QED  BY <1>2, <1>6, <1>9

\* Of two lists of addresses, the second without the i-th.
LEMMA RendezvousKeeps ==
    ASSUME NEW A, NEW s \in Seq(A), NEW i \in 1..Len(s), Len(s) # 1, EqualWeights(s),
           \A j \in 1..Len(s) : s[j].weight > 0,
           NEW at \in Nat, \A a \in A : Score(a.name, at) \in Nat,
           s[i] \notin RendezvousGet(s, at)
    PROVE  RendezvousGet(RemoveAt(s, i), at) = RendezvousGet(s, at)
<1> DEFINE r == RemoveAt(s, i)
           Best(t) == {j \in DOMAIN t : Score(t[j].name, at) > 0
                          /\ \A k \in DOMAIN t : Score(t[k].name, at) <= Score(t[j].name, at)}
<1>1. /\ r \in Seq(A) /\ Len(r) = Len(s) - 1
      /\ \A j \in 1..Len(r) : r[j] = IF j < i THEN s[j] ELSE s[j + 1]
  BY RemoveAtIs
<1> HIDE DEF r
<1>2. Len(s) \in Nat /\ DOMAIN s = 1..Len(s) /\ DOMAIN r = 1..Len(r) /\ i \in Nat
  BY <1>1
<1>3. EqualWeights(r)
  <2>1. \A j \in 1..Len(r) : \E k \in 1..Len(s) : r[j] = s[k]
    <3> SUFFICES ASSUME NEW j \in 1..Len(r) PROVE \E k \in 1..Len(s) : r[j] = s[k]
      OBVIOUS
    <3>1. j \in 1..Len(s) /\ j + 1 \in 1..Len(s)
      BY <1>1, <1>2
    <3>2. QED  BY <1>1, <3>1
  <2>2. \A j, k \in 1..Len(s) : s[j].weight = s[k].weight
    BY <1>2 DEF EqualWeights
  <2>3. \A j, k \in 1..Len(r) : r[j].weight = r[k].weight
    <3> SUFFICES ASSUME NEW j \in 1..Len(r), NEW k \in 1..Len(r)
                 PROVE  r[j].weight = r[k].weight
      OBVIOUS
    <3>1. PICK x \in 1..Len(s) : r[j] = s[x]
      BY <2>1
    <3>2. PICK y \in 1..Len(s) : r[k] = s[y]
      BY <2>1
    <3>3. QED  BY <2>2, <3>1, <3>2
  <2>4. QED  BY <1>2, <2>3 DEF EqualWeights
<1>4. s # <<>> /\ r # <<>>
  BY <1>1, <1>2
<1>5. ASSUME NEW t \in {s, r}
      PROVE  RendezvousGet(t, at) = IF Best(t) = {} THEN {NoAddress} ELSE {t[Min(Best(t))]}
  <2> DEFINE score == [j \in DOMAIN t |-> Score(t[j].name, at)]
             found == {j \in Scored(t) : score[j] > 0}
             best == {j \in found : \A k \in found : score[k] <= score[j]}
  <2>8. Len(t) \in Nat \ {0} /\ t \in Seq(A)
    BY <1>1, <1>2, <1>4
  <2>1. EqualWeights(t) /\ t # <<>> /\ Scored(t) = DOMAIN t
    <3>1. Len(t) \in Nat \ {0} /\ t \in Seq(A)
      BY <2>8
    <3>2. t[1].weight > 0
      <4>1. CASE t = s
        BY <1>2, <3>1, <4>1
      <4>2. CASE t = r
        <5>1. 1 \in 1..Len(r) /\ 1 \in 1..Len(s) /\ 2 \in 1..Len(s)
          BY <1>1, <1>2, <3>1, <4>2
        <5>2. r[1] = s[1] \/ r[1] = s[2]
          BY <1>1, <5>1
        <5>3. QED  BY <4>2, <5>1, <5>2
      <4>3. QED  BY <4>1, <4>2
    <3>3. QED  BY <1>3, <1>4, <3>2 DEF Scored
  <2>2. RendezvousGet(t, at) = IF found = {} THEN {NoAddress} ELSE {t[Min(best)]}
    BY <2>1 DEF RendezvousGet
  <2>3. \A j \in DOMAIN t : score[j] \in Nat
    BY <1>1, <1>2
  <2>4. best = Best(t)
    <3>1. ASSUME NEW j \in best PROVE j \in Best(t)
      BY <2>1, <2>3, <3>1
    <3>2. ASSUME NEW j \in Best(t) PROVE j \in best
      BY <2>1
    <3>3. QED  BY <3>1, <3>2
  <2>5. found # {} => Best(t) # {}
    <3>1. /\ score \in [1..Len(t) -> Nat] /\ Len(t) \in Nat \ {0} /\ DOMAIN t = 1..Len(t)
          /\ \A j \in DOMAIN t : score[j] = Score(t[j].name, at)
      <4>1. DOMAIN t = 1..Len(t)
        BY <2>8
      <4>2. QED  BY <2>3, <2>8, <4>1
    <3>2. found = {j \in DOMAIN t : score[j] > 0}
      BY <2>1
    <3> HIDE DEF score, found
    <3>3. PICK m \in 1..Len(t) : \A j \in 1..Len(t) : score[j] <= score[m]
      BY <3>1, Largest
    <3>4. \A j \in 1..Len(t) : score[j] \in Nat
      BY <3>1
    <3>5. found # {} => score[m] > 0
      BY <3>1, <3>2, <3>3, <3>4
    <3>6. found # {} => m \in Best(t)
      BY <3>1, <3>3, <3>5
    <3>7. QED  BY <3>6
  <2>6. Best(t) # {} => found # {}
    BY <2>4
  <2>7. QED  BY <2>2, <2>4, <2>5, <2>6
<1>6. \A j \in 1..Len(s) : Score(s[j].name, at) \in Nat
  OBVIOUS
\* where the j-th of the fewer was
<1> DEFINE Was(j) == IF j < i THEN j ELSE j + 1
<1>7. \A j \in 1..Len(r) : r[j] = s[Was(j)] /\ Was(j) \in 1..Len(s) /\ Was(j) # i
  <2> SUFFICES ASSUME NEW j \in 1..Len(r)
               PROVE  r[j] = s[Was(j)] /\ Was(j) \in 1..Len(s) /\ Was(j) # i
    OBVIOUS
  <2>1. r[j] = IF j < i THEN s[j] ELSE s[j + 1]
    BY <1>1
  <2>2. Len(r) = Len(s) - 1 /\ j \in Nat
    BY <1>1
  <2>3. CASE j < i
    BY <1>2, <2>1, <2>2, <2>3
  <2>4. CASE ~(j < i)
    BY <1>2, <2>1, <2>2, <2>4
  <2>5. QED  BY <2>3, <2>4
<1>8. \A k \in 1..Len(s) : k # i => \E j \in 1..Len(r) : Was(j) = k
  <2> SUFFICES ASSUME NEW k \in 1..Len(s), k # i PROVE \E j \in 1..Len(r) : Was(j) = k
    OBVIOUS
  <2>1. CASE k < i
    <3>1. k \in 1..Len(r) /\ Was(k) = k
      BY <1>1, <1>2, <2>1
    <3>2. QED  BY <3>1
  <2>2. CASE k > i
    <3>1. k - 1 \in 1..Len(r) /\ Was(k - 1) = k
      BY <1>1, <1>2, <2>2
    <3>2. QED  BY <3>1
  <2>3. QED  BY <1>2, <2>1, <2>2
<1>9. \A j, k \in 1..Len(r) : Was(j) <= Was(k) => j <= k
  <2> SUFFICES ASSUME NEW j \in 1..Len(r), NEW k \in 1..Len(r), Was(j) <= Was(k)
               PROVE  j <= k
    OBVIOUS
  <2>1. j \in Nat /\ k \in Nat /\ i \in Nat
    BY ONLY <1>1, <1>2, i \in 1..Len(s)
  <2>2. (j < i => Was(j) = j) /\ (~(j < i) => Was(j) = j + 1)
    OBVIOUS
  <2>3. (k < i => Was(k) = k) /\ (~(k < i) => Was(k) = k + 1)
    OBVIOUS
  <2> HIDE DEF Was
  <2>4. QED  BY ONLY <2>1, <2>2, <2>3, Was(j) <= Was(k)
<1> HIDE DEF Was
<1>10. CASE Best(s) = {}
  <2>1. \A j \in 1..Len(s) : Score(s[j].name, at) = 0
    <3> DEFINE f == [j \in 1..Len(s) |-> Score(s[j].name, at)]
    <3>1. f \in [1..Len(s) -> Nat] /\ Len(s) \in Nat \ {0}
      BY <1>2, <1>6
    <3> HIDE DEF f
    <3>2. PICK m \in 1..Len(s) : \A j \in 1..Len(s) : f[j] <= f[m]
      BY <3>1, Largest
    <3>3. m \notin Best(s)
      BY <1>10
    <3>4. ~(f[m] > 0)
      BY <1>2, <3>2, <3>3 DEF f
    <3>5. \A j \in 1..Len(s) : f[j] = 0
      <4>1. \A j \in 1..Len(s) : f[j] \in Nat /\ f[m] \in Nat
        BY <3>1
      <4>2. QED  BY <3>2, <3>4, <4>1
    <3>6. QED  BY <3>5 DEF f
  <2>2. \A j \in DOMAIN r : ~(Score(r[j].name, at) > 0)
    BY <1>2, <1>7, <2>1
  <2>3. Best(r) = {}
    BY <2>2
  <2>4. QED  BY <1>5, <1>10, <2>3 DEF r
<1>11. CASE Best(s) # {}
  <2> DEFINE b == Min(Best(s))
  <2>1. Best(s) \in SUBSET Nat /\ Best(s) \subseteq 1..Len(s)
    BY <1>2
  <2>2. b \in Best(s) /\ \A j \in Best(s) : b <= j
    <3> HIDE DEF Best
    <3>1. QED  BY <1>11, <2>1, MinIsLeast
  <2>3. RendezvousGet(s, at) = {s[b]} /\ b # i
    BY <1>5, <1>11
  <2> HIDE DEF b
  <2>4. PICK c \in 1..Len(r) : Was(c) = b
    BY <1>8, <2>1, <2>2, <2>3
  <2>5. c \in Best(r)
    <3>1. r[c] = s[b] /\ Score(s[b].name, at) > 0
          /\ \A k \in 1..Len(s) : Score(s[k].name, at) <= Score(s[b].name, at)
      BY <1>2, <1>7, <2>2, <2>4
    <3>2. \A k \in DOMAIN r : Score(r[k].name, at) <= Score(r[c].name, at)
      BY <1>2, <1>7, <3>1
    <3>3. QED  BY <1>2, <3>1, <3>2
  <2>6. ASSUME NEW j \in Best(r) PROVE c <= j
    <3>1. j \in 1..Len(r) /\ r[j] = s[Was(j)] /\ Was(j) \in 1..Len(s)
      BY <1>2, <1>7
    <3>2. Score(r[c].name, at) <= Score(r[j].name, at) /\ Score(r[j].name, at) > 0
      BY <1>2
    <3>3. r[c] = s[b]
      BY <1>7, <2>4
    <3>4. \A k \in 1..Len(s) : Score(s[k].name, at) <= Score(s[b].name, at)
      BY <1>2, <2>2
    <3>5. \A k \in 1..Len(s) : Score(s[k].name, at) <= Score(s[Was(j)].name, at)
      <4>1. Score(s[b].name, at) \in Nat /\ Score(s[Was(j)].name, at) \in Nat
        BY <1>6, <2>1, <2>2, <3>1
      <4>2. Score(s[b].name, at) <= Score(s[Was(j)].name, at)
        BY <3>1, <3>2, <3>3
      <4>3. QED  BY <1>6, <3>4, <4>1, <4>2
    <3>6. Was(j) \in Best(s)
      BY <1>2, <3>1, <3>2, <3>5
    <3>7. QED  BY <1>9, <2>2, <2>4, <3>1, <3>6
  <2>7. Min(Best(r)) = c
    <3>1. Best(r) \in SUBSET Nat
      BY <1>1, <1>2
    <3> HIDE DEF Best
    <3>2. QED  BY <2>5, <2>6, <3>1, MinIs
  <2>8. QED  BY <1>5, <1>7, <2>3, <2>4, <2>5, <2>7 DEF r
<1>12. QED  BY <1>10, <1>11

\* A division without a remainder.
LEMMA Quotient ==
    ASSUME NEW a \in Nat, NEW b \in Nat \ {0}
    PROVE  (a * b) \div b = a
<1> DEFINE x == a * b
<1>1. x \in Nat /\ x = b * (x \div b) + (x % b) /\ x \div b \in Int /\ x % b \in 0..(b - 1)
  OBVIOUS
<1>2. x = b * a
  OBVIOUS
<1> HIDE DEF x
<1>3. b * (a - (x \div b)) = b * a - b * (x \div b)
  BY <1>1
<1>4. b * (a - (x \div b)) = x % b
  BY <1>1, <1>2, <1>3
<1>5. ~(b * (a - (x \div b)) > 0)
  <2> DEFINE d == a - (x \div b)
  <2>1. d \in Int
    BY <1>1
  <2>2. b * d < b
    BY <1>1, <1>4
  <2> HIDE DEF d
  <2>3. b * d > 0 => b * d >= b
    BY <2>1, MultipleIsLarge
  <2>4. b * d \in Int
    BY <2>1
  <2>5. QED  BY <2>2, <2>3, <2>4 DEF d
<1>6. b * a = b * (x \div b)
  <2>1. b * a \in Int /\ b * (x \div b) \in Int
    BY <1>1
  <2>2. x % b = 0
    BY <1>1, <1>4, <1>5
  <2>3. QED  BY <1>1, <1>2, <2>1, <2>2
<1>7. b * (a - (x \div b)) = 0
  BY <1>1, <1>3, <1>6
<1>8. a - (x \div b) = 0
  BY <1>1, <1>7
<1>9. QED  BY <1>1, <1>8 DEF x

\* The product of the weights with the points of a ring does not overflow.
Fits(s) == \A i \in 1..Len(s) : s[i].weight * (Len(s) * PointsPerServer) < Word

FitsWord == Fits(balancer.servers)

\* Addresses of one weight get the same number of points each, however many they are.
LEMMA EqualShares ==
    ASSUME NEW A, NEW s \in Seq(A), s # <<>>, NEW w \in Nat \ {0},
           \A i \in 1..Len(s) : s[i].weight = w, w * (Len(s) * PointsPerServer) < Word
    PROVE  /\ TotalWeight(s) % Word # 0
           /\ \A i \in 1..Len(s) : Points(s, i) = PointsPerServer
<1> DEFINE n == Len(s)
           P == PointsPerServer
           W == Weights(s)
<1>1. n \in Nat \ {0} /\ P \in Nat \ {0} /\ Word \in Nat \ {0} /\ DOMAIN s = 1..n
  BY BalancingAssumption
<1>2. W \in [1..n -> Nat] /\ \A k \in 1..n : W[k] = w
  BY <1>1 DEF Weights
<1> HIDE DEF W, n, P
<1>3. PICK g : Running(g, W, n) /\ SumOf(W) = g[n]
  BY <1>1, <1>2, SumIsRunning
<1>4. TotalWeight(s) = n * w
  <2>1. (\A k \in 1..n : W[k] = w) => g[n] = n * w
    <3>1. n \in Nat /\ Running(g, W, n) /\ W \in [1..n -> Nat]
      BY <1>1, <1>2, <1>3
    <3>2. QED  BY ONLY <3>1, w \in Nat, RunningBounds
  <2>2. g[n] = n * w
    BY <1>2, <2>1
  <2>3. QED  BY <1>3, <2>2 DEF TotalWeight, W
<1>5. /\ n * P \in Nat /\ n * w \in Nat \ {0} /\ w * (n * P) \in Nat
      /\ w * (n * P) = P * (n * w)
      /\ n * P <= w * (n * P) /\ n * w <= w * (n * P)
  <2>1. n * P \in Nat /\ n * w \in Nat /\ n * w # 0
    BY <1>1
  <2>2. w * (n * P) = P * (n * w) /\ w * (n * P) \in Nat
    BY <1>1
  <2>3. \A x \in Nat, y \in Nat \ {0} : x <= y * x
    OBVIOUS
  <2>4. QED  BY <1>1, <2>1, <2>2, <2>3
<1>6. w * (n * P) < Word
  BY DEF n, P
<1>7. MaxPoints(s) = n * P
  <2>1. n * P < Word
    BY <1>1, <1>5, <1>6
  <2>2. (n * P) % Word = n * P
    BY <1>1, <1>5, <2>1
  <2>3. QED  BY <2>2 DEF MaxPoints, n, P
<1>8. (n * w) % Word = n * w
  <2>1. n * w < Word
    BY <1>1, <1>5, <1>6
  <2>2. QED  BY <1>1, <1>5, <2>1
<1>9. (w * (n * P)) % Word = w * (n * P)
  BY <1>1, <1>5, <1>6
<1>10. ASSUME NEW i \in 1..n PROVE Points(s, i) = P
  <2>1. Points(s, i) = (w * (n * P)) \div (n * w)
    BY <1>4, <1>7, <1>8, <1>9 DEF Points, n
  <2>2. Points(s, i) = (P * (n * w)) \div (n * w)
    BY <1>5, <2>1
  <2>3. QED  BY <1>1, <1>5, <2>2, Quotient
<1>11. TotalWeight(s) % Word # 0
  BY <1>4, <1>5, <1>8
<1>12. QED  BY <1>10, <1>11 DEF n, P

EqualRing(s) ==
    UNION {PointsOn(s[i], PointsPerHash * (PointsPerServer \div PointsPerHash)) : i \in 1..Len(s)}

LEMMA RingOfEquals ==
    ASSUME NEW A, NEW s \in Seq(A), s # <<>>, NEW w \in Nat \ {0},
           \A i \in 1..Len(s) : s[i].weight = w, w * (Len(s) * PointsPerServer) < Word
    PROVE  RingOf("ketama", s) = EqualRing(s)
<1>1. ~Panics("ketama", s)
  BY EqualShares DEF Panics
<1>2. \A i \in 1..Len(s) : Points(s, i) = PointsPerServer
  BY EqualShares
<1>3. DOMAIN s = 1..Len(s)
  OBVIOUS
<1>4. Ring(s) = EqualRing(s)
  BY <1>2, <1>3 DEF Ring, EqualRing
<1>5. QED  BY <1>1, <1>4 DEF RingOf

\* A ring has points of every address that gets some.
LEMMA SomePoints ==
    ASSUME NEW a, NEW n \in Nat \ {0}
    PROVE  PointsOn(a, n) # {} /\ \A p \in PointsOn(a, n) : p.address = a
<1>1. 0 \in 0..n-1
  OBVIOUS
<1>2. [address |-> a, point |-> Hash(a.name, 0 \div PointsPerHash, 0 % PointsPerHash)]
        \in PointsOn(a, n)
  BY <1>1 DEF PointsOn
<1>3. \A p \in PointsOn(a, n) : p.address = a
  BY DEF PointsOn
<1>4. QED  BY <1>2, <1>3

LEMMA PointsWhere ==
    ASSUME NEW a, NEW n \in Nat, n <= Word,
           \A k \in 0..Word, x \in 0..(PointsPerHash - 1) : Hash(a.name, k, x) \in 0..MaxPoint
    PROVE  \A p \in PointsOn(a, n) : p.point \in 0..MaxPoint
<1> SUFFICES ASSUME NEW k \in 0..n-1
             PROVE  Hash(a.name, k \div PointsPerHash, k % PointsPerHash) \in 0..MaxPoint
  BY DEF PointsOn
<1>1. PointsPerHash \in Nat \ {0} /\ Word \in Nat \ {0}
  BY BalancingAssumption
<1>2. k % PointsPerHash \in 0..(PointsPerHash - 1)
  BY <1>1
<1>3. k \div PointsPerHash \in 0..Word
  <2> DEFINE q == k \div PointsPerHash
             m == k % PointsPerHash
  <2>1. q \in Int /\ m \in Nat /\ k = PointsPerHash * q + m /\ k \in Nat
    BY <1>1
  <2>2. q >= 0
    BY <1>1
  <2> HIDE DEF q, m
  <2>3. q <= PointsPerHash * q
    BY <1>1, <2>1, <2>2
  <2>4. PointsPerHash * q \in Nat
    BY <1>1, <2>1, <2>2
  <2>5. q <= k
    BY <2>1, <2>3, <2>4
  <2>6. q \in 0..Word
    BY <1>1, <2>1, <2>2, <2>5
  <2>7. QED  BY <2>6 DEF q
<1>4. QED  BY <1>2, <1>3

\* The points that each address gets when all weights are equal
LEMMA ShareIsSome ==
    LET c == PointsPerHash * (PointsPerServer \div PointsPerHash)
    IN  c \in Nat \ {0} /\ c <= PointsPerServer
<1> DEFINE h == PointsPerHash
           P == PointsPerServer
           q == P \div h
           m == P % h
<1>1. h \in Nat \ {0} /\ P \in Nat /\ P >= h
  BY BalancingAssumption
<1>2. q \in Int /\ m \in 0..(h - 1) /\ P = h * q + m
  BY <1>1
<1> HIDE DEF h, P, q, m
<1>3. q >= 1
  <2>1. q < 1 => h * q <= 0
    BY <1>1, <1>2
  <2>2. h * q \in Int
    BY <1>1, <1>2
  <2>3. QED  BY <1>1, <1>2, <2>1, <2>2
<1>4. h * q \in Nat \ {0}
  BY <1>1, <1>2, <1>3
<1>5. h * q <= P
  BY <1>1, <1>2, <1>4
<1>6. QED  BY <1>4, <1>5 DEF h, P, q

\* The i-th address, of those with equal weights, takes nothing of another's.
LEMMA EqualRingKeeps ==
    ASSUME NEW A, NEW s \in Seq(A), NEW i \in 1..Len(s), Len(s) # 1, NEW at \in Nat,
           PointsPerServer < Word,
           \A a \in A : \A k \in 0..Word, x \in 0..(PointsPerHash - 1) :
              Hash(a.name, k, x) \in 0..MaxPoint,
           s[i] \notin KetamaGet(EqualRing(s), at)
    PROVE  KetamaGet(EqualRing(RemoveAt(s, i)), at) = KetamaGet(EqualRing(s), at)
<1> DEFINE r == RemoveAt(s, i)
           c == PointsPerHash * (PointsPerServer \div PointsPerHash)
<1>1. /\ r \in Seq(A) /\ Len(r) = Len(s) - 1
      /\ \A j \in 1..Len(r) : r[j] = IF j < i THEN s[j] ELSE s[j + 1]
  BY RemoveAtIs
<1> HIDE DEF r
<1>2. Len(s) \in Nat /\ i \in Nat
  OBVIOUS
<1>3. EqualRing(s) = UNION {PointsOn(s[j], c) : j \in 1..Len(s)}
      /\ EqualRing(r) = UNION {PointsOn(r[j], c) : j \in 1..Len(r)}
  BY DEF EqualRing
<1>4. c \in Nat \ {0} /\ c <= Word
  BY ShareIsSome, BalancingAssumption
<1> HIDE DEF c
<1>5. \A j \in 1..Len(r) : \E k \in 1..Len(s) : r[j] = s[k]
  <2> SUFFICES ASSUME NEW j \in 1..Len(r) PROVE \E k \in 1..Len(s) : r[j] = s[k]
    OBVIOUS
  <2>1. j \in 1..Len(s) /\ j + 1 \in 1..Len(s)
    BY <1>1, <1>2
  <2>2. QED  BY <1>1, <2>1
<1>6. \A k \in 1..Len(s) : k # i => \E j \in 1..Len(r) : r[j] = s[k]
  <2> SUFFICES ASSUME NEW k \in 1..Len(s), k # i PROVE \E j \in 1..Len(r) : r[j] = s[k]
    OBVIOUS
  <2>1. CASE k < i
    <3>1. k \in 1..Len(r)
      BY <1>1, <1>2, <2>1
    <3>2. QED  BY <1>1, <2>1, <3>1
  <2>2. CASE k > i
    <3>1. k - 1 \in 1..Len(r) /\ ~(k - 1 < i) /\ (k - 1) + 1 = k
      BY <1>1, <1>2, <2>2
    <3>2. QED  BY <1>1, <3>1
  <2>3. QED  BY <1>2, <2>1, <2>2
<1>7. EqualRing(r) \subseteq EqualRing(s)
  BY <1>3, <1>5
<1>8. EqualRing(r) # {}
  <2>1. 1 \in 1..Len(r)
    BY <1>1, <1>2
  <2>2. PointsOn(r[1], c) # {}
    BY <1>4, SomePoints
  <2>3. QED  BY <1>3, <2>1, <2>2
<1>9. \A p \in EqualRing(s) : p.point \in 0..MaxPoint
  <2>1. \A j \in 1..Len(s) : \A p \in PointsOn(s[j], c) : p.point \in 0..MaxPoint
    <3> SUFFICES ASSUME NEW j \in 1..Len(s) PROVE \A p \in PointsOn(s[j], c) : p.point \in 0..MaxPoint
      OBVIOUS
    <3>1. s[j] \in A
      OBVIOUS
    <3>2. QED  BY <1>4, <3>1, PointsWhere
  <2>2. QED  BY <1>3, <2>1
<1>10. ASSUME NEW p \in EqualRing(s) PROVE p.address = s[i] \/ p \in EqualRing(r)
  <2>1. PICK k \in 1..Len(s) : p \in PointsOn(s[k], c)
    BY <1>3
  <2>2. p.address = s[k]
    BY <1>4, <2>1, SomePoints
  <2>3. CASE k = i
    BY <2>2, <2>3
  <2>4. CASE k # i
    <3>1. PICK j \in 1..Len(r) : r[j] = s[k]
      BY <1>6, <2>4
    <3>2. QED  BY <1>3, <2>1, <3>1
  <2>5. QED  BY <2>3, <2>4
<1>11. MaxPoint \in Nat
  BY RoutingAssumption
<1>12. KetamaGet(EqualRing(r), at) = KetamaGet(EqualRing(s), at)
  BY <1>7, <1>8, <1>9, <1>10, <1>11, KetamaKeeps
<1>13. QED  BY <1>12 DEF r

\* Equal weights of which the sum is not 0.
LEMMA EqualIsPositive ==
    ASSUME NEW A, NEW s \in Seq(A), EqualWeights(s), TotalWeight(s) > 0,
           \A a \in A : a.weight \in Nat, NEW i \in 1..Len(s)
    PROVE  s[i].weight > 0
<1> DEFINE w == s[i].weight
           W == Weights(s)
<1>1. Len(s) \in Nat \ {0} /\ DOMAIN s = 1..Len(s)
  OBVIOUS
<1>2. w \in Nat /\ \A j \in 1..Len(s) : s[j].weight = w
  BY <1>1 DEF EqualWeights
<1> HIDE DEF w
<1>3. W \in [1..Len(s) -> Nat] /\ \A k \in 1..Len(s) : W[k] = w
  BY <1>1, <1>2 DEF Weights
<1>4. SUFFICES ASSUME w = 0 PROVE FALSE
  BY <1>2 DEF w
<1> HIDE DEF W
<1>5. PICK g : Running(g, W, Len(s)) /\ SumOf(W) = g[Len(s)]
  BY <1>1, <1>3, SumIsRunning
<1>6. g[Len(s)] = Len(s) * w
  <2>1. Len(s) \in Nat
    BY <1>1
  <2>2. (\A k \in 1..Len(s) : W[k] = w) => g[Len(s)] = Len(s) * w
    BY ONLY <1>2, <1>3, <1>5, <2>1, RunningBounds
  <2>3. QED  BY <1>3, <2>2
<1>7. TotalWeight(s) = 0
  BY <1>1, <1>4, <1>5, <1>6 DEF TotalWeight, W
<1>8. QED  BY <1>7

LEMMA KetamaPaths ==
    ASSUME NEW A, NEW s \in Seq(A), NEW i \in 1..Len(s), Len(s) # 1, NEW at \in Nat,
           EqualWeights(s), TotalWeight(s) > 0, \A a \in A : a.weight \in Nat,
           \A j \in 1..Len(s) : s[j].weight * (Len(s) * PointsPerServer) < Word,
           \A a \in A : \A k \in 0..Word, x \in 0..(PointsPerHash - 1) :
              Hash(a.name, k, x) \in 0..MaxPoint,
           s[i] \notin KetamaGet(RingOf("ketama", s), at)
    PROVE  KetamaGet(RingOf("ketama", RemoveAt(s, i)), at) = KetamaGet(RingOf("ketama", s), at)
<1> DEFINE r == RemoveAt(s, i)
           w == s[i].weight
           P == PointsPerServer
<1>1. /\ r \in Seq(A) /\ Len(r) = Len(s) - 1
      /\ \A j \in 1..Len(r) : r[j] = IF j < i THEN s[j] ELSE s[j + 1]
  BY RemoveAtIs
<1> HIDE DEF r
<1>2. /\ Len(s) \in Nat \ {0} /\ i \in Nat /\ DOMAIN s = 1..Len(s)
      /\ P \in Nat \ {0} /\ Word \in Nat \ {0}
  BY BalancingAssumption
<1>3. w \in Nat /\ \A j \in 1..Len(s) : s[j].weight = w
  BY <1>2 DEF EqualWeights
<1> HIDE DEF w, P
<1>4. \A j \in 1..Len(r) : r[j].weight = w
  <2> SUFFICES ASSUME NEW j \in 1..Len(r) PROVE r[j].weight = w
    OBVIOUS
  <2>1. j \in 1..Len(s) /\ j + 1 \in 1..Len(s)
    BY <1>1, <1>2
  <2>2. QED  BY <1>1, <1>3, <2>1
<1>5. w # 0
  BY EqualIsPositive DEF w
<1>6. w * (Len(s) * P) < Word
  BY <1>3 DEF P
<1>7. w * (Len(r) * P) < Word /\ P < Word
  <2> DEFINE n == Len(s)
             m == Len(r)
  <2>1. n \in Nat \ {0} /\ m \in Nat /\ m <= n /\ w \in Nat \ {0}
    BY <1>1, <1>2, <1>3, <1>5
  <2>2. w * (n * P) < Word
    BY <1>6
  <2> HIDE DEF n, m
  <2>3. n * P \in Nat /\ m * P \in Nat /\ m * P <= n * P /\ P <= n * P
    <3>1. n - m \in Nat /\ n - 1 \in Nat
      BY <2>1
    <3>2. n * P = m * P + (n - m) * P /\ n * P = P + (n - 1) * P
      BY <1>2, <2>1
    <3>3. (n - m) * P \in Nat /\ (n - 1) * P \in Nat
      BY <1>2, <3>1
    <3>4. n * P \in Nat /\ m * P \in Nat
      BY <1>2, <2>1
    <3>5. QED  BY <1>2, <3>2, <3>3, <3>4
  <2>4. \A x, y \in Nat : x <= y => w * x <= w * y /\ x <= w * x
    <3> SUFFICES ASSUME NEW x \in Nat, NEW y \in Nat, x <= y
                 PROVE  w * x <= w * y /\ x <= w * x
      OBVIOUS
    <3>1. y - x \in Nat /\ w - 1 \in Nat
      BY <2>1
    <3>2. w * y = w * x + w * (y - x) /\ w * x = x + (w - 1) * x
      BY <2>1
    <3>3. w * (y - x) \in Nat /\ (w - 1) * x \in Nat /\ w * x \in Nat
      BY <2>1, <3>1
    <3>4. QED  BY <3>2, <3>3
  <2>5. w * (m * P) <= w * (n * P) /\ P <= w * P /\ w * P <= w * (n * P)
    BY <1>2, <2>3, <2>4
  <2>6. w * (m * P) \in Nat /\ w * (n * P) \in Nat /\ w * P \in Nat
    BY <1>2, <2>1, <2>3
  <2>7. w * (m * P) < Word /\ P < Word
    BY <1>2, <2>2, <2>5, <2>6
  <2>8. QED  BY <2>7 DEF m
<1>8. w \in Nat \ {0} /\ s # <<>> /\ r # <<>>
  BY <1>1, <1>2, <1>3, <1>5
<1>9. RingOf("ketama", s) = EqualRing(s)
  BY <1>3, <1>6, <1>8, RingOfEquals DEF P
<1>10. RingOf("ketama", r) = EqualRing(r)
  BY <1>1, <1>4, <1>7, <1>8, RingOfEquals DEF P
<1>11. KetamaGet(EqualRing(RemoveAt(s, i)), at) = KetamaGet(EqualRing(s), at)
  BY <1>7, <1>9, EqualRingKeeps DEF P
<1>12. QED  BY <1>9, <1>10, <1>11 DEF r

LEMMA GetIs ==
    ASSUME NEW b, NEW at
    PROVE  /\ b.algo = "ketama" => Get(b, at) = KetamaGet(b.ring, at)
           /\ b.algo = "legacyketama" => Get(b, at) = LegacyKetamaGet(b.ring, at)
           /\ b.algo = "random" => Get(b, at) = RandomGet(b.servers)
           /\ b.algo = "rendezvous" => Get(b, at) = RendezvousGet(b.servers, at)
           /\ b.algo = "unweighted-random" =>
                Get(b, at) = IF b.servers = <<>> THEN {NoAddress} ELSE Range(b.servers)
           /\ b.algo = "unweighted-roundrobin" =>
                Get(b, at) = IF b.servers = <<>> THEN {NoAddress}
                             ELSE {b.servers[(b.counter % Len(b.servers)) + 1]}
BY DEF Get

\* When no number overflows, an address that goes away takes only its own paths with
\* it, whatever points and scores the names have (ketama, rendezvous).
THEOREM RoutingKeepsItsPaths == Spec => [](FitsWord => KeepsItsPaths)
<1>1. ASSUME BalancerOK, FitsWord
      PROVE  KeepsItsPaths
  <2> DEFINE s == balancer.servers
             A == AddressesOf(setup)
  <2>1. setup \in Setups /\ s \in Seq(A) /\ DOMAIN s = 1..Len(s)
    BY <1>1 DEF BalancerOK
  <2>2. /\ \A a \in A : a.weight \in Nat
        /\ \A a \in A : \A k \in 0..Word, x \in 0..(PointsPerHash - 1) :
              Hash(a.name, k, x) \in 0..MaxPoint
        /\ \A a \in A : \A at \in 0..MaxPoint : Score(a.name, at) \in Nat
    BY <2>1, AddressIs
  <2> SUFFICES ASSUME Consistent(setup.algo), EqualWeights(s), TotalWeight(s) > 0,
                      NEW i \in DOMAIN s, NEW at \in 0..MaxPoint,
                      s[i] \notin Get(balancer, at), Len(s) # 1
               PROVE  Get(Set(setup.algo, RemoveAt(s, i)), at) = Get(balancer, at)
    BY DEF KeepsItsPaths
  <2> HIDE DEF A
  <2>3. balancer.algo = setup.algo /\ balancer.ring = RingOf(setup.algo, s) /\ balancer.servers = s
    BY <1>1 DEF BalancerOK
  <2>4. at \in Nat /\ i \in 1..Len(s)
    BY <2>1, RoutingAssumption
  <2>5. CASE setup.algo = "ketama"
    <3>1. ASSUME NEW t PROVE Get(Set("ketama", t), at) = KetamaGet(RingOf("ketama", t), at)
      BY GetIs DEF Set
    <3>2. Get(balancer, at) = KetamaGet(RingOf("ketama", s), at)
      BY <2>3, <2>5, GetIs
    <3>3. \A j \in 1..Len(s) : s[j].weight * (Len(s) * PointsPerServer) < Word
      BY <1>1 DEF FitsWord, Fits
    <3>6. \A a \in A : a.weight \in Nat
      BY <2>2
    <3>7. s[i] \notin KetamaGet(RingOf("ketama", s), at)
      BY <3>2
    <3> HIDE DEF s
    <3>4. KetamaGet(RingOf("ketama", RemoveAt(s, i)), at) = KetamaGet(RingOf("ketama", s), at)
      BY <2>1, <2>2, <2>4, <3>7, <3>3, KetamaPaths
    <3>5. QED  BY <2>5, <3>1, <3>2, <3>4
  <2>6. CASE setup.algo = "rendezvous"
    <3>1. ASSUME NEW t PROVE Get(Set("rendezvous", t), at) = RendezvousGet(t, at)
      BY GetIs DEF Set
    <3>2. Get(balancer, at) = RendezvousGet(s, at)
      BY <2>3, <2>6, GetIs
    <3>5. s[i] \notin RendezvousGet(s, at) /\ \A a \in A : Score(a.name, at) \in Nat
      BY <2>2, <3>2
    <3>6. EqualWeights(s) /\ Len(s) # 1
      OBVIOUS
    <3>7. \A j \in 1..Len(s) : s[j].weight > 0
      BY <2>1, <2>2, EqualIsPositive
    <3> HIDE DEF s
    <3>3. RendezvousGet(RemoveAt(s, i), at) = RendezvousGet(s, at)
      BY <2>1, <2>4, <3>5, <3>6, <3>7, RendezvousKeeps
    <3>4. QED  BY <2>6, <3>1, <3>2, <3>3
  <2>7. QED  BY <2>5, <2>6 DEF Consistent
<1>2. QED  BY <1>1, BalancerInvariant, PTL

-----------------------------------------------------------------------------
(* A server for every path *)

LEMMA Multiply ==
    ASSUME NEW w \in Nat, NEW x \in Nat, NEW y \in Nat
    PROVE  /\ w * x \in Nat /\ x * w = w * x
           /\ x <= y => w * x <= w * y
           /\ w # 0 => x <= w * x
<1>1. w * x \in Nat /\ x * w = w * x /\ w * y \in Nat
  OBVIOUS
<1>2. ASSUME x <= y PROVE w * x <= w * y
  <2>1. y - x \in Nat /\ w * y = w * x + w * (y - x)
    BY <1>2
  <2>2. w * (y - x) \in Nat
    BY <2>1
  <2>3. QED  BY <1>1, <2>1, <2>2
<1>3. ASSUME w # 0 PROVE x <= w * x
  <2>1. w - 1 \in Nat /\ w * x = x + (w - 1) * x
    BY <1>3
  <2>2. (w - 1) * x \in Nat
    BY <2>1
  <2>3. QED  BY <1>1, <2>1, <2>2
<1>4. QED  BY <1>1, <1>2, <1>3

LEMMA SmallRest ==
    ASSUME NEW x \in Nat, NEW n \in Nat \ {0}, x < n
    PROVE  x % n = x
OBVIOUS

\* The total weight is a number of its own width, and positive with any of the weights.
LEMMA TotalFits ==
    ASSUME NEW A, NEW s \in Seq(A), s # <<>>, \A a \in A : a.weight \in Nat, Fits(s)
    PROVE  \E m \in 1..Len(s) :
             /\ \A i \in 1..Len(s) : s[i].weight <= s[m].weight
             /\ TotalWeight(s) \in Nat /\ TotalWeight(s) < Word
             /\ s[m].weight <= TotalWeight(s) /\ TotalWeight(s) <= Len(s) * s[m].weight
             /\ s[m].weight # 0 => Len(s) * PointsPerServer < Word
<1> DEFINE n == Len(s)
           W == Weights(s)
           P == PointsPerServer
<1>1. n \in Nat \ {0} /\ DOMAIN s = 1..n /\ P \in Nat \ {0} /\ Word \in Nat \ {0}
  BY BalancingAssumption
<1>2. \A i \in 1..n : s[i].weight \in Nat
  BY <1>1
<1>3. W \in [1..n -> Nat] /\ \A k \in 1..n : W[k] = s[k].weight
  BY <1>1, <1>2 DEF Weights
<1>4. \A i \in 1..n : s[i].weight * (n * P) < Word
  BY DEF Fits
<1>5. TotalWeight(s) = SumOf(W)
  BY DEF TotalWeight
<1> HIDE DEF n, W, P
<1>6. PICK g : Running(g, W, n) /\ SumOf(W) = g[n]
  BY <1>1, <1>3, SumIsRunning
<1>7. PICK m \in 1..n : \A j \in 1..n : W[j] <= W[m]
  BY <1>1, <1>3, Largest
<1> DEFINE w == W[m]
<1>8. w \in Nat /\ w = s[m].weight
  BY <1>3, <1>7
<1>9. g[n] <= n * w
  <2>1. n \in Nat
    BY <1>1
  <2>2. (\A k \in 1..n : W[k] <= w) => g[n] <= n * w
    BY ONLY <1>3, <1>6, <1>8, <2>1, RunningBounds
  <2>3. QED  BY <1>7, <2>2
<1>10. g[n] \in Nat /\ w <= g[n]
  <2>1. g[n] \in Nat
    BY <1>1, <1>6 DEF Running
  <2>2. n \in Nat
    BY <1>1
  <2>3. \A k \in 1..n : W[k] <= g[n]
    BY ONLY <1>3, <1>6, <2>2, RunningGrows
  <2>4. QED  BY <1>7, <2>1, <2>3
<1>11. w * (n * P) < Word
  BY <1>4, <1>7, <1>8
<1> HIDE DEF w
<1>12. n * w <= w * (n * P) /\ n * w \in Nat /\ w * (n * P) \in Nat /\ n * P \in Nat
  <2>1. n <= n * P /\ n * P \in Nat
    BY <1>1, Multiply
  <2>2. w * n <= w * (n * P) /\ w * n \in Nat /\ w * (n * P) \in Nat /\ w * n = n * w
    BY <1>1, <1>8, <2>1, Multiply
  <2>3. QED  BY <2>1, <2>2
<1>13. g[n] < Word
  BY <1>1, <1>9, <1>10, <1>11, <1>12
<1>14. w # 0 => n * P < Word
  <2>1. w # 0 => n * P <= w * (n * P)
    BY <1>8, <1>12, Multiply
  <2>2. QED  BY <1>1, <1>11, <1>12, <2>1
<1>15. \A i \in 1..n : s[i].weight <= s[m].weight
  BY <1>3, <1>7
<1>16. /\ TotalWeight(s) \in Nat /\ TotalWeight(s) < Word
       /\ s[m].weight <= TotalWeight(s) /\ TotalWeight(s) <= n * s[m].weight
       /\ s[m].weight # 0 => n * P < Word
  BY <1>5, <1>6, <1>8, <1>9, <1>10, <1>13, <1>14
<1>17. QED  BY <1>15, <1>16 DEF n, P

\* Only weights of 0 make the division panic.
LEMMA PanicIsZero ==
    ASSUME NEW A, NEW s \in Seq(A), \A a \in A : a.weight \in Nat, Fits(s),
           NEW algo, Panics(algo, s)
    PROVE  \E i \in 1..Len(s) : s[i].weight = 0
<1>1. s # <<>> /\ TotalWeight(s) % Word = 0
  BY DEF Panics
<1>2. PICK m \in 1..Len(s) :
             /\ TotalWeight(s) \in Nat /\ TotalWeight(s) < Word /\ s[m].weight <= TotalWeight(s)
  BY <1>1, TotalFits
<1> DEFINE t == TotalWeight(s)
<1>3. t % Word = t
  <2>1. t \in Nat /\ t < Word /\ Word \in Nat \ {0}
    BY <1>2, BalancingAssumption
  <2> HIDE DEF t
  <2>2. QED  BY <2>1, SmallRest
<1>4. s[m].weight \in Nat
  OBVIOUS
<1>5. s[m].weight = 0
  BY <1>1, <1>2, <1>3, <1>4
<1>6. QED  BY <1>5

\* A quotient, and what it is at least and at most.
LEMMA QuotientBounds ==
    ASSUME NEW x \in Nat, NEW d \in Nat \ {0}
    PROVE  /\ x \div d \in Nat /\ x \div d <= x
           /\ \A q \in Nat : d * q <= x => q <= x \div d
           /\ d * (x \div d) <= x
<1> DEFINE q == x \div d
           r == x % d
<1>1. q \in Int /\ r \in 0..(d - 1) /\ x = d * q + r /\ q >= 0
  OBVIOUS
<1> HIDE DEF q, r
<1>2. q \in Nat
  BY <1>1
<1>3. d * q \in Nat /\ q <= d * q
  BY <1>2, Multiply
<1>4. q <= x /\ d * q <= x
  BY <1>1, <1>2, <1>3
<1>5. ASSUME NEW p \in Nat, d * p <= x PROVE p <= q
  <2> SUFFICES ASSUME q + 1 <= p PROVE FALSE
    BY <1>2
  <2>1. d * (q + 1) <= d * p /\ d * p \in Nat /\ d * (q + 1) = d * q + d
    BY <1>2, Multiply
  <2>2. QED  BY <1>1, <1>3, <1>5, <2>1
<1>6. QED  BY <1>2, <1>4, <1>5 DEF q

\* The addresses that a list may be made of.
Valid(A) ==
    /\ \A a \in A : a.weight \in Nat /\ a # NoAddress
    /\ \A a \in A : \A k \in 0..Word, x \in 0..(PointsPerHash - 1) :
          Hash(a.name, k, x) \in 0..MaxPoint

\* When some address has a weight, the shares are what exact division makes them.
LEMMA Shares ==
    ASSUME NEW A, Valid(A), NEW s \in Seq(A), s # <<>>, Fits(s), TotalWeight(s) > 0
    PROVE  /\ Len(s) * PointsPerServer \in 1..(Word - 1)
           /\ MaxPoints(s) = Len(s) * PointsPerServer
           /\ \A algo : ~Panics(algo, s)
           /\ \A i \in 1..Len(s) : /\ Points(s, i) \in Nat /\ Points(s, i) <= Word
                                   /\ Points(s, i) > 0 => s[i].weight > 0
           /\ \E i \in 1..Len(s) : Points(s, i) >= PointsPerServer
<1> DEFINE n == Len(s)
           P == PointsPerServer
           t == TotalWeight(s)
<1>1. n \in Nat \ {0} /\ P \in Nat \ {0} /\ Word \in Nat \ {0}
  BY BalancingAssumption
<1>2. PICK m \in 1..n :
             /\ \A i \in 1..n : s[i].weight <= s[m].weight
             /\ t \in Nat /\ t < Word /\ s[m].weight <= t /\ t <= n * s[m].weight
             /\ s[m].weight # 0 => n * P < Word
  BY TotalFits DEF Valid
<1>3. \A i \in 1..n : s[i].weight \in Nat
  <2>1. \A i \in 1..n : s[i] \in A
    OBVIOUS
  <2>2. QED  BY <2>1 DEF Valid
<1>4. t > 0
  OBVIOUS
<1>5. \A i \in 1..n : s[i].weight * (n * P) < Word
  BY DEF Fits
<1>6. MaxPoints(s) = (n * P) % Word
  BY DEF MaxPoints
<1>7. \A i \in 1..n : Points(s, i) = ((s[i].weight * MaxPoints(s)) % Word) \div (t % Word)
  BY DEF Points
<1>8. \A algo : Panics(algo, s) => t % Word = 0
  BY DEF Panics
<1> HIDE DEF n, P, t
<1> DEFINE w == s[m].weight
<1>9. w \in Nat \ {0}
  BY <1>1, <1>2, <1>3, <1>4
<1>10. n * P < Word /\ n * P \in Nat \ {0}
  BY <1>1, <1>2, <1>9
<1>11. t % Word = t /\ MaxPoints(s) = n * P
  BY <1>1, <1>2, <1>6, <1>10, SmallRest
<1>12. ASSUME NEW i \in 1..n
       PROVE  /\ s[i].weight * (n * P) \in Nat
              /\ Points(s, i) = (s[i].weight * (n * P)) \div t
  <2>1. s[i].weight * (n * P) \in Nat
    BY <1>3, <1>10, Multiply
  <2>2. (s[i].weight * (n * P)) % Word = s[i].weight * (n * P)
    BY <1>1, <1>5, <2>1, SmallRest
  <2>3. QED  BY <1>7, <1>11, <2>1, <2>2
<1>13. ASSUME NEW i \in 1..n
       PROVE  /\ Points(s, i) \in Nat /\ Points(s, i) <= Word
              /\ Points(s, i) > 0 => s[i].weight > 0
  <2> DEFINE x == s[i].weight * (n * P)
  <2>1. x \in Nat /\ x < Word /\ Points(s, i) = x \div t
    BY <1>5, <1>12
  <2>2. s[i].weight = 0 => x = 0
    BY <1>10
  <2> HIDE DEF x
  <2>3. x \div t \in Nat /\ x \div t <= x
    BY <1>2, <1>4, <2>1, QuotientBounds
  <2>4. s[i].weight \in Nat
    BY <1>3
  <2>5. QED  BY <1>1, <2>1, <2>2, <2>3, <2>4
<1>14. Points(s, m) >= P
  <2>1. t * P <= w * (n * P)
    <3>1. P * t <= P * (n * w)
      <4>1. n * w \in Nat /\ t <= n * w
        BY <1>1, <1>2, <1>9
      <4>2. QED  BY <1>1, <1>2, <4>1, Multiply
    <3>2. P * t = t * P /\ P * (n * w) = w * (n * P)
      BY <1>1, <1>2, <1>9
    <3>3. QED  BY <3>1, <3>2
  <2>2. w * (n * P) \in Nat /\ Points(s, m) = (w * (n * P)) \div t
    BY <1>12
  <2>3. P <= (w * (n * P)) \div t
    BY <1>1, <1>2, <1>4, <2>1, <2>2, QuotientBounds
  <2>4. (w * (n * P)) \div t \in Nat
    BY <1>2, <1>4, <2>2, QuotientBounds
  <2>5. QED  BY <1>1, <2>2, <2>3, <2>4
<1>15. \A algo : ~Panics(algo, s)
  BY <1>4, <1>8, <1>11
<1>16. n * P \in 1..(Word - 1)
  BY <1>1, <1>10
<1>17. \E i \in 1..n : Points(s, i) >= P
  BY <1>14
<1>18. QED  BY <1>11, <1>13, <1>15, <1>16, <1>17 DEF n, P

\* What is found on a ring is the address of one of its points.
LEMMA OwnersAre ==
    ASSUME NEW R, R # {}, \A p \in R : p.point \in 0..MaxPoint, NEW at \in Nat,
           NEW found, found = KetamaGet(R, at) \/ found = LegacyKetamaGet(R, at)
    PROVE  found # {} /\ \A a \in found : \E p \in R : p.address = a
<1> DEFINE below == {p \in PointsIn(R) : p < at}
           notLess == {p \in PointsIn(R) : p >= at}
           ketama == Max(IF below # {} THEN below ELSE PointsIn(R))
           legacy == IF notLess # {} THEN Min(notLess) ELSE Max(PointsIn(R))
<1>1. KetamaGet(R, at) = Owners(R, ketama) /\ LegacyKetamaGet(R, at) = Owners(R, legacy)
  BY DEF KetamaGet, LegacyKetamaGet
<1>2. PointsIn(R) \in SUBSET (0..MaxPoint) /\ PointsIn(R) # {} /\ MaxPoint \in Nat
  BY RoutingAssumption DEF PointsIn
<1>3. below \in SUBSET PointsIn(R) /\ notLess \in SUBSET PointsIn(R)
  OBVIOUS
<1>4. ketama \in PointsIn(R)
  <2> DEFINE S == IF below # {} THEN below ELSE PointsIn(R)
  <2>1. S \in SUBSET (0..MaxPoint) /\ S # {} /\ S \in SUBSET PointsIn(R)
    BY <1>2
  <2> HIDE DEF S
  <2>2. Max(S) \in S
    BY <1>2, <2>1, MaxIsLargest
  <2>3. Max(S) \in PointsIn(R)
    BY <2>1, <2>2
  <2>4. QED  BY <2>3 DEF S
<1>5. legacy \in PointsIn(R)
  <2>1. Max(PointsIn(R)) \in PointsIn(R)
    BY <1>2, MaxIsLargest
  <2>2. notLess \in SUBSET Nat
    BY <1>2
  <2> HIDE DEF notLess
  <2>3. notLess # {} => Min(notLess) \in notLess
    BY <2>2, MinIsLeast
  <2>4. QED  BY <1>3, <2>1, <2>3
<1> HIDE DEF ketama, legacy
<1>6. \A x \in PointsIn(R) : Owners(R, x) # {}
  BY DEF Owners, PointsIn
<1>7. \A x : \A a \in Owners(R, x) : \E p \in R : p.address = a
  BY DEF Owners
<1>8. QED  BY <1>1, <1>4, <1>5, <1>6, <1>7

\* A server of a list that is found, of some weight where the algorithm drains.
Serves(s, found, drains) ==
    found # {} /\ \A a \in found : a \in Range(s) /\ (drains => a.weight > 0)

\* A ring that takes n[i] points of the i-th address
LEMMA RingServes ==
    ASSUME NEW A, Valid(A), NEW s \in Seq(A), NEW n \in [1..Len(s) -> 0..Word],
           NEW R, R = UNION {PointsOn(s[i], n[i]) : i \in 1..Len(s)},
           \E i \in 1..Len(s) : n[i] > 0,
           NEW drains \in BOOLEAN, drains => \A i \in 1..Len(s) : n[i] > 0 => s[i].weight > 0,
           NEW at \in Nat, NEW found, found = KetamaGet(R, at) \/ found = LegacyKetamaGet(R, at)
    PROVE  Serves(s, found, drains)
<1>0. Word \in Nat
  BY BalancingAssumption
<1>1. \A i \in 1..Len(s) : s[i] \in A /\ n[i] \in Nat /\ n[i] <= Word
  BY <1>0
<1>2. R # {}
  <2>1. PICK i \in 1..Len(s) : n[i] > 0
    OBVIOUS
  <2>2. n[i] \in Nat \ {0}
    BY <1>1, <2>1
  <2>3. PointsOn(s[i], n[i]) # {}
    BY <2>2, SomePoints
  <2>4. QED  BY <2>3
<1>3. ASSUME NEW p \in R
      PROVE  p.point \in 0..MaxPoint
             /\ \E i \in 1..Len(s) : n[i] > 0 /\ p.address = s[i]
  <2>1. PICK i \in 1..Len(s) : p \in PointsOn(s[i], n[i])
    OBVIOUS
  <2>2. p.point \in 0..MaxPoint
    <3>1. \A k \in 0..Word, x \in 0..(PointsPerHash - 1) : Hash(s[i].name, k, x) \in 0..MaxPoint
      BY <1>1 DEF Valid
    <3>2. QED  BY <1>1, <2>1, <3>1, PointsWhere
  <2>3. n[i] > 0
    <3>1. n[i] = 0 => PointsOn(s[i], n[i]) = {}
      BY DEF PointsOn
    <3>2. QED  BY <1>1, <2>1, <3>1
  <2>4. p.address = s[i]
    <3>1. n[i] \in Nat \ {0}
      BY <1>1, <2>3
    <3>2. QED  BY <2>1, <3>1, SomePoints
  <2>5. QED  BY <2>2, <2>3, <2>4
<1>4. found # {} /\ \A a \in found : \E p \in R : p.address = a
  <2>1. \A p \in R : p.point \in 0..MaxPoint
    BY <1>3
  <2>2. at \in Nat /\ (found = KetamaGet(R, at) \/ found = LegacyKetamaGet(R, at))
    OBVIOUS
  <2>3. QED  BY ONLY <1>2, <2>1, <2>2, OwnersAre
<1>5. \A a \in found : \E i \in 1..Len(s) : n[i] > 0 /\ a = s[i]
  BY <1>3, <1>4
<1>6. \A i \in 1..Len(s) : s[i] \in Range(s)
  BY DEF Range
<1>7. QED  BY <1>4, <1>5, <1>6 DEF Serves

LEMMA KetamaServes ==
    ASSUME NEW A, Valid(A), NEW s \in Seq(A), s # <<>>, Fits(s), TotalWeight(s) > 0,
           NEW at \in Nat
    PROVE  Serves(s, KetamaGet(RingOf("ketama", s), at), TRUE)
<1> DEFINE n == [i \in 1..Len(s) |-> PointsPerHash * (Points(s, i) \div PointsPerHash)]
           R == RingOf("ketama", s)
<1>1. PointsPerHash \in Nat \ {0} /\ PointsPerServer \in Nat
      /\ PointsPerServer >= PointsPerHash /\ Word \in Nat
  BY BalancingAssumption
<1>2. /\ \A i \in 1..Len(s) : /\ Points(s, i) \in Nat /\ Points(s, i) <= Word
                              /\ Points(s, i) > 0 => s[i].weight > 0
      /\ \E i \in 1..Len(s) : Points(s, i) >= PointsPerServer
      /\ ~Panics("ketama", s)
  BY Shares
<1>3. R = UNION {PointsOn(s[i], n[i]) : i \in 1..Len(s)}
  <2>1. R = Ring(s)
    BY <1>2 DEF RingOf
  <2>2. DOMAIN s = 1..Len(s)
    OBVIOUS
  <2>3. QED  BY <2>1, <2>2 DEF Ring
<1>4. ASSUME NEW i \in 1..Len(s)
      PROVE  /\ n[i] \in 0..Word
             /\ n[i] > 0 => s[i].weight > 0
             /\ Points(s, i) >= PointsPerHash => n[i] > 0
  <2> DEFINE x == Points(s, i)
             q == x \div PointsPerHash
  <2>1. x \in Nat /\ x <= Word /\ (x > 0 => s[i].weight > 0)
    BY <1>2
  <2>2. n[i] = PointsPerHash * q
    OBVIOUS
  <2> HIDE DEF n, x
  <2>3. q \in Nat /\ PointsPerHash * q <= x /\ \A y \in Nat : PointsPerHash * y <= x => y <= q
    BY <1>1, <2>1, QuotientBounds
  <2>4. PointsPerHash <= x => 1 <= q
    BY <1>1, <2>3
  <2> HIDE DEF q
  <2>5. PointsPerHash * q \in Nat /\ (1 <= q => PointsPerHash * q > 0)
    <3>1. PointsPerHash * q \in Nat /\ q <= PointsPerHash * q
      BY <1>1, <2>3, Multiply
    <3>2. QED  BY <2>3, <3>1
  <2>6. QED  BY <1>1, <2>1, <2>2, <2>3, <2>4, <2>5 DEF x
<1>5. n \in [1..Len(s) -> 0..Word]
  BY <1>4
<1>6. \E i \in 1..Len(s) : n[i] > 0
  <2>1. PICK i \in 1..Len(s) : Points(s, i) >= PointsPerServer
    BY <1>2
  <2>2. Points(s, i) >= PointsPerHash
    <3>1. Points(s, i) \in Nat
      BY <1>2
    <3>2. QED  BY <1>1, <2>1, <3>1
  <2>3. QED  BY <1>4, <2>2
<1>7. \A i \in 1..Len(s) : n[i] > 0 => s[i].weight > 0
  BY <1>4
<1> HIDE DEF n, R
<1>8. Serves(s, KetamaGet(R, at), TRUE)
  BY <1>3, <1>5, <1>6, <1>7, RingServes
<1>9. QED  BY <1>8 DEF R

\* The points that the legacy ring takes of the i-th address
Rounded(s) == [i \in DOMAIN s |-> (Points(s, i) + PointsPerHash) - (Points(s, i) % PointsPerHash)]
Room(s, i) == Max({0, MaxPoints(s) - SumOf(SubSeq(Rounded(s), 1, i - 1))})

LEMMA TwoNumbers ==
    ASSUME NEW x \in Nat, NEW y \in Nat
    PROVE  /\ Max({x, y}) = IF x <= y THEN y ELSE x
           /\ Min({x, y}) = IF x <= y THEN x ELSE y
<1>1. {x, y} \in SUBSET Nat
  OBVIOUS
<1>2. CASE x <= y
  <2>1. {x, y} \in SUBSET (0..y) /\ y \in {x, y} /\ \A z \in {x, y} : y >= z
    BY <1>2
  <2>2. Max({x, y}) = y
    BY <2>1, MaxIs
  <2>3. Min({x, y}) = x
    BY <1>1, <1>2, MinIs
  <2>4. QED  BY <1>2, <2>2, <2>3
<1>3. CASE ~(x <= y)
  <2>1. {x, y} \in SUBSET (0..x) /\ x \in {x, y} /\ \A z \in {x, y} : x >= z
    BY <1>3
  <2>2. Max({x, y}) = x
    BY <2>1, MaxIs
  <2>3. Min({x, y}) = y
    BY <1>1, <1>3, MinIs
  <2>4. QED  BY <1>3, <2>2, <2>3
<1>4. QED  BY <1>2, <1>3

\* The sum of the first numbers
LEMMA SumOfFirst ==
    ASSUME NEW n \in Nat, NEW t \in [1..n -> Nat], NEW g, Running(g, t, n), NEW i \in 0..n
    PROVE  SumOf(SubSeq(t, 1, i)) = g[i]
<1> DEFINE u == SubSeq(t, 1, i)
<1>1. u \in [1..i -> Nat] /\ \A k \in 1..i : u[k] = t[k]
  <2>1. u = [k \in 1..i |-> t[k]]
    OBVIOUS
  <2>2. \A k \in 1..i : k \in 1..n
    OBVIOUS
  <2> HIDE DEF u
  <2>3. QED  BY <2>1, <2>2
<1>2. i \in Nat /\ i <= n
  OBVIOUS
<1> HIDE DEF u
<1>3. PICK h : Running(h, u, i) /\ SumOf(u) = h[i]
  BY <1>1, <1>2, SumIsRunning
<1>4. \A k \in 1..i : t[k] = u[k]
  BY <1>1
<1>5. \A k \in 0..i : h[k] = g[k]
  BY <1>2, <1>3, <1>4, RunningAgree
<1>6. QED  BY <1>2, <1>3, <1>5 DEF u

LEMMA LegacyServes ==
    ASSUME NEW A, Valid(A), NEW s \in Seq(A), s # <<>>, Fits(s), TotalWeight(s) > 0,
           NEW at \in Nat
    PROVE  Serves(s, LegacyKetamaGet(RingOf("legacyketama", s), at), FALSE)
<1> DEFINE n == [i \in 1..Len(s) |-> Min({Rounded(s)[i], Room(s, i)})]
           R == RingOf("legacyketama", s)
           l == Len(s)
           M == MaxPoints(s)
           W == Rounded(s)
<1>1. PointsPerHash \in Nat \ {0} /\ Word \in Nat \ {0} /\ l \in Nat \ {0} /\ DOMAIN s = 1..l
  BY BalancingAssumption
<1>2. /\ \A i \in 1..l : Points(s, i) \in Nat
      /\ M \in Nat \ {0} /\ M <= Word
      /\ ~Panics("legacyketama", s)
  <2>1. l * PointsPerServer \in 1..(Word - 1) /\ M = l * PointsPerServer
    BY Shares
  <2>2. QED  BY <1>1, <2>1, Shares
<1>3. R = UNION {PointsOn(s[i], n[i]) : i \in 1..l}
  <2>1. R = LegacyRing(s)
    BY <1>2 DEF RingOf
  <2>2. LegacyRing(s) = UNION {PointsOn(s[i], Min({Rounded(s)[i], Room(s, i)})) : i \in DOMAIN s}
    BY DEF LegacyRing, Rounded, Room
  <2>3. QED  BY <1>1, <2>1, <2>2
<1>4. W \in [1..l -> Nat] /\ \A i \in 1..l : W[i] > 0
  <2>1. ASSUME NEW i \in 1..l
        PROVE  LET x == Points(s, i) IN (x + PointsPerHash) - (x % PointsPerHash) \in Nat \ {0}
    <3> DEFINE x == Points(s, i)
    <3>1. x \in Nat
      BY <1>2
    <3> HIDE DEF x
    <3>2. x % PointsPerHash \in 0..(PointsPerHash - 1)
      BY <1>1, <3>1
    <3>3. (x + PointsPerHash) - (x % PointsPerHash) \in Nat \ {0}
      BY <1>1, <3>1, <3>2
    <3>4. QED  BY <3>3 DEF x
  <2>2. QED  BY <1>1, <2>1 DEF Rounded
<1> HIDE DEF W, M, R
<1>5. PICK g : Running(g, W, l) /\ SumOf(W) = g[l]
  BY <1>1, <1>4, SumIsRunning
<1>6. ASSUME NEW i \in 1..l
      PROVE  Room(s, i) \in 0..M /\ (i = 1 => Room(s, i) = M)
  <2>1. i - 1 \in 0..l
    BY <1>1
  <2>2. SumOf(SubSeq(W, 1, i - 1)) = g[i - 1]
    BY <1>1, <1>4, <1>5, <2>1, SumOfFirst
  <2>3. Room(s, i) = Max({0, M - g[i - 1]})
    BY <2>2 DEF Room, W, M
  <2>4. g[i - 1] \in Nat /\ (i = 1 => g[i - 1] = 0)
    BY <1>5, <2>1 DEF Running
  <2>5. CASE M - g[i - 1] >= 0
    <3> DEFINE y == M - g[i - 1]
    <3>1. y \in Nat /\ y <= M /\ (i = 1 => y = M)
      BY <1>2, <2>4, <2>5
    <3> HIDE DEF y
    <3>2. Max({0, y}) = y
      BY <3>1, TwoNumbers
    <3>3. QED  BY <1>2, <2>3, <3>1, <3>2 DEF y
  <2>6. CASE M - g[i - 1] < 0
    <3> DEFINE y == M - g[i - 1]
    <3>1. y \in Int /\ y < 0
      BY <1>2, <2>4, <2>6
    <3> HIDE DEF y
    <3>2. Max({0, y}) = 0
      <4>1. \A x \in {0, y} : (\A z \in {0, y} : x >= z) <=> x = 0
        BY <3>1
      <4>2. QED  BY <4>1 DEF Max
    <3>3. QED  BY <1>2, <2>3, <2>4, <3>1, <3>2 DEF y
  <2>7. QED  BY <1>2, <2>4, <2>5, <2>6
<1>7. ASSUME NEW i \in 1..l
      PROVE  n[i] \in 0..Word /\ (i = 1 => n[i] > 0)
  <2>1. W[i] \in Nat /\ W[i] > 0 /\ Room(s, i) \in Nat /\ Room(s, i) <= M
        /\ (i = 1 => Room(s, i) = M)
    BY <1>2, <1>4, <1>6
  <2>2. n[i] = IF W[i] <= Room(s, i) THEN W[i] ELSE Room(s, i)
    <3>1. n[i] = Min({W[i], Room(s, i)})
      BY DEF W
    <3>2. QED  BY <2>1, <3>1, TwoNumbers
  <2>3. QED  BY <1>1, <1>2, <2>1, <2>2
<1>8. n \in [1..l -> 0..Word]
  BY <1>7
<1>9. \E i \in 1..l : n[i] > 0
  <2>1. 1 \in 1..l
    BY <1>1
  <2>2. QED  BY <1>7, <2>1
<1> HIDE DEF n
<1>10. Serves(s, LegacyKetamaGet(R, at), FALSE)
  BY <1>3, <1>8, <1>9, RingServes
<1>11. QED  BY <1>10 DEF R

\* An order by weight, downwards: the rank of a position is the number of those before it.
LEMMA OrderExists ==
    ASSUME NEW n \in Nat, NEW w \in [1..n -> Nat]
    PROVE  \E p \in Bijection(1..n, 1..n) : \A i, j \in 1..n : i < j => w[p[i]] >= w[p[j]]
<1> DEFINE D == 1..n
           Ahead(j, i) == w[j] > w[i] \/ (w[j] = w[i] /\ j < i)
           First(i) == {j \in D : Ahead(j, i)}
           rank == [i \in D |-> Cardinality(First(i)) + 1]
<1>1. \A i \in D : i \in Nat /\ w[i] \in Nat
  OBVIOUS
<1>2. ASSUME NEW i \in D
      PROVE  IsFiniteSet(First(i)) /\ Cardinality(First(i)) \in Nat /\ rank[i] \in D
  <2>1. First(i) \in SUBSET D
    OBVIOUS
  <2>2. i \notin First(i)
    BY <1>1
  <2> HIDE DEF First
  <2>3. IsFiniteSet(First(i)) /\ Cardinality(First(i)) \in Nat
    BY <2>1, FiniteUpTo
  <2>4. IsFiniteSet(D) /\ Cardinality(D) = n
    <3>1. IsFiniteSet(D) /\ Cardinality(D) = IF 1 > n THEN 0 ELSE n - 1 + 1
      BY FS_Interval
    <3>2. QED  BY <3>1
  <2>5. First(i) # D
    BY <2>2
  <2>6. Cardinality(First(i)) # Cardinality(D) /\ Cardinality(First(i)) <= Cardinality(D)
    <3>1. \A T \in SUBSET D : Cardinality(T) <= Cardinality(D)
                              /\ (Cardinality(D) = Cardinality(T) => D = T)
      BY ONLY <2>4, FS_Subset
    <3>2. QED  BY <2>1, <2>5, <3>1
  <2>7. Cardinality(First(i)) + 1 \in D
    BY <2>3, <2>4, <2>6
  <2>8. QED  BY <2>3, <2>7
<1>3. ASSUME NEW i \in D, NEW j \in D, Ahead(i, j)
      PROVE  rank[i] < rank[j]
  <2>1. First(i) \in SUBSET First(j) /\ i \in First(j) /\ i \notin First(i)
    BY <1>1, <1>3
  <2>2. IsFiniteSet(First(j)) /\ Cardinality(First(i)) \in Nat /\ Cardinality(First(j)) \in Nat
    BY <1>2
  <2>3. rank[i] = Cardinality(First(i)) + 1 /\ rank[j] = Cardinality(First(j)) + 1
    OBVIOUS
  <2> HIDE DEF First, Ahead, rank
  <2>4. First(i) # First(j)
    BY <2>1
  <2>5. \A T \in SUBSET First(j) : Cardinality(T) <= Cardinality(First(j))
                                   /\ (Cardinality(First(j)) = Cardinality(T) => First(j) = T)
    BY ONLY <2>2, FS_Subset
  <2>6. QED  BY <2>1, <2>2, <2>3, <2>4, <2>5
<1>4. \A i, j \in D : i = j \/ Ahead(i, j) \/ Ahead(j, i)
  BY <1>1
<1> HIDE DEF First
<1>5. rank \in [D -> D]
  BY <1>2
<1>6. \A i, j \in D : rank[i] = rank[j] => i = j
  <2>1. \A i \in D : rank[i] \in Nat
    BY <1>5
  <2> HIDE DEF Ahead, rank
  <2>2. QED  BY <1>3, <1>4, <2>1
<1> HIDE DEF rank
<1>7. \A k \in D : \E i \in D : rank[i] = k
  <2>1. rank \in Injection(D, D)
    BY <1>5, <1>6 DEF Injection, IsInjective
  <2>2. IsFiniteSet(D)
    BY FS_Interval
  <2>3. rank \in Surjection(D, D)
    BY <2>1, <2>2, FS_Injection
  <2>4. QED  BY <2>3 DEF Surjection
<1> DEFINE p == [k \in D |-> CHOOSE i \in D : rank[i] = k]
<1>8. \A k \in D : p[k] \in D /\ rank[p[k]] = k
  BY <1>7
<1>9. p \in Bijection(D, D)
  <2>1. p \in [D -> D]
    BY <1>8
  <2>2. \A a, b \in D : p[a] = p[b] => a = b
    BY <1>8
  <2>3. \A t \in D : \E k \in D : p[k] = t
    <3> SUFFICES ASSUME NEW t \in D PROVE \E k \in D : p[k] = t
      OBVIOUS
    <3>1. rank[t] \in D
      BY <1>5
    <3>2. p[rank[t]] = t
      BY <1>6, <1>8, <3>1
    <3>3. QED  BY <3>1, <3>2
  <2> HIDE DEF p
  <2>4. QED  BY <2>1, <2>2, <2>3 DEF Bijection, Injection, Surjection, IsInjective
<1> HIDE DEF p
<1>10. ASSUME NEW i \in D, NEW j \in D, i < j
       PROVE  w[p[i]] >= w[p[j]]
  <2>1. p[i] \in D /\ p[j] \in D /\ rank[p[i]] = i /\ rank[p[j]] = j
    BY <1>8
  <2>2. w[p[i]] \in Nat /\ w[p[j]] \in Nat
    BY <2>1
  <2>3. w[p[j]] > w[p[i]] => rank[p[j]] < rank[p[i]]
    BY <1>3, <2>1
  <2>4. QED  BY <1>1, <1>10, <2>1, <2>2, <2>3
<1>11. QED  BY <1>9, <1>10

\* What RandomGet has in its order is a list of the same addresses.
LEMMA SortedIs ==
    ASSUME NEW A, NEW s \in Seq(A), \A a \in A : a.weight \in Nat
    PROVE  LET t == [i \in DOMAIN s |-> s[Order(s)[i]]]
           IN  /\ t \in Seq(A) /\ Len(t) = Len(s) /\ DOMAIN t = 1..Len(s)
               /\ \A i \in 1..Len(s) : \E j \in 1..Len(s) : t[i] = s[j]
               /\ \A j \in 1..Len(s) : \E i \in 1..Len(s) : t[i] = s[j]
<1> DEFINE n == Len(s)
           w == [i \in 1..n |-> s[i].weight]
           p == Order(s)
           t == [i \in DOMAIN s |-> s[p[i]]]
<1>1. n \in Nat /\ DOMAIN s = 1..n /\ w \in [1..n -> Nat]
  OBVIOUS
<1>2. p = CHOOSE q \in Bijection(1..n, 1..n) :
             \A i, j \in 1..n : i < j => s[q[i]].weight >= s[q[j]].weight
  BY <1>1 DEF Order
<1>3. \E q \in Bijection(1..n, 1..n) :
             \A i, j \in 1..n : i < j => s[q[i]].weight >= s[q[j]].weight
  <2>1. PICK q \in Bijection(1..n, 1..n) : \A i, j \in 1..n : i < j => w[q[i]] >= w[q[j]]
    <3> HIDE DEF w, n
    <3>1. QED  BY <1>1, OrderExists
  <2>2. \A i \in 1..n : q[i] \in 1..n
    BY DEF Bijection, Injection
  <2>3. QED  BY <2>1, <2>2
<1>4. p \in Bijection(1..n, 1..n)
  BY <1>2, <1>3
<1> HIDE DEF p
<1>5. p \in [1..n -> 1..n] /\ \A j \in 1..n : \E i \in 1..n : p[i] = j
  BY <1>4 DEF Bijection, Injection, Surjection
<1>6. t \in [1..n -> A] /\ \A i \in 1..n : t[i] = s[p[i]]
  BY <1>1, <1>5
<1> HIDE DEF t
<1>7. t \in Seq(A) /\ Len(t) = n /\ DOMAIN t = 1..n
  BY <1>1, <1>6
<1>8. /\ \A i \in 1..n : \E j \in 1..n : t[i] = s[j]
      /\ \A j \in 1..n : \E i \in 1..n : t[i] = s[j]
  <2>1. \A i \in 1..n : p[i] \in 1..n /\ t[i] = s[p[i]]
    BY <1>5, <1>6
  <2>2. ASSUME NEW j \in 1..n PROVE \E i \in 1..n : t[i] = s[j]
    <3>1. PICK i \in 1..n : p[i] = j
      BY <1>5
    <3>2. QED  BY <2>1, <3>1
  <2>3. QED  BY <2>1, <2>2
<1>9. QED  BY <1>7, <1>8 DEF t, p

LEMMA RandomServes ==
    ASSUME NEW A, Valid(A), NEW s \in Seq(A), s # <<>>, Fits(s), TotalWeight(s) > 0
    PROVE  Serves(s, RandomGet(s), TRUE)
<1> DEFINE n == Len(s)
           t == [i \in DOMAIN s |-> s[Order(s)[i]]]
           T == TotalWeight(t)
           W == Weights(t)
           reached == [i \in DOMAIN s |-> SumOf(SubSeq(W, 1, i)) % Word]
           Hit(chosen) == {i \in DOMAIN s : Reached(chosen % Word, reached[i])}
           Chosen(chosen) == IF Hit(chosen) = {} THEN NoAddress ELSE t[Min(Hit(chosen))]
<1>1. RandomGet(s) = IF T <= 0 THEN {NoAddress} ELSE {Chosen(chosen) : chosen \in 0..T - 1}
  BY DEF RandomGet
<1>2. /\ t \in Seq(A) /\ Len(t) = n /\ DOMAIN t = 1..n
      /\ \A i \in 1..n : \E j \in 1..n : t[i] = s[j]
      /\ \A j \in 1..n : \E i \in 1..n : t[i] = s[j]
  BY SortedIs DEF Valid
<1> HIDE DEF t
<1>3. n \in Nat \ {0} /\ DOMAIN s = 1..n /\ Word \in Nat \ {0}
  BY BalancingAssumption
<1>4. \A i \in 1..n : t[i].weight \in Nat /\ s[i].weight \in Nat /\ t[i] \in A
  <2>1. \A i \in 1..n : t[i] \in A /\ s[i] \in A
    BY <1>2, <1>3
  <2>2. QED  BY <2>1 DEF Valid
<1>5. T \in Nat \ {0} /\ T < Word
  <2>1. t # <<>>
    BY <1>2, <1>3
  <2>2. Fits(t)
    <3> SUFFICES ASSUME NEW i \in 1..n PROVE t[i].weight * (n * PointsPerServer) < Word
      BY <1>2 DEF Fits
    <3>1. PICK j \in 1..n : t[i] = s[j]
      BY <1>2
    <3>2. QED  BY <3>1 DEF Fits
  <2>3. PICK m \in 1..n : /\ \A i \in 1..n : t[i].weight <= t[m].weight
                          /\ T \in Nat /\ T < Word /\ t[m].weight <= T
    BY <1>2, <2>1, <2>2, TotalFits DEF Valid
  <2>4. PICK k \in 1..n : s[k].weight > 0
    <3>1. PICK k \in 1..n : TotalWeight(s) \in Nat /\ TotalWeight(s) <= n * s[k].weight
      BY TotalFits DEF Valid
    <3>2. s[k].weight # 0
      BY <1>3, <3>1
    <3>3. QED  BY <1>4, <3>2
  <2>5. PICK i \in 1..n : t[i] = s[k]
    BY <1>2
  <2>6. t[i].weight > 0 /\ t[i].weight <= t[m].weight
    BY <2>3, <2>4, <2>5
  <2>7. t[i].weight \in Nat /\ t[m].weight \in Nat
    BY <1>4
  <2>8. QED  BY <2>3, <2>6, <2>7
<1>6. W \in [1..n -> Nat] /\ \A i \in 1..n : W[i] = t[i].weight
  BY <1>2, <1>4 DEF Weights
<1>7. T = SumOf(W)
  BY DEF TotalWeight
<1> HIDE DEF W, T, n
<1>8. PICK g : Running(g, W, n) /\ T = g[n]
  BY <1>3, <1>6, <1>7, SumIsRunning
<1>9. /\ \A i \in 0..n : g[i] \in Nat
      /\ \A i \in 1..n : g[i] = g[i - 1] + t[i].weight
  BY <1>6, <1>8 DEF Running
<1>10. \A i \in 1..n : reached[i] = g[i]
  <2> SUFFICES ASSUME NEW i \in 1..n PROVE reached[i] = g[i]
    OBVIOUS
  <2>1. i \in 0..n /\ n \in Nat
    BY <1>3
  <2>2. SumOf(SubSeq(W, 1, i)) = g[i]
    BY <1>6, <1>8, <2>1, SumOfFirst
  <2>3. g[i] \in Nat /\ g[i] <= g[n]
    BY <1>6, <1>8, <1>9, <2>1, RunningGrows
  <2>4. g[i] % Word = g[i]
    BY <1>3, <1>5, <1>8, <2>3, SmallRest
  <2>5. QED  BY <1>3, <2>2, <2>4
<1> HIDE DEF reached
<1>11. ASSUME NEW chosen \in 0..T - 1
       PROVE  \E i \in 1..n : Chosen(chosen) = t[i] /\ t[i].weight > 0
  <2>1. chosen \in Nat /\ chosen < T /\ chosen % Word = chosen
    <3>1. chosen \in Nat /\ chosen < T /\ chosen < Word
      BY <1>3, <1>5
    <3>2. QED  BY <1>3, <3>1, SmallRest
  <2>2. Hit(chosen) = {i \in 1..n : chosen < g[i]}
    BY <1>3, <1>10, <2>1 DEF Reached
  <2> HIDE DEF Hit
  <2>3. n \in Hit(chosen)
    BY <1>3, <1>8, <2>1, <2>2
  <2> DEFINE i == Min(Hit(chosen))
  <2>4. i \in Hit(chosen) /\ \A j \in Hit(chosen) : i <= j
    <3>1. Hit(chosen) \in SUBSET Nat /\ Hit(chosen) # {}
      BY <2>2, <2>3
    <3>2. QED  BY <3>1, MinIsLeast
  <2>5. Chosen(chosen) = t[i]
    BY <2>3
  <2> HIDE DEF i
  <2>6. i \in 1..n /\ chosen < g[i]
    BY <2>2, <2>4
  <2>7. g[i - 1] <= chosen
    <3>1. CASE i = 1
      BY <1>8, <2>1, <3>1 DEF Running
    <3>2. CASE i # 1
      <4>1. i - 1 \in 1..n /\ i - 1 < i
        BY <1>3, <2>6, <3>2
      <4>2. i - 1 \notin Hit(chosen)
        BY <2>4, <2>6, <4>1
      <4>3. g[i - 1] \in Nat
        BY <1>9, <4>1
      <4>4. QED  BY <2>1, <2>2, <4>1, <4>2, <4>3
    <3>3. QED  BY <3>1, <3>2
  <2>8. g[i] = g[i - 1] + t[i].weight /\ g[i] \in Nat /\ g[i - 1] \in Nat /\ t[i].weight \in Nat
    <3>1. i \in 0..n /\ i - 1 \in 0..n
      BY <1>3, <2>6
    <3>2. QED  BY <1>4, <1>9, <2>6, <3>1
  <2>9. t[i].weight > 0
    BY <2>1, <2>6, <2>7, <2>8
  <2>10. QED  BY <2>5, <2>6, <2>9
<1> HIDE DEF Chosen
<1>12. RandomGet(s) = {Chosen(chosen) : chosen \in 0..T - 1} /\ 0 \in 0..T - 1
  BY <1>1, <1>5
<1>13. \A i \in 1..n : t[i] \in Range(s)
  BY <1>2, <1>3 DEF Range
<1>14. QED  BY <1>11, <1>12, <1>13 DEF Serves

\* When the first address has a weight, one with a score is found, unless none has.
LEMMA RendezvousServes ==
    ASSUME NEW A, Valid(A), NEW s \in Seq(A), s # <<>>, s[1].weight > 0, NEW at \in Nat,
           \A a \in A : Score(a.name, at) \in Nat
    PROVE  /\ RendezvousGet(s, at) # {} /\ RendezvousGet(s, at) \subseteq Range(s) \cup {NoAddress}
           /\ NoAddress \in RendezvousGet(s, at) =>
                \A i \in 1..Len(s) : Score(s[i].name, at) = 0
<1> DEFINE score == [i \in DOMAIN s |-> Score(s[i].name, at)]
           found == {i \in Scored(s) : score[i] > 0}
           best == {i \in found : \A j \in found : score[j] <= score[i]}
           n == Len(s)
<1>1. RendezvousGet(s, at) = IF found = {} THEN {NoAddress}
                             ELSE IF EqualWeights(s) THEN {s[Min(best)]}
                             ELSE {s[i] : i \in found}
  BY DEF RendezvousGet
<1>2. n \in Nat \ {0} /\ DOMAIN s = 1..n /\ score \in [1..n -> Nat] /\ Scored(s) = 1..n
  BY DEF Scored
<1>3. found = {} => \A i \in 1..n : score[i] = 0
  <2> HIDE DEF score
  <2>1. \A j \in 1..n : score[j] \in Nat
    BY <1>2
  <2>2. QED  BY <1>2, <2>1
<1>8. found # {} => best # {}
  <2> HIDE DEF score
  <2>1. PICK m \in 1..n : \A j \in 1..n : score[j] <= score[m]
    BY <1>2, Largest
  <2>2. \A j \in 1..n : score[j] \in Nat
    BY <1>2
  <2>3. found # {} => m \in best
    BY <1>2, <2>1, <2>2
  <2>4. QED  BY <2>3
<1>4. best # {} => Min(best) \in 1..n
  <2>1. best \in SUBSET Nat /\ best \subseteq 1..n
    BY <1>2
  <2> HIDE DEF best
  <2>2. QED  BY <2>1, MinIsLeast
<1>5. \A i \in 1..n : s[i] \in Range(s) /\ s[i] # NoAddress
  <2>1. \A i \in 1..n : s[i] \in A /\ s[i] \in Range(s)
    BY <1>2 DEF Range
  <2>2. QED  BY <2>1 DEF Valid
<1>6. \A i \in 1..n : score[i] = Score(s[i].name, at)
  BY <1>2
<1>9. found \subseteq 1..n
  BY <1>2
<1> HIDE DEF found, best, score
<1>7. CASE found = {}
  BY <1>1, <1>3, <1>6, <1>7
<1>10. CASE found # {} /\ EqualWeights(s)
  <2>1. RendezvousGet(s, at) = {s[Min(best)]} /\ Min(best) \in 1..n
    BY <1>1, <1>4, <1>8, <1>10
  <2>2. QED  BY <1>5, <2>1
<1>11. CASE found # {} /\ ~EqualWeights(s)
  <2>1. RendezvousGet(s, at) = {s[i] : i \in found}
    BY <1>1, <1>11
  <2>2. QED  BY <1>5, <1>9, <1>11, <2>1
<1>12. QED  BY <1>7, <1>10, <1>11

\* When no number overflows, only an address that is configured without a weight ends the
\* process, and as long as one with a weight is left (the first one for rendezvous) every
\* path gets a server of the list, which has a weight by the algorithms that promise it.
\* Rendezvous fails only a path for which every score is 0.
THEOREM RoutingAlwaysFindsAServer == Spec => [](FitsWord => AlwaysFindsAServer)
<1>1. ASSUME BalancerOK, FitsWord
      PROVE  AlwaysFindsAServer
  <2> DEFINE s == balancer.servers
             A == AddressesOf(setup)
             algo == setup.algo
  <2>1. /\ setup \in Setups /\ s \in Seq(A) /\ DOMAIN s = 1..Len(s) /\ balancer.counter \in Nat
        /\ balancer.algo = algo /\ balancer.ring = RingOf(algo, s)
        /\ crashed <=> Panics(algo, s)
    BY <1>1 DEF BalancerOK
  <2>2. /\ \A a \in A : a.weight \in Nat
        /\ \A a \in A : \E i \in DOMAIN setup.addresses : a.weight = setup.addresses[i].weight
        /\ \A a \in A : \A at \in 0..MaxPoint : Score(a.name, at) \in Nat
    BY <2>1, AddressIs
  <2>3. Valid(A)
    BY <2>1, AddressIs DEF Valid
  <2>4. algo \in Algorithms /\ MaxPoint \in Nat
    BY <2>1, RoutingAssumption
  <2>5. Fits(s)
    BY <1>1 DEF FitsWord
  <2> HIDE DEF A
  <2>6. ASSUME crashed
        PROVE  \E i \in DOMAIN setup.addresses : setup.addresses[i].weight = 0
    <3>1. PICK j \in 1..Len(s) : s[j].weight = 0
      BY <2>1, <2>2, <2>5, <2>6, PanicIsZero
    <3>2. s[j] \in A
      BY <2>1
    <3>3. QED  BY <2>2, <3>1, <3>2
  <2>7. ASSUME s # <<>>, Weighted(algo) => TotalWeight(s) \in 1..Word - 1,
               algo = "rendezvous" => s[1].weight > 0,
               NEW at \in 0..MaxPoint
        PROVE  /\ Get(balancer, at) # {}
               /\ \A a \in Get(balancer, at) :
                    IF a = NoAddress
                    THEN /\ algo = "rendezvous"
                         /\ \A i \in DOMAIN s : Score(s[i].name, at) = 0
                    ELSE a \in Range(s) /\ (Drains(algo) => a.weight > 0)
    <3>1. \A i \in 1..Len(s) : s[i] \in Range(s)
      BY <2>1 DEF Range
    <3>2. \A a \in Range(s) : a # NoAddress
      BY <2>1, <2>3 DEF Range, Valid
    <3>3. at \in Nat /\ Len(s) \in Nat \ {0}
      BY <2>1, <2>4, <2>7
    <3>4. ASSUME Weighted(algo) PROVE TotalWeight(s) > 0
      BY <2>7, <3>4, BalancingAssumption
    <3>5. ASSUME Serves(s, Get(balancer, at), Drains(algo))
          PROVE  /\ Get(balancer, at) # {}
                 /\ \A a \in Get(balancer, at) :
                       a # NoAddress /\ a \in Range(s) /\ (Drains(algo) => a.weight > 0)
      BY <3>2, <3>5 DEF Serves
    <3>6. CASE algo = "ketama"
      <4>1. Get(balancer, at) = KetamaGet(RingOf("ketama", s), at)
        BY <2>1, <3>6, GetIs
      <4>2. TotalWeight(s) > 0 /\ (Drains(algo) <=> TRUE)
        BY <3>4, <3>6 DEF Weighted, Drains
      <4> HIDE DEF s
      <4>3. Serves(s, KetamaGet(RingOf("ketama", s), at), TRUE)
        BY <2>1, <2>3, <2>5, <2>7, <3>3, <4>2, KetamaServes
      <4>4. Serves(s, Get(balancer, at), Drains(algo))
        BY <4>1, <4>2, <4>3 DEF Serves
      <4>5. QED  BY <3>5, <4>4
    <3>7. CASE algo = "legacyketama"
      <4>1. Get(balancer, at) = LegacyKetamaGet(RingOf("legacyketama", s), at)
        BY <2>1, <3>7, GetIs
      <4>2. TotalWeight(s) > 0 /\ ~Drains(algo)
        BY <3>4, <3>7 DEF Weighted, Drains
      <4> HIDE DEF s
      <4>3. Serves(s, LegacyKetamaGet(RingOf("legacyketama", s), at), FALSE)
        BY <2>1, <2>3, <2>5, <2>7, <3>3, <4>2, LegacyServes
      <4>4. Serves(s, Get(balancer, at), Drains(algo))
        BY <4>1, <4>2, <4>3 DEF Serves
      <4>5. QED  BY <3>5, <4>4
    <3>8. CASE algo = "random"
      <4>1. Get(balancer, at) = RandomGet(s)
        BY <2>1, <3>8, GetIs
      <4>2. TotalWeight(s) > 0 /\ (Drains(algo) <=> TRUE)
        BY <3>4, <3>8 DEF Weighted, Drains
      <4> HIDE DEF s
      <4>3. Serves(s, RandomGet(s), TRUE)
        BY <2>1, <2>3, <2>5, <2>7, <4>2, RandomServes
      <4>4. Serves(s, Get(balancer, at), Drains(algo))
        BY <4>1, <4>2, <4>3 DEF Serves
      <4>5. QED  BY <3>5, <4>4
    <3>9. CASE algo = "rendezvous"
      <4>1. Get(balancer, at) = RendezvousGet(s, at)
        BY <2>1, <3>9, GetIs
      <4>2. ~Drains(algo) /\ \A a \in A : Score(a.name, at) \in Nat
        BY <2>2, <3>9 DEF Drains
      <4> HIDE DEF s
      <4>3. /\ RendezvousGet(s, at) # {} /\ RendezvousGet(s, at) \subseteq Range(s) \cup {NoAddress}
            /\ NoAddress \in RendezvousGet(s, at) =>
                 \A i \in 1..Len(s) : Score(s[i].name, at) = 0
        BY <2>1, <2>3, <2>7, <3>3, <3>9, <4>2, RendezvousServes
      <4>4. QED  BY <2>1, <3>9, <4>1, <4>2, <4>3
    <3>10. CASE algo = "unweighted-random"
      <4>1. Get(balancer, at) = Range(s) /\ ~Drains(algo)
        BY <2>1, <2>7, <3>10, GetIs DEF Drains
      <4>2. Range(s) # {}
        BY <3>1, <3>3
      <4>3. Serves(s, Get(balancer, at), Drains(algo))
        BY <4>1, <4>2 DEF Serves
      <4>4. QED  BY <3>5, <4>3
    <3>11. CASE algo = "unweighted-roundrobin"
      <4>1. Get(balancer, at) = {s[(balancer.counter % Len(s)) + 1]} /\ ~Drains(algo)
        BY <2>1, <2>7, <3>11, GetIs DEF Drains
      <4>2. (balancer.counter % Len(s)) + 1 \in 1..Len(s)
        BY <2>1, <3>3
      <4>3. Serves(s, Get(balancer, at), Drains(algo))
        BY <3>1, <4>1, <4>2 DEF Serves
      <4>4. QED  BY <3>5, <4>3
    <3>12. QED  BY <2>4, <3>6, <3>7, <3>8, <3>9, <3>10, <3>11 DEF Algorithms
  <2>8. QED  BY <2>6, <2>7 DEF AlwaysFindsAServer
<1>2. QED  BY <1>1, BalancerInvariant, PTL
=============================================================================
