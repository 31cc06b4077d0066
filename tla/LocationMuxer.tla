--------------------------- MODULE LocationMuxer ---------------------------
(***************************************************************************)
(* Which location of a virtual host answers a path (app/location_muxer.go). *)
(*                                                                         *)
(* A path is a sequence of characters.  A location is what its name says:  *)
(* "/x" (none), "= /x" (exact), "^~ /x" (bestNonRegular) have a prefix; a  *)
(* regular expression, case sensitive or not, stands for the set of paths  *)
(* it matches.  The names of a virtual host are the keys of a JSON object, *)
(* so the muxer gets the locations in any order (config/section_vhost.go). *)
(***************************************************************************)
EXTENDS Integers, Sequences, FiniteSetsExt, Functions

CONSTANTS
  Fold(_),          \* case folding of a character
  NoLocation        \* the nil location

Kinds == {"none", "exact", "bestNonRegular", "regular", "unparsable"}

IsRegular(l) == l.kind = "regular"
HasPrefix(l) == l.kind \in {"none", "exact", "bestNonRegular"}

EqualFold(p, q) == Len(p) = Len(q) /\ \A i \in DOMAIN p : Fold(p[i]) = Fold(q[i])

PrefixMatches(prefix, path) ==
  Len(prefix) <= Len(path) /\ EqualFold(prefix, SubSeq(path, 1, Len(prefix)))

(***************************************************************************)
(* NewLocationMuxer: nothing at all if one location is not parsable.       *)
(***************************************************************************)
Parsable(locations) == \A i \in DOMAIN locations : locations[i].kind # "unparsable"

\* A later location takes the place of an earlier one with the same prefix: the
\* trie is keyed by the prefix alone, whatever the kind.
LocationTrie(locations) ==
  LET At(prefix) == {i \in DOMAIN locations : /\ HasPrefix(locations[i])
                                              /\ locations[i].prefix = prefix}
      Keys == {locations[i].prefix : i \in {j \in DOMAIN locations : HasPrefix(locations[j])}}
  IN  [prefix \in Keys |-> locations[Max(At(prefix))]]

NewLocationMuxer(locations) ==
  [trie |-> LocationTrie(locations),
   regexes |-> Restrict(locations, {i \in DOMAIN locations : IsRegular(locations[i])})]

(***************************************************************************)
(* Match.  Prefixes that differ in case only may both be the longest: the  *)
(* order in which the trie is visited decides, so the answer is a set.     *)
(***************************************************************************)
\* An exact location takes part only when its prefix is the whole path.
TakesPart(l, path) ==
  PrefixMatches(l.prefix, path) /\ (l.kind = "exact" => Len(l.prefix) = Len(path))

LongestMatchingPath(muxer, path) ==
  LET matching == {k \in DOMAIN muxer.trie : TakesPart(muxer.trie[k], path)}
      longest  == {k \in matching : \A other \in matching : Len(other) <= Len(k)}
  IN  IF matching = {} THEN {NoLocation} ELSE {muxer.trie[k] : k \in longest}

FirstMatchingRegex(muxer, path) ==
  LET matching == {i \in DOMAIN muxer.regexes : path \in muxer.regexes[i].matches}
  IN  IF matching = {} THEN NoLocation ELSE muxer.regexes[Min(matching)]

\* Mutant: regular expressions are asked first.
MatchRegexFirst(muxer, path) ==
  LET regex == FirstMatchingRegex(muxer, path)
  IN  IF regex # NoLocation THEN {regex} ELSE LongestMatchingPath(muxer, path)

Match(muxer, path) ==
  LET regex == FirstMatchingRegex(muxer, path)
  IN  {IF location # NoLocation /\ location.kind = "bestNonRegular" THEN location
       ELSE IF regex # NoLocation THEN regex
       ELSE location : location \in LongestMatchingPath(muxer, path)}

(***************************************************************************)
(* The promise, of a set of locations: who may answer the path.            *)
(***************************************************************************)
Accepts(l, path) ==
  IF IsRegular(l) THEN path \in l.matches ELSE TakesPart(l, path)

\* l answers path rather than any other of the locations L that accepts it.
Answers(l, path, L) ==
  LET rivals   == {r \in L \ {l} : Accepts(r, path)}
      Longer(r) == ~IsRegular(r) /\ Len(r.prefix) > Len(l.prefix)
      Best(r)  == /\ r.kind = "bestNonRegular"
                  /\ \A s \in rivals \ {r} : IsRegular(s) \/ Len(s.prefix) < Len(r.prefix)
  IN  /\ Accepts(l, path)
      /\ CASE IsRegular(l) -> ~\E r \in rivals : Best(r)
           [] l.kind = "bestNonRegular" -> ~\E r \in rivals : Longer(r)
           [] OTHER -> ~\E r \in rivals : IsRegular(r) \/ Longer(r)

\* No two locations whose order could matter for path.
Unambiguous(path, L) ==
  LET accepting == {l \in L : Accepts(l, path)}
  IN  /\ \A l, m \in {x \in L : HasPrefix(x)} : EqualFold(l.prefix, m.prefix) => l = m
      /\ \A l, m \in accepting : IsRegular(l) /\ IsRegular(m) => l = m
=============================================================================
