----------------------------- MODULE MCRouting -----------------------------
(***************************************************************************)
(* Four locations in every order, with paths that differ in length and in  *)
(* case, and every algorithm over two or three addresses of different      *)
(* weights, one of them of two IPs and one of an IP that is not used.      *)
(***************************************************************************)
EXTENDS Routing

\* "/" is 0, letters are 1, 2 and in upper case 11, 12
Lower(char) == char % 10
MCPaths == {<<0>>, <<0, 1>>, <<0, 11>>, <<0, 1, 2>>, <<0, 2>>, <<0, 2, 1>>}
Point(path) == 3 * Len(path) + path[Len(path)]

At(kind, prefix, upstream) ==
  [kind |-> kind, prefix |-> prefix, matches |-> {}, upstream |-> upstream]
Regex(paths, upstream) ==
  [kind |-> "regular", prefix |-> <<>>, matches |-> paths, upstream |-> upstream]

Root  == At("none", <<0>>, Main)
ExactRoot == At("exact", <<0>>, Simple)
ExactA == At("exact", <<0, 1>>, Main)
BestB == At("bestNonRegular", <<0, 2>>, Simple)
EndsInA == Regex({<<0, 1>>, <<0, 2, 1>>}, Main)
EndsInB == Regex({<<0, 1, 2>>, <<0, 2>>}, Simple)

Orders == SetToSeqs({Root, ExactA, BestB, EndsInA}) \cup SetToSeqs({Root, ExactRoot, EndsInB})

A(host, weight) == [host |-> host, weight |-> weight]
Addresses == {<<A("h1", 1), A("h2", 1), A("h3", 1)>>, <<A("h1", 2), A("h2", 0)>>,
              <<A("h2", 1), A("h1", 2)>>, <<A("h2", 0), A("h1", 1)>>,
              <<A("h1", 0), A("h3", 0), A("h2", 1)>>}
MCIPs == [h \in {"h1", "h2", "h3"} |->
            CASE h = "h1" -> {[ip |-> "i1", family |-> "v4"], [ip |-> "i2", family |-> "v4"],
                              [ip |-> "i3", family |-> "v6"]}
              [] h = "h2" -> {[ip |-> "i4", family |-> "v4"]}
              [] h = "h3" -> {[ip |-> "i5", family |-> "v6"]}]

MCSetups ==
  {[locations |-> <<Root, ExactA, EndsInA>>, algo |-> algo, addresses |-> s] :
     algo \in Algorithms \ {"unweighted-roundrobin"}, s \in Addresses}
    \cup {[locations |-> <<Root>>, algo |-> "unweighted-roundrobin",
           addresses |-> <<A("h2", 1), A("h1", 1)>>]}
    \cup {[locations |-> o, algo |-> "ketama", addresses |-> <<A("h2", 1)>>] : o \in Orders}

\* points of the names, all of them different
NameOf == <<"h1", "h2", "h3", "i1", "i2", "i4", "i3", "i5">>
NumberOf(name) == CHOOSE i \in DOMAIN NameOf : NameOf[i] = name
MCRequested == {<<0, 1>>, <<0, 2>>}

MCHash(name, i, x) == (17 * NumberOf(name) + 29 * (2 * i + x)) % 101
MCScore(name, at) == ((NumberOf(name) + 3) * (at + 5)) % 13

Symmetry == Permutations(Clients)

MCCodesToRetry == [code \in {404, 502, 503} |->
                     CASE code = 404 -> Simple [] code = 502 -> Main [] code = 503 -> "unknown"]
=============================================================================
