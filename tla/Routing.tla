------------------------------ MODULE Routing ------------------------------
(***************************************************************************)
(* The way of a request that is not answered from the cache: the virtual   *)
(* host's muxer picks a location (app/net.go), the proxy handler of the    *)
(* location asks its upstream for an address, sends the request there, and *)
(* tries another upstream, once, on the status codes that are configured   *)
(* (handler/proxy).  Meanwhile the upstream's resolver replaces the        *)
(* addresses of the configuration by the IPs it found (upstream).          *)
(*                                                                         *)
(* A setup is a configuration as it was read: the locations in the order   *)
(* that the JSON object of the virtual host was walked in, the balancing   *)
(* algorithm and the addresses of the upstream.                            *)
(***************************************************************************)
EXTENDS LocationMuxer, Balancing

CONSTANTS
  Clients,
  Paths, Requested, \* paths, and those of them that the clients ask for
  PathPoint(_),     \* what the balancing algorithms hash a path to
  MaxPoint,         \* bound: the points of the ring are 0..MaxPoint
  Setups,           \* [locations, algo, addresses] of the configuration
  IPs,              \* what the name of each host resolves to: a set of [ip, family]
  Families,         \* use_ipv4, use_ipv6
  Codes,            \* status codes of the upstream servers
  CodesToRetry      \* try_other_upstream_on_code: a function to names of upstreams

ASSUME RoutingAssumption ==
  /\ DOMAIN CodesToRetry \subseteq Codes /\ 500 \notin Codes
  /\ \A s \in Setups :
       /\ Len(s.locations) \in Nat /\ DOMAIN s.locations = 1..Len(s.locations)
       /\ \A i \in DOMAIN s.locations : /\ s.locations[i].kind \in Kinds
                                       /\ s.locations[i] # NoLocation
                                       /\ Len(s.locations[i].prefix) \in Nat
       /\ Len(s.addresses) \in Nat /\ DOMAIN s.addresses = 1..Len(s.addresses)
       /\ s.algo \in Algorithms
       /\ \A i \in DOMAIN s.addresses :
            LET host == s.addresses[i].host
            IN  /\ s.addresses[i].weight \in Nat
                /\ IsFiniteSet(IPs[host])
                /\ \A name \in {host} \cup {x.ip : x \in IPs[host]} :
                     /\ [host |-> host, name |-> name, weight |-> s.addresses[i].weight] # NoAddress
                     /\ \A k \in 0..Word, x \in 0..PointsPerHash - 1 : Hash(name, k, x) \in 0..MaxPoint
                     /\ \A at \in 0..MaxPoint : Score(name, at) \in Nat
  /\ MaxPoint \in Nat

Main == "main"      \* the upstream with a balancing algorithm
Simple == "simple"  \* an upstream of a single URL (NewSimple)
Upstreams == {Main, Simple}
None == "none"      \* GetUpstream of a name that is not configured

VARIABLES
  setup,
  muxer,
  balancer,         \* the balancing algorithm of the main upstream
  recent,           \* the last answers of the round-robin, at most one per server
  resolver,         \* "waiting" or "done"
  crashed,          \* a panic outside of a request has ended the process
  req               \* for each client, its request

vars == <<setup, muxer, balancer, recent, resolver, crashed, req>>

Idle == [pc |-> "idle", path |-> <<>>, location |-> NoLocation, upstream |-> None, tries |-> 0,
         address |-> NoAddress, code |-> 0, opened |-> 0, closed |-> 0, answers |-> <<>>]

Unresolved(addresses) ==
  [i \in DOMAIN addresses |-> [host |-> addresses[i].host, name |-> addresses[i].host,
                               weight |-> addresses[i].weight]]
SimpleAddress == [host |-> Simple, name |-> Simple, weight |-> 1]

\* upstream.New: the algorithm gets the names until the resolver is done.
Init ==
  /\ setup \in {s \in Setups : Parsable(s.locations)}
  /\ muxer = NewLocationMuxer(setup.locations)
  /\ balancer = Set(setup.algo, Unresolved(setup.addresses))
  /\ crashed = Panics(setup.algo, balancer.servers)
  /\ recent = <<>>
  /\ resolver = "waiting"
  /\ req = [c \in Clients |-> Idle]

Configured == Range(setup.locations)

(***************************************************************************)
(* initDNSResolver: a host that cannot be looked up is left out, and so is *)
(* an IP of a family that is not used.  The result may be empty.           *)
(***************************************************************************)
\* Mutant: the copy of the address is made of its name alone.
ResolvedWithoutWeight(address) ==
  LET ips == {x \in IPs[address.host] : x.family \in Families}
  IN  SetToSeq({[host |-> address.host, name |-> x.ip, weight |-> 0] : x \in ips})

Resolved(address) ==
  LET ips == {x \in IPs[address.host] : x.family \in Families}
      resolved(x) == [host |-> address.host, name |-> x.ip, weight |-> address.weight]
  IN  SetToSeq({resolved(x) : x \in ips})

Resolve(failed) ==
  /\ ~crashed /\ resolver = "waiting"
  /\ LET found == [i \in DOMAIN setup.addresses |->
                     IF i \in failed THEN <<>> ELSE Resolved(setup.addresses[i])]
         result == FlattenSeq(found)
     IN  /\ balancer' = Set(setup.algo, result)
         /\ crashed' = Panics(setup.algo, result)
  /\ recent' = <<>>
  /\ resolver' = "done"
  /\ UNCHANGED <<setup, muxer, req>>

(***************************************************************************)
(* A request.                                                              *)
(***************************************************************************)
\* ServeHTTP and GetLocationFor: without a location, the virtual host's own handlers.
Locate(c, path) ==
  /\ ~crashed /\ req[c].pc = "idle"
  /\ \E location \in Match(muxer, path) :
       req' = [req EXCEPT ![c] =
                 [Idle EXCEPT !.pc = "address", !.path = path, !.location = location,
                              !.upstream = IF location = NoLocation THEN Main
                                           ELSE location.upstream]]
  /\ UNCHANGED <<setup, muxer, balancer, recent, resolver, crashed>>

\* Mutant: no return after the error.
FailsAndGoesOn(c) == [req EXCEPT ![c].pc = "answered", ![c].answers = Append(@, 500)]

Fails(c) == [req EXCEPT ![c].pc = "done", ![c].answers = Append(@, 500)]

Remember(answer) ==
  LET all == Append(recent, answer)
  IN  IF Len(all) > Len(balancer.servers) THEN Tail(all) ELSE all

\* getOutRequest: an address, or a 500 for the client
GetAddress(c) ==
  /\ ~crashed /\ req[c].pc = "address"
  /\ \E address \in IF req[c].upstream = Simple THEN {SimpleAddress}
                    ELSE Get(balancer, PathPoint(req[c].path)) :
       /\ req' = IF address = NoAddress THEN Fails(c)
                 ELSE [req EXCEPT ![c].pc = "do", ![c].address = address,
                                  ![c].tries = @ + 1]
       /\ IF req[c].upstream = Main
          THEN /\ balancer' = Advance(balancer)
               /\ recent' = IF balancer' = balancer THEN recent ELSE Remember(address)
          ELSE UNCHANGED <<balancer, recent>>
  /\ UNCHANGED <<setup, muxer, resolver, crashed>>

\* upstream.Do: a response whose body has to be closed, or an error
Do(c) ==
  /\ ~crashed /\ req[c].pc = "do"
  /\ \/ req' = Fails(c)
     \/ \E code \in Codes :
          req' = [req EXCEPT ![c].pc = "answered", ![c].code = code, ![c].opened = @ + 1]
  /\ UNCHANGED <<setup, muxer, balancer, recent, resolver, crashed>>

GetUpstream(name) == IF name \in Upstreams THEN name ELSE None

\* Only the first response is looked up in CodesToRetry.
Retries(c) ==
  /\ req[c].tries = 1
  /\ req[c].code \in DOMAIN CodesToRetry
  /\ GetUpstream(CodesToRetry[req[c].code]) # None

Retry(c) ==
  /\ ~crashed /\ req[c].pc = "answered"
  /\ Retries(c)
  /\ req' = [req EXCEPT ![c].pc = "address", ![c].upstream = CodesToRetry[req[c].code],
                        ![c].closed = @ + 1]
  /\ UNCHANGED <<setup, muxer, balancer, recent, resolver, crashed>>

\* WriteHeader, the body, and its Close
Answer(c) ==
  /\ ~crashed /\ req[c].pc = "answered"
  /\ ~Retries(c)
  /\ req' = [req EXCEPT ![c].pc = "done", ![c].answers = Append(@, req[c].code),
                        ![c].closed = @ + 1]
  /\ UNCHANGED <<setup, muxer, balancer, recent, resolver, crashed>>

Forget(c) ==
  /\ req[c].pc = "done"
  /\ req' = [req EXCEPT ![c] = Idle]
  /\ UNCHANGED <<setup, muxer, balancer, recent, resolver, crashed>>

Next ==
  \/ \E failed \in SUBSET DOMAIN setup.addresses : Resolve(failed)
  \/ \E c \in Clients :
       \/ \E path \in Requested : Locate(c, path)
       \/ GetAddress(c) \/ Do(c) \/ Retry(c) \/ Answer(c) \/ Forget(c)

Spec == Init /\ [][Next]_vars

-----------------------------------------------------------------------------
TypeOK ==
  /\ setup \in Setups
  /\ \A a \in Range(balancer.servers) : \E i \in DOMAIN setup.addresses :
       a.host = setup.addresses[i].host /\ a.weight = setup.addresses[i].weight
  /\ balancer.counter \in 0..Word - 1
  /\ resolver \in {"waiting", "done"} /\ crashed \in BOOLEAN
  /\ \A c \in Clients :
       /\ req[c].pc \in {"idle", "address", "do", "answered", "done"}
       /\ req[c].upstream \in Upstreams \cup {None}
       /\ req[c].tries \in 0..2

\* What only the configuration and the addresses decide is looked at between requests.
Quiet == \A c \in Clients : req[c].pc = "idle"

\* In whatever order the configuration was walked, a path whose locations do not
\* contend for it goes to the one that answers it: the longest prefix, unless a
\* regular expression accepts the path and that prefix is not "^~" (Match).
RightLocation ==
  Quiet => \A path \in Paths :
    Unambiguous(path, Configured) =>
      \A l \in Match(muxer, path) :
        IF l = NoLocation THEN \A m \in Configured : ~Accepts(m, path)
        ELSE Answers(l, path, Configured)

\* The process is only ended by addresses that are configured without a weight,
\* whichever names fail to resolve. As long as one address with a weight is left (the
\* first one for rendezvous), every path gets an address, and one that has a weight by the
\* algorithms that promise it (Set and Get of upstream/balancing). Rendezvous fails only a
\* path for which every score is 0.
Weighted(algo) == algo \in {"ketama", "legacyketama", "random", "rendezvous"}
Drains(algo) == algo \in {"ketama", "random"}

AlwaysFindsAServer ==
  LET servers == balancer.servers
      Usable  == /\ servers # <<>>
                 /\ Weighted(setup.algo) => TotalWeight(servers) \in 1..Word - 1
                 /\ setup.algo = "rendezvous" => servers[1].weight > 0
  IN  IF crashed THEN \E i \in DOMAIN setup.addresses : setup.addresses[i].weight = 0
      ELSE Quiet /\ Usable =>
        \A at \in 0..MaxPoint :
          /\ Get(balancer, at) # {}
          /\ \A a \in Get(balancer, at) :
               IF a = NoAddress
               THEN /\ setup.algo = "rendezvous"
                    /\ \A i \in DOMAIN servers : Score(servers[i].name, at) = 0
               ELSE a \in Range(servers) /\ (Drains(setup.algo) => a.weight > 0)

\* The same for rendezvous wherever the address with a weight is in the list.
FindsTheWeighted ==
  LET servers == balancer.servers
  IN  Quiet /\ setup.algo = "rendezvous" /\ TotalWeight(servers) > 0 =>
        \A at \in 0..MaxPoint :
          NoAddress \in Get(balancer, at) =>
            \A i \in DOMAIN servers : Score(servers[i].name, at) = 0

\* With equal weights, an address that goes away takes only its own paths with it.
Consistent(algo) == algo \in {"ketama", "rendezvous"}

KeepsItsPaths ==
  LET servers == balancer.servers
      Without(i) == Set(setup.algo, RemoveAt(servers, i))
  IN  Quiet /\ Consistent(setup.algo) /\ EqualWeights(servers) /\ TotalWeight(servers) > 0 =>
        \A i \in DOMAIN servers :
          LET fewer == Without(i) IN
          \A at \in 0..MaxPoint :
            servers[i] \in Get(balancer, at) \/ Len(servers) = 1
              \/ Get(fewer, at) = Get(balancer, at)

\* The round-robin gives every server its turn: of as many answers as there are
\* servers none is given twice (roundrobin.Get). Only among answers between which the
\* counter has overflowed may one be given twice, unless the number of servers divides Word.
TakesTurns ==
  LET times(a) == Cardinality({i \in DOMAIN recent : recent[i] = a})
      Overflowed == balancer.counter < Len(recent)
  IN  \A a \in Range(recent) :
        times(a) <= (IF Overflowed /\ Word % Len(balancer.servers) # 0 THEN 2 ELSE 1)

\* A request is answered once: with the status of the last upstream that answered it,
\* or with a 500; it was sent at most twice, and every body it got was closed
\* (ReverseProxy.ServeHTTP).
AnsweredOnce ==
  \A c \in Clients :
    req[c].pc = "done" =>
      /\ Len(req[c].answers) = 1
      /\ req[c].answers[1] \in {500, req[c].code}
      /\ req[c].tries <= 2
      /\ req[c].opened = req[c].closed

\* Some location that accepts the path is found, whatever the order.
LocationsAreKept ==
  \A path \in Paths :
    NoLocation \in Match(muxer, path) => \A m \in Configured : ~Accepts(m, path)
=============================================================================
