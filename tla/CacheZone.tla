------------------------------ MODULE CacheZone ------------------------------
(***************************************************************************)
(* A cache zone as its goroutines share it: the storage, the LRU and the   *)
(* scheduler, none of which holds a lock across two calls. The goroutines  *)
(*   - proxy a response and save its metadata and parts                    *)
(*     (handler/cache: handle, getResponseHook, partWriter),               *)
(*   - serve parts from the storage (handler/cache: getPartFromStorage),   *)
(*   - expire an object (storage: GetExpirationHandler) or purge it        *)
(*     (handler/purge: purgeAll),                                          *)
(*   - reload the storage after a restart (app: reloadCache).              *)
(* Every call of the storage and the LRU is one step, and every send to    *)
(* the scheduler.                                                          *)
(*                                                                         *)
(* The components appear by what they promise: the LRU is the set of what  *)
(* it lists, and evicts something when it is full (RankedCache; which is   *)
(* not told); an entry of the scheduler's heap is delivered at some time,  *)
(* be it too early, and then finds a callback or not (Scheduler); a part   *)
(* writer saves the parts of a range in order (PartWriter). The storage is *)
(* the disk one; a directory that is renamed away is gone, the deletion of *)
(* its files is not seen.                                                  *)
(*                                                                         *)
(* An operator commented `Mutant' is a wrong variant of the definition     *)
(* after it, which a property must be able to tell from it.                *)
(***************************************************************************)
EXTENDS Integers, FiniteSets, Sequences

CONSTANTS
    Objects,      \* the object IDs
    LastPart,     \* an object has parts 0 .. LastPart
    Capacity,     \* what the LRU lists at most
    Methods,      \* of the requests: "GET", "HEAD"
    Proxies,      \* goroutines of carbonCopyProxy
    Readers,      \* goroutines of lazilyRespond
    Removers,     \* goroutines of the expiration handler and of purgeAll
    Purge,        \* whether there are purge requests
    MaxTimers,    \* bound: the entries of one object in the scheduler's heap
    MaxRestarts,  \* bound: how often the process is restarted
    None

ASSUME CacheZoneAssumption ==
    /\ LastPart \in Nat /\ Capacity \in Nat \ {0}
    /\ MaxTimers \in Nat /\ MaxRestarts \in Nat
    /\ Methods \subseteq {"GET", "HEAD"}
    /\ Purge \in BOOLEAN
    /\ None \notin Objects

Parts   == 0 .. LastPart
Indexes == Objects \X Parts

VARIABLES
    meta,     \* the metadata on disk: "none", "fresh", "stale"
    files,    \* the indexes whose part is on disk
    listed,   \* the lookup map of the LRU
    timers,   \* how many entries the scheduler's heap has for each object
    events,   \* the objects that have a callback in the scheduler's map
    lost,     \* history: the objects whose last entry was dropped before the
              \* callback that it was pushed for was in the map
    proxy,    \* the state of each goroutine
    reader,
    remover,
    loader,
    restarts

disk == <<meta, files>>
scheduler == <<timers, events, lost>>
vars == <<disk, listed, scheduler, proxy, reader, remover, loader, restarts>>

FilesOf(o) == {i \in files : i[1] = o}

IdleProxy   == [at |-> "idle", obj |-> None, method |-> "GET", todo |-> <<>>]
IdleReader  == [at |-> "idle", obj |-> None, part |-> 0]
IdleRemover == [at |-> "idle", obj |-> None, parts |-> {}, purge |-> FALSE]
DoneLoader  == [at |-> "done", left |-> {}, obj |-> None, stale |-> FALSE, parts |-> {}]

-----------------------------------------------------------------------------
(* The components *)

\* Mutant: one more fits in.
FullTooLate == Cardinality(listed) > Capacity
Full        == Cardinality(listed) >= Capacity

\* AddObject: nothing if it is listed, else it may cost another its file.
AddObject(i) ==
    \/ i \in listed /\ UNCHANGED <<listed, files>>
    \/ /\ i \notin listed /\ ~Full
       /\ listed' = listed \cup {i}
       /\ UNCHANGED files
    \/ /\ i \notin listed /\ Full
       /\ \E victim \in listed :
             /\ listed' = (listed \ {victim}) \cup {i}
             /\ files'  = files \ {victim}

\* Storage.Discard: the directory of the object is renamed away.
Discard(o) ==
    /\ meta'  = [meta EXCEPT ![o] = "none"]
    /\ files' = files \ FilesOf(o)

-----------------------------------------------------------------------------
(* handle, carbonCopyProxy and the part writer *)

ToProxy(p, r) == proxy' = [proxy EXCEPT ![p] = r]

\* GetMetadata decides whether the object is discarded first: when its metadata
\* is stale or cannot be read. (With too many open files the answer is an error
\* and nothing else.) Fresh metadata is proxied when the client does not want the
\* cached response or a part is missing. Any range may be asked for.
Request(p, o, first, last, method) ==
    /\ proxy[p].at = "idle" /\ first <= last
    /\ \E at \in CASE meta[o] = "none"  -> {"hook"}
               [] meta[o] = "fresh" -> {"hook", "discard"}
               [] meta[o] = "stale" -> {"discard"} :
          ToProxy(p, [at     |-> at,
                      obj    |-> o,
                      method |-> method,
                      todo   |-> [k \in 1 .. last - first + 1 |-> first + k - 1]])
    /\ UNCHANGED <<disk, listed, scheduler, reader, remover, loader, restarts>>

DiscardUnusable(p) ==
    /\ proxy[p].at = "discard"
    /\ Discard(proxy[p].obj)
    /\ ToProxy(p, [proxy[p] EXCEPT !.at = "hook"])
    /\ UNCHANGED <<listed, scheduler, reader, remover, loader, restarts>>

\* SaveMetadata. A HEAD request ends here.
SaveMetadata(p) ==
    /\ proxy[p].at = "hook"
    /\ meta' = [meta EXCEPT ![proxy[p].obj] = "fresh"]
    /\ ToProxy(p, IF proxy[p].method = "HEAD" THEN IdleProxy
                  ELSE [proxy[p] EXCEPT !.at = "expiry"])
    /\ UNCHANGED <<files, listed, scheduler, reader, remover, loader, restarts>>

\* AddEvent, the first of its two sends: the entry of the heap.
Push(o) ==
    /\ timers[o] < MaxTimers
    /\ timers' = [timers EXCEPT ![o] = @ + 1]
    /\ lost'   = lost \ {o}
    /\ UNCHANGED events

PushExpiry(p) ==
    /\ proxy[p].at = "expiry"
    /\ Push(proxy[p].obj)
    /\ ToProxy(p, [proxy[p] EXCEPT !.at = "event"])
    /\ UNCHANGED <<disk, listed, reader, remover, loader, restarts>>

\* Mutant: nothing is scheduled for an object that may have an event.
OnlyNewEvents(o) == IF FilesOf(o) = {} THEN events \cup {o} ELSE events
\* The second send: the callback takes the place of an earlier one.
Scheduled(o)     == events \cup {o}

SetCallback(p) ==
    /\ proxy[p].at = "event"
    /\ events' = Scheduled(proxy[p].obj)
    /\ ToProxy(p, [proxy[p] EXCEPT !.at = "keep"])
    /\ UNCHANGED <<disk, listed, timers, lost, reader, remover, loader, restarts>>

Current(p) == <<proxy[p].obj, Head(proxy[p].todo)>>

\* ShouldKeep of the next part.
ShouldKeep(p) ==
    /\ proxy[p].at = "keep"
    /\ AddObject(Current(p))
    /\ ToProxy(p, [proxy[p] EXCEPT !.at = "save"])
    /\ UNCHANGED <<meta, scheduler, reader, remover, loader, restarts>>

\* SavePart, which creates the directory of the object when there is none.
SavePart(p) ==
    /\ proxy[p].at = "save"
    /\ files' = files \cup {Current(p)}
    /\ ToProxy(p, [proxy[p] EXCEPT !.at = "add"])
    /\ UNCHANGED <<meta, listed, scheduler, reader, remover, loader, restarts>>

\* Mutant: the part writer trusts its ShouldKeep.
NotAgain(i)  == UNCHANGED <<listed, files>>
\* AddObject again, once the part is saved.
AddSaved(i)  == AddObject(i)

AddPart(p) ==
    /\ proxy[p].at = "add"
    /\ AddSaved(Current(p))
    /\ ToProxy(p, IF Len(proxy[p].todo) = 1 THEN IdleProxy
                  ELSE [proxy[p] EXCEPT !.at = "keep", !.todo = Tail(@)])
    /\ UNCHANGED <<meta, scheduler, reader, remover, loader, restarts>>

\* The upstream or the client fails between two parts, or a save fails.
Abort(p) ==
    /\ proxy[p].at \in {"hook", "keep", "save"}
    /\ ToProxy(p, IdleProxy)
    /\ UNCHANGED <<disk, listed, scheduler, reader, remover, loader, restarts>>

ProxyStep(p) ==
    \/ DiscardUnusable(p) \/ SaveMetadata(p) \/ PushExpiry(p) \/ SetCallback(p)
    \/ ShouldKeep(p) \/ SavePart(p) \/ AddPart(p) \/ Abort(p)

-----------------------------------------------------------------------------
(* Serving from the storage *)

\* A request for an object with fresh metadata.
StartReading(r, o) ==
    /\ reader[r].at = "idle" /\ meta[o] = "fresh"
    /\ reader' = [reader EXCEPT ![r] = [at |-> "respond", obj |-> o, part |-> 0]]
    /\ UNCHANGED <<disk, listed, scheduler, proxy, remover, loader, restarts>>

\* GetPart finds the file (a missing part goes to Request).
GetPart(r, part) ==
    /\ reader[r].at = "respond" /\ <<reader[r].obj, part>> \in files
    /\ reader' = [reader EXCEPT ![r].at = "promote", ![r].part = part]
    /\ UNCHANGED <<disk, listed, scheduler, proxy, remover, loader, restarts>>

\* PromoteObject adds what is not listed.
PromoteObject(r) ==
    /\ reader[r].at = "promote"
    /\ AddObject(<<reader[r].obj, reader[r].part>>)
    /\ reader' = [reader EXCEPT ![r].at = "respond"]
    /\ UNCHANGED <<meta, scheduler, proxy, remover, loader, restarts>>

EndReading(r) ==
    /\ reader[r].at = "respond"
    /\ reader' = [reader EXCEPT ![r] = IdleReader]
    /\ UNCHANGED <<disk, listed, scheduler, proxy, remover, loader, restarts>>

-----------------------------------------------------------------------------
(* The expiration handler and purgeAll *)

ToRemover(m, r) == remover' = [remover EXCEPT ![m] = r]

\* The scheduler delivers an entry of o, at any time: it starts the callback of o
\* and forgets both.
Expire(m, o) ==
    /\ timers[o] > 0 /\ o \in events /\ remover[m].at = "idle"
    /\ timers' = [timers EXCEPT ![o] = @ - 1]
    /\ events' = events \ {o}
    /\ ToRemover(m, [IdleRemover EXCEPT !.at = "list", !.obj = o])
    /\ UNCHANGED <<disk, listed, lost, proxy, reader, loader, restarts>>

\* An AddEvent for o is between its two sends.
Adding(o) ==
    \/ \E p \in Proxies : proxy[p].at = "event" /\ proxy[p].obj = o
    \/ loader.at = "event" /\ loader.obj = o

\* An entry whose callback an earlier one has started, or that is not in the map
\* yet: then the callback stays there with nothing that leads to it.
DropExpiry(o) ==
    /\ timers[o] > 0 /\ o \notin events
    /\ timers' = [timers EXCEPT ![o] = @ - 1]
    /\ lost'   = IF timers[o] = 1 /\ Adding(o) THEN lost \cup {o} ELSE lost
    /\ UNCHANGED <<disk, listed, events, proxy, reader, remover, loader, restarts>>

Deliver(o) == DropExpiry(o) \/ \E m \in Removers : Expire(m, o)

StartPurge(m, o) ==
    /\ Purge /\ remover[m].at = "idle"
    /\ ToRemover(m, [IdleRemover EXCEPT !.at = "list", !.obj = o, !.purge = TRUE])
    /\ UNCHANGED <<disk, listed, scheduler, proxy, reader, loader, restarts>>

\* GetAvailableParts. An expiry then removes the parts from the list and
\* discards them, a purge the other way round, or nothing if there are none.
ListParts(m) ==
    /\ remover[m].at = "list"
    /\ ToRemover(m, IF remover[m].purge /\ FilesOf(remover[m].obj) = {} THEN IdleRemover
                    ELSE [remover[m] EXCEPT !.at    = IF remover[m].purge THEN "discard"
                                                      ELSE "remove",
                                            !.parts = FilesOf(remover[m].obj)])
    /\ UNCHANGED <<disk, listed, scheduler, proxy, reader, loader, restarts>>

RemoveParts(m) ==
    /\ remover[m].at = "remove"
    /\ listed' = listed \ remover[m].parts
    /\ ToRemover(m, IF remover[m].purge THEN IdleRemover
                    ELSE [remover[m] EXCEPT !.at = "discard"])
    /\ UNCHANGED <<disk, scheduler, proxy, reader, loader, restarts>>

DiscardObject(m) ==
    /\ remover[m].at = "discard"
    /\ Discard(remover[m].obj)
    /\ ToRemover(m, IF remover[m].purge THEN [remover[m] EXCEPT !.at = "remove"]
                    ELSE IdleRemover)
    /\ UNCHANGED <<listed, scheduler, proxy, reader, loader, restarts>>

RemoverStep(m) == ListParts(m) \/ RemoveParts(m) \/ DiscardObject(m)

-----------------------------------------------------------------------------
(* Time, restarts and reloadCache *)

MetadataExpires(o) ==
    /\ meta[o] = "fresh"
    /\ meta' = [meta EXCEPT ![o] = "stale"]
    /\ UNCHANGED <<files, listed, scheduler, proxy, reader, remover, loader, restarts>>

\* The process ends in any state, only the disk survives; initCacheZone of
\* the next one starts the reload and then serves requests.
Restart ==
    /\ restarts < MaxRestarts
    /\ restarts' = restarts + 1
    /\ listed' = {}
    /\ timers' = [o \in Objects |-> 0] /\ events' = {} /\ lost' = {}
    /\ proxy'   = [p \in Proxies |-> IdleProxy]
    /\ reader'  = [r \in Readers |-> IdleReader]
    /\ remover' = [m \in Removers |-> IdleRemover]
    /\ loader'  = [DoneLoader EXCEPT !.at = "next", !.left = Objects]
    /\ UNCHANGED disk

\* Iterate reads the metadata of the next object; a directory without it is
\* passed over.
LoadObject(o) ==
    /\ loader.at = "next" /\ o \in loader.left
    /\ loader' = IF meta[o] = "none" THEN [loader EXCEPT !.left = @ \ {o}]
                 ELSE [loader EXCEPT !.left  = @ \ {o}, !.at = "parts",
                                     !.obj   = o, !.stale = meta[o] = "stale"]
    /\ UNCHANGED <<disk, listed, scheduler, proxy, reader, remover, restarts>>

\* Then its parts, an error if the directory is gone by now; the callback
\* discards an object that is not fresh.
LoadParts ==
    /\ loader.at = "parts"
    /\ LET o == loader.obj IN
       loader' = [loader EXCEPT
          !.parts = FilesOf(o),
          !.at    = IF meta[o] = "none" /\ FilesOf(o) = {} THEN "next"
                    ELSE IF loader.stale THEN "discard" ELSE "expiry"]
    /\ UNCHANGED <<disk, listed, scheduler, proxy, reader, remover, restarts>>

DiscardLoaded ==
    /\ loader.at = "discard"
    /\ Discard(loader.obj)
    /\ loader' = [loader EXCEPT !.at = "next"]
    /\ UNCHANGED <<listed, scheduler, proxy, reader, remover, restarts>>

PushLoaded ==
    /\ loader.at = "expiry"
    /\ Push(loader.obj)
    /\ loader' = [loader EXCEPT !.at = "event"]
    /\ UNCHANGED <<disk, listed, proxy, reader, remover, restarts>>

\* Mutant: the reload leaves the expiry to the requests.
NothingScheduled(o) == events
ScheduledLoaded(o)  == events \cup {o}

SetLoaded ==
    /\ loader.at = "event"
    /\ events' = ScheduledLoaded(loader.obj)
    /\ loader' = [loader EXCEPT !.at = "add"]
    /\ UNCHANGED <<disk, listed, timers, lost, proxy, reader, remover, restarts>>

AddLoaded(i) ==
    /\ loader.at = "add" /\ i \in loader.parts
    /\ AddObject(i)
    /\ loader' = [loader EXCEPT !.parts = @ \ {i}]
    /\ UNCHANGED <<meta, scheduler, proxy, reader, remover, restarts>>

EndOfObject ==
    /\ loader.at = "add" /\ loader.parts = {}
    /\ loader' = [loader EXCEPT !.at = "next"]
    /\ UNCHANGED <<disk, listed, scheduler, proxy, reader, remover, restarts>>

EndOfIterate ==
    /\ loader.at = "next" /\ loader.left = {}
    /\ loader' = DoneLoader
    /\ UNCHANGED <<disk, listed, scheduler, proxy, reader, remover, restarts>>

LoaderStep ==
    \/ \E o \in Objects : LoadObject(o)
    \/ LoadParts \/ DiscardLoaded \/ PushLoaded \/ SetLoaded
    \/ EndOfObject \/ EndOfIterate
    \/ \E i \in Indexes : AddLoaded(i)

-----------------------------------------------------------------------------
\* An empty zone, its reload done.
Init ==
    /\ meta    = [o \in Objects |-> "none"]
    /\ files   = {} /\ listed = {}
    /\ timers  = [o \in Objects |-> 0] /\ events = {} /\ lost = {}
    /\ proxy   = [p \in Proxies |-> IdleProxy]
    /\ reader  = [r \in Readers |-> IdleReader]
    /\ remover = [m \in Removers |-> IdleRemover]
    /\ loader  = DoneLoader
    /\ restarts = 0

Next ==
    \/ \E p \in Proxies :
          \/ \E o \in Objects, first, last \in Parts, method \in Methods :
                Request(p, o, first, last, method)
          \/ ProxyStep(p)
    \/ \E r \in Readers :
          \/ \E o \in Objects : StartReading(r, o)
          \/ \E part \in Parts : GetPart(r, part)
          \/ PromoteObject(r) \/ EndReading(r)
    \/ \E m \in Removers :
          \/ \E o \in Objects : StartPurge(m, o)
          \/ RemoverStep(m)
    \/ \E o \in Objects : Deliver(o) \/ MetadataExpires(o)
    \/ Restart \/ LoaderStep

Spec == Init /\ [][Next]_vars

\* Started goroutines run on, time passes and the entries of the heap are delivered
\* (once one of the model's goroutines is free). Nothing is assumed of the requests.
FairSpec ==
    /\ Spec
    /\ \A p \in Proxies : WF_vars(ProxyStep(p))
    /\ \A m \in Removers : WF_vars(RemoverStep(m))
    /\ \A o \in Objects : /\ WF_vars(MetadataExpires(o))
                          /\ SF_vars(Deliver(o))
    /\ WF_vars(LoaderStep)

-----------------------------------------------------------------------------
(* Properties *)

TypeOK ==
    /\ meta \in [Objects -> {"none", "fresh", "stale"}]
    /\ files \subseteq Indexes
    /\ listed \subseteq Indexes /\ Cardinality(listed) <= Capacity
    /\ timers \in [Objects -> 0 .. MaxTimers]
    /\ events \subseteq Objects /\ lost \subseteq Objects
    /\ \A p \in Proxies :
          /\ proxy[p].at \in {"idle", "discard", "hook", "expiry", "event",
                            "keep", "save", "add"}
          /\ proxy[p].obj \in Objects \cup {None}
          /\ proxy[p].at # "idle" => proxy[p].todo # <<>> /\ proxy[p].obj # None
          /\ proxy[p].todo \in Seq(Parts) /\ proxy[p].method \in {"GET", "HEAD"}
    /\ reader \in [Readers -> [at : {"idle", "respond", "promote"},
                               obj : Objects \cup {None}, part : Parts]]
    /\ remover \in [Removers -> [at : {"idle", "list", "remove", "discard"},
                                 obj : Objects \cup {None},
                                 parts : SUBSET Indexes, purge : BOOLEAN]]
    /\ loader \in [at : {"done", "next", "parts", "discard", "expiry", "event", "add"},
                   left : SUBSET Objects, obj : Objects \cup {None},
                   stale : BOOLEAN, parts : SUBSET Indexes]
    /\ restarts \in 0 .. MaxRestarts

\* Every part on disk is listed by the LRU, which can evict it, or a goroutine
\* is about to list it or to discard its object. So evictions, expiries and
\* part writers that race for the same part never leave a file behind that
\* nothing counts.
EveryFileIsAccounted ==
    \A i \in files :
        \/ i \in listed
        \/ \E p \in Proxies : proxy[p].at = "add" /\ Current(p) = i
        \/ \E m \in Removers : remover[m].at = "discard" /\ remover[m].obj = i[1]

Quiet ==
    /\ \A p \in Proxies : proxy[p].at = "idle"
    /\ \A m \in Removers : remover[m].at = "idle"
    /\ loader.at = "done"

\* README.md:132, storage_objects and part_size "form the maximum disk space
\* which this zone will take": at least when no goroutine is at work on it.
DiskWithinCapacity == Quiet => Cardinality(files) <= Capacity

\* Metadata on disk has an entry in the heap and a callback that will discard it,
\* or the goroutine that saved or found it is about to schedule them, or a discard
\* is under way; across restarts too, whatever step the process was killed at. The
\* one exception is an expiry that came between the two sends of its AddEvent
\* (scheduler.go:168-171).
MetadataWillExpire ==
    \A o \in Objects : meta[o] # "none" =>
        \/ timers[o] > 0 /\ (o \in events \/ Adding(o))
        \/ \E p \in Proxies : proxy[p].at = "expiry" /\ proxy[p].obj = o
        \/ \E m \in Removers : /\ remover[m].at # "idle" /\ remover[m].obj = o
                                /\ ~remover[m].purge
        \/ loader.at # "done" /\ o \in loader.left
        \/ loader.at \in {"parts", "discard", "expiry"} /\ loader.obj = o
        \/ o \in lost

\* types/object_metadata.go:28, "After this time the object must be
\* revalidated or discarded": stale metadata does not stay on disk, unless its
\* expiry came between the two sends of AddEvent. (It is never served even then:
\* the next request for the object discards it.)
StaleIsDiscarded ==
    \A o \in Objects : meta[o] = "stale" ~> meta[o] # "stale" \/ o \in lost

\* What the code does not give: that the expiry also discards without a request
\* the object whose expiry came between the two sends.
StaleNeverStays ==
    \A o \in Objects : meta[o] = "stale" ~> meta[o] # "stale"

=============================================================================
