# A TLA+ model of nedomi

nedomi is a caching HTTP reverse proxy. It cuts the objects it caches into parts
of `part_size` bytes, keeps them in a *cache zone* (a directory, a cache
algorithm that decides what stays, a scheduler that expires objects) and serves
clients from the parts it has and from the upstream for the rest. This directory
models the program from its signals and connections down to the renames of its
files, wherever goroutines, timers, kills and arithmetic meet; checks the
models with TLC on small instances; and proves the main facts with TLAPS for every
instance.

Every definition is translated from the Go source; `PROJECT.json` has the lines
of each in `map`. Operators commented `Mutant` are wrong variants of the
definition that follows them: each property is checked to fail with one of them.

## 1. The system

| component | state | operations | talks to |
| --- | --- | --- | --- |
| segmented LRU, `cache/lru/lru.go` | four lists, lookup map, `tierListSize`, configuration; one mutex | `Lookup`, `ShouldKeep`, `AddObject`, `PromoteObject`, `Remove`, `ChangeConfig`; a goroutine `throttledRemove` per shrinking resize | deletes parts through `removeFunc` (`Storage.DiscardPart`) |
| scheduler, `storage/scheduler.go` | map key → callback (one goroutine), heap of expiry times and a timer (another) | `AddEvent`, `Contains`, `Cleanup`, `Destroy` | runs the expiration handler in a goroutine of its own |
| part writer, `handler/cache/part_writer.go` | position in the body, buffer of one part | `Write`, `Close` | `ShouldKeep`, `SavePart`, `AddObject` |
| cache handler, `handler/cache/*.go` | one request | `handle`, `carbonCopyProxy`, `lazilyRespond` | storage, LRU, scheduler, upstream |
| disk storage, `storage/disk/*.go` | a directory per object: metadata and part files, written under temporary names and renamed | `GetMetadata`, `GetPart`, `SaveMetadata`, `SavePart`, `Discard`, `DiscardPart`, `GetAvailableParts`, `Iterate` | file system |
| expiry and purge, `storage/utils.go`, `handler/purge/handler.go` | none | list parts, unlist them, discard the object (purge: the last two reversed) | storage, LRU |
| application, `app/*.go`, `main.go` | zones, hosts, pid file, signal channel, table of connections | start, reload in place, shutdown, lookup of a host, `ConnState` | zones, gracehttp, the clients' goroutines |
| location muxer, `app/location_muxer.go` | a trie of prefixes, a list of regular expressions | `NewLocationMuxer`, `Match` | application |
| upstreams, `upstream/**` | addresses and a ring of points per algorithm, a round-robin counter | `Set`, `Get`, DNS resolution | proxy handler |
| proxy handler, `handler/proxy/*.go` | one request | `ServeHTTP`, retry with another upstream | upstreams |
| connections of clients, `utils/netutils`, `utils/throttle` | deadline of the operation, a `ThrottledWriter` | `Read`, `Write`, `ReadFrom`, `SetThrottle` | the kernel |

No lock spans two components. A request that saves a part makes three calls
(`ShouldKeep`, `SavePart`, `AddObject`); an expiry makes three others
(`GetAvailableParts`, `Remove`, `Discard`), a purge the same in another order, and
a resize, a restart or another request can come between any two of them. This is
where the hard behaviours are; `PROJECT.json` lists them one by one under
`hazards`. In short:

- **LRU**: the index and the lists are changed together in many places (cascade,
  swap, resize) and must stay together; a promotion unlocks in the middle; the
  removal of dropped files runs later, in bulks, against a cache that has moved
  on; `tierListSize` is 0 in small zones.
- **Scheduler**: one event lives in two goroutines that are told one after the
  other; a timer that is reset without being drained; clients and goroutines
  that block on each other's unbuffered channels; shutdown.
- **Part writer**: offsets of range, part and chunk in every combination; bodies
  that end early or late; saves that fail.
- **Zone**: races of requests, eviction, expiry, purge, restart over the same part.
- **Responder**: pieces of files and of upstream responses chained into one range,
  while the files come and go and each piece may be cut short.
- **Disk**: a kill between any two system calls; a `Discard` that renames the directory
  another goroutine is writing into; a loader that walks what is left.
- **Application**: a reload replaces the configuration under requests that hold the
  old one, may fail half way, and shares a signal channel of one place with
  the shutdown; a remote address that is used again before its old connection is removed.
- **Connections**: deadlines, sleeps and minimal writes that depend on one another.
- **Routing**: precedence of locations that come in no order; shares of points, counters
  and sums at their limits; addresses that are replaced between two answers; responses
  whose body must be closed on every way out.

What makes each component correct is stated by its properties, at the end of its module.

## 2. Modules

| module | models | checked by | proved in |
| --- | --- | --- | --- |
| `RankedCache` | what a cache algorithm with a ranking promises (abstract) | refinement in `MCTieredLRU` | `TieredLRU_proofs` |
| `TieredLRU` | `cache/lru/lru.go` | `MCTieredLRU` | `TieredLRU_proofs` |
| `Scheduler` | `storage/scheduler.go` | `MCScheduler` | `Scheduler_proofs` |
| `ObjectParts` | an object and its parts, shared by the next two | with them | with them |
| `PartWriter` | `handler/cache/part_writer.go` | `MCPartWriter` | `CacheHandler_proofs` |
| `LazyResponse` | `knownFull`, `knownRanged`, `lazilyRespond`, the readers and byte ranges they use | `MCLazyResponse` | `CacheHandler_proofs` |
| `CacheZone` | the goroutines of a zone over its storage, LRU and scheduler | `MCCacheZone` | `CacheZone_proofs` |
| `ObjectStorage` | what a storage promises (abstract) | refinement in `MCDiskStorage` | `DiskStorage_proofs` |
| `DiskStorage` | `storage/disk/*.go`, system call by system call | `MCDiskStorage` | `DiskStorage_proofs` |
| `Application` | `app/app.go`, `app/init.go`, `app/reload.go`, `app/connections.go`, `main.go` | `MCApplication` | `Application_proofs` |
| `TimeoutConn` | `utils/netutils`, `utils/throttle`, `handler/throttle` | `MCTimeoutConn` | `TimeoutConn_proofs` |
| `LocationMuxer` | `app/location_muxer.go` | `MCRouting` | `Routing_proofs` |
| `Balancing` | `upstream/balancing/**` | `MCRouting` | `Routing_proofs` |
| `Routing` | a request from the muxer through an upstream to its answer, composed of the two above | `MCRouting` | `Routing_proofs` |

`PartWriter` and `LazyResponse` extend `ObjectParts`, `Routing` extends `LocationMuxer`
and `Balancing`. `CacheZone` composes the LRU, the storage,
the part writer and the scheduler by their promises; the detailed modules show
that two of these are kept (`RankedCache`, `ObjectStorage`).

### TieredLRU

`tiers`, `lookup`, `tierListSize`, `storageObjects` and `bulkRemoveCount` are the
fields of `TieredLRUCache` and its configuration; `lookup[o]` is the `ListTier`
of the Element. `files` is the disk as the callers of the LRU leave it. One action
per exported operation under the mutex: `AddObject` and `AddCachedObject` (the two
outcomes of `AddObject`, with the part its caller saves), `RemoveObjects`,
`PromoteInTop`, `PromoteIntoRoom`, `PromoteBySwap` (the three ways of
`PromoteObject`), `ChangeConfig`. Two things are not atomic: the promotion of an
uncached object is `PromoteMiss` and, after the unlock, `PromoteAdd`; a
`throttledRemove` goroutine is an entry of `jobs` that alternates between
`RemoveBulk` and `WakeUp`.

A resize is stated by its result: the loops of `resize` and `resizeDown` keep the
concatenation of the tiers, so the new tiers are consecutive pieces of it
(`ResizeEnd`). A promotion in a zone whose `tierListSize` is 0 panics after its
deferred calls are registered; they still run, so `PromoteIntoRoom` has that case
too. The statistics counters are left out.

### RankedCache

The abstract specification: one list of distinct objects, best first, and a
capacity. An addition may drop the worst object and only when the cache is full; a
promotion never lets an object fall behind; a resize keeps a prefix; nothing else
moves. `TieredLRU` maps `ranking` to the concatenation of the tiers and
`capacity` to `4 * tierListSize` (`Ranked`, `ImplementsRankedCache`).

### Scheduler

The program counters `storage` and `expirer` are the two goroutines, `pc` is the
channel a client waits on; a send and its receive on an unbuffered channel are one
step. `heap` holds the calls whose `expireTime` is in the heap, `armed` and `tick`
are the runtime timer and its channel. `Roots` are the entries with the least
expiry: which of several equal ones is on top is not told. The timer is the one of
Go before 1.23 (the build uses 1.7.4), whose channel keeps a tick across `Reset`.
`Destroy` closes the channels, so a client that is still sending panics
(`SendOnClosed`). `Deliver` ends with the `go` statement: `ran` gets an entry that is `NotBegun`, and the
callback begins with `Execute`, in a goroutine that the `WaitGroup` of `Destroy` does not count.

### PartWriter

One step per iteration of the loop in `Write`; a byte of the body is its position
in the object, so a saved part shows which bytes it holds. The range of the
response (`startPos`, `length`, `objSize`) is any range of the object. A body may
end early, have up to `Excess` bytes too many, and any `SavePart` may fail.

### CacheZone

One step per call to storage, LRU or scheduler, for any number of proxied
requests, readers, expiry/purge goroutines and the reload of the zone after a
restart. The components appear by their promises: the LRU is a set that
evicts something when full, the part writer saves the parts of a range in order,
the scheduler delivers an entry of its heap at any time. `AddEvent` is its two sends
(`PushExpiry` and `SetCallback`, in the reload `PushLoaded` and `SetLoaded`): `timers[o]` counts the entries of an object in
the heap, `events` has the objects with a callback. `Deliver` takes an entry and starts the callback (`Expire`) or finds none
(`DropExpiry`): it was started by an earlier entry, or is not in the map yet. `lost` remembers the objects that are left without
an entry in the second way. A restart keeps `meta` and `files` only. `TieredLRU` treats a caller's disk operation as part
of the LRU operation; `CacheZone` is where they come apart.

### LazyResponse

`LazyInit`, `LazyNext` and `LazySpec` are its initial states, steps and specification. The request is one of the forms of a Range header; `RangeOf` is what
`ParseRequestRange` makes of it, and `Wanted` (a property's definition) what RFC 7233
means by it. A turn of the loop in `lazilyRespond` is `PartFromStorage`, or
`PartMissing`, `ListParts` and perhaps `NextFromStorage`, then `Copy`: one step
per call to the storage, because other goroutines save, evict and discard parts
between them. `up \o file` are the contents of the `multiReadCloser`; `toSend` is
what skipping and limiting leave of them; `fetched` is what has been read of
upstream responses when `Close` of the `partReadCloser` is done. `SearchPart` is the
binary search of `sort.Search` with its middle, written as a recursive function, of a condition that need not be monotone. Any copy may
fail, any file may not open.

### DiskStorage and ObjectStorage

`ObjectStorage` is the storage as handlers see it: `stored[o][f]` changes at one
instant by a save, a discard of a part or a discard of an object. `DiskStorage`
has one action per system call: `createFile` is `MakeDir` and `CreateTemp`, a save ends with
`CopyWhole` and `RenameTemp` (or fails: `CopyFails`, `CloseFails`), `Discard` is `MoveAway` and
then `RemoveAll`, file by file. `walk` is `Iterate`, which runs beside the calls:
`Glob`, then `ReadMetadata` and `Report` for each directory. `Crash` kills the process
between any two steps and starts it over with any part size in its configuration:
temporary files and renamed directories stay (`Orphaned`, `leftover`). The refinement maps
`stored` to the files under their final names and `size` to a settings file that can be read.
The two levels of fan-out directories are left out: they are never removed.

### Application

The main goroutine is `main`: `New`, `Setup` (or `SetupFails`, which ends `Run`), then `Build` of a private copy, `Swap`, `Clear`,
`Resize` and `CopyZone` one at a time under the lock, and `Installed`; `TakeSignal`, `Reload`, `Stop`,
`Finished` and `Cleanup` are `Wait` and what it calls. `server` is `doServing` around gracehttp
(external); `signals` is `signalChan`, of one place. `inst` lists the cache zones that were ever created,
so a host and a table entry that should be the same zone can be told apart. `conn[c]` is
the goroutine of a connection: `Lookup` is `GetLocationFor`, `Find` is `FindConnection`, `Remove` is what
`ConnState` does, which may come after a new connection has the address. `ReadZones` is
the status page, which walks the map of zones without the lock: the runtime may end the process.

### TimeoutConn

One connection with the requests that follow one another on it. Every `Read`
sets a deadline, so does every piece of `ReadFrom`; `ThrottledWriter` is a record
(`speed`, `minWrite`, `started`, `written`), and its steps are a write of what the seconds
begun allow and a sleep otherwise. Time is in ticks of a part of a second, timers are late by up to `Slack`;
the client takes bytes at any pace or stops taking them. Bytes are counted only.
The branch of `CopyN` for a reader that is limited already and is limited again is left out: the only limited reader that
reaches a connection is the one of `LimitReadCloser`, around the parts themselves.

### LocationMuxer, Balancing and Routing

`LocationTrie` is a function from prefixes to the last location with that prefix (the
code's trie is keyed by the prefix), a regular expression is the set of paths it matches,
and `Match` gives a set, since prefixes that differ in case only may both be longest.
`Balancing` has `Set` and `Get` of the six algorithms as operators: the rings of
points with their shares rounded as the code rounds them, `uint32` modulo `Word`, hashes as constant
operators. `sort.Sort` leaves equal weights in any order, so `Order` is any order by weight. The multipliers of rendezvous are
all 1 for equal weights. For others `Scored` says which addresses can have a score at all: all of them when the first weight
is positive, else the multipliers are 0, infinity and NaN and at most the second has one; which scored address is best is then left open. `Routing` is the state machine: `Resolve` replaces the addresses by what DNS found,
and a request goes through `Locate`, `GetAddress`, `Do`, perhaps `Retry`, and `Answer`, one step per
call to a component that other goroutines share.

## 3. What the runs show

| run | question | bounds |
| --- | --- | --- |
| `lru_tiers` | do index, tiers, bound and ranking survive every sequence of operations and resizes? | 5 objects, `storage_objects` in {3, 4, 8}: 0, 1 or 2 per tier |
| `lru_removal` | do bulk removals forget a file or delete a live one? do they finish? | 2 objects, 2 removals, 1 promoter, bulks of 1, fairness |
| `scheduler_safety` | at most once, no missed wake-up, right heap entry? | 3 calls, 2 keys, 2 clients, one with `Cleanup` |
| `scheduler_calls` | right answers, do calls return, events run, does `Destroy` silence it? | 2 calls of one key, 2 clients, one with `Destroy`, fairness |
| `partwriter_parts` | are saved parts exact and complete, does `Write` return? | objects to 6 bytes, parts of 1 to 3 bytes, 2 bytes too many |
| `zone_races` | do racing requests, readers and expiries leave uncounted files? | 2 parts, room for 1, 2 proxies (GET, HEAD), 1 reader, 1 expiry, 2 heap entries |
| `zone_restarts` | does all metadata expire, through purges and restarts? | 1 part, 2 proxies (GET), 1 expiry or purge, 2 heap entries, 2 restarts, fairness |
| `lazy_ranges` | is a range answered by its bytes, and what is read of the upstream for it? | objects to 5 bytes, parts of 1 to 3 bytes, every header, any parts on disk |
| `disk_crashes` | is the storage atomic, clean and found again, wherever it is killed? | 1 object, 2 parts, 2 versions, 2 part sizes, 2 callers, 4 calls, 1 kill |
| `app_reloads` | is one configuration installed, on the same zones, and does the process end? | 5 configurations, 2 names, 2 connections, 2 reload signals, fairness |
| `conn_transfers` | does an answer keep to its speed and deadlines, arrive whole, and end? | 2 requests, speeds 0, 2, 4, sizes and limits 1, 3, 4, pieces of 2, minimum 3, timeout 3, lateness 1, fairness |
| `routing_routes` | right location, always a server, stable paths, turns, one answer? | 3 and 4 locations in every order, 6 algorithms over 1 to 3 addresses, weight 0 in each place, `Word` 32, 4 status codes, 2 clients |

Why the bounds are enough. *LRU*: five objects overfill a zone of four, so
evictions, the swap between full tiers and the cascade all happen, with one or two
objects per tier the cascade crosses several tiers, and each resize between the
three sizes drops, moves or keeps objects; two removals let a second resize come
while the first sleeps. *Scheduler*: the interesting cases need an old entry and a
new one of a key, an entry of another key, and a client between its two sends while
another blocks a goroutine; the clock runs to 2, past every delay. *Part writer*:
with parts of three bytes a range may start and end inside, at the start or
at the end of a first, middle or last part, and chunks straddle two boundaries.
*Zone*: one part beyond the capacity makes every save evict; two restarts let the
process die in the reload of the previous restart;
two entries in the heap are an old one, which may come between the two sends of a later request or of the reload, and the new one. *Responder*: with five parts
of one byte a range has parts before, inside and after it, so the search misses and
finds, and a gap is followed by two files; with parts of two and three the range
starts and ends inside parts and the last one is short. *Disk*: what two calls can do
to one another needs one object and two files; four calls let each of two callers save
and discard, around a kill in any of their steps and the walk after it.
*Application*: a zone is kept and resized, added, dropped, or cannot be changed; a name moves to
another zone; one configuration cannot be built; two signals meet in a channel of one place. Two connections
are an old and a new one of an address. *Connections*: speeds below, and above the minimal write,
answers of less than a piece, a piece and a half and two, limits that end inside and at a piece, and a
throttled request before one that is not. *Routing*: prefixes inside one another and differing in case,
both precedences, a weight of 0 first, last and but for one address, a name of two addresses and one of none, counters that
overflow at 32, which two divides and three does not; retries from a configured upstream to the other and back, and to one that is not there.

Deadlock is checked except where the system may stop: in `scheduler_calls` (a destroyed scheduler has
stopped, and `Destroy` may hang, see below), `partwriter_parts` (a closed writer is done), `lazy_ranges`
(an answered request is done), `disk_crashes` (the calls are used up, or the settings refused),
`app_reloads` (the process has ended), `conn_transfers` (the connection is closed) and `routing_routes` (a panic
has ended the process). The type invariants are definitions of their modules; they are proved
for the modules whose theorems say so below.

### Fairness

- `TieredLRU`: weak fairness of the two steps of a removal goroutine: it has its
  own timer and takes the mutex, which Go serves in order. Nothing of requests.
- `Scheduler`: weak fairness of the clock, the runtime timer and the top of the
  loop; strong fairness of each channel operation: Go queues the senders of
  a channel, and `select` chooses at random among ready channels. Weak fairness of `Execute`: the runtime runs every goroutine.
- `PartWriter`: a call that has started runs on; nobody has to make one.
- `CacheZone`: started goroutines run on, time passes, and an entry of the heap is
  delivered (strong, because the model has few goroutines for the callbacks; the code starts a new one
  each time). Nothing of requests.
- `Application`: weak fairness of the main goroutine, of the start of the server and of its draining, which
  gracehttp bounds by a timeout. `EndsWhenAsked` assumes in its statement that the operator goes on sending SIGTERM:
  a single one may be lost (it finds the channel full, or the server not yet listening).
- `TimeoutConn`: weak fairness of the goroutine and of the clock; none of the client, so
  that calls end because of deadlines.
- `DiskStorage`, `LazyResponse` and `Routing` have safety properties only and assume none.

### Disagreements

Where the code does something else than a doc, a comment or a neighbour of it says, the
property that says it is stated in the module and has a configuration of its own, which TLC finds violated
(`tlc -config X.cfg M`); the runs above do without it.

| configuration | property | what the code does |
| --- | --- | --- |
| `MCTieredLRU_bulkcount.cfg` | `RemovalIsComplete` | a reload that changes `bulk_remove_count` makes a sleeping removal skip elements (`lru.go:357`) |
| `MCScheduler_readded.cfg` | `NeverEarly` | a key that is added again runs its new callback at the expiry of the old one |
| `MCScheduler_destroyed.cfg` | `NoneBeginsOnceDestroyed` | the goroutine of a callback is not in the `WaitGroup` (`scheduler.go:110`, `:186`): it may begin after `Destroy` has returned |
| `MCCacheZone_lost.cfg` | `StaleNeverStays` | an expiry between the two sends of `AddEvent` (`scheduler.go:168`) finds no callback: that of the object stays with nothing that leads to it, and its stale metadata until a request or a restart |
| `MCCacheZone_head.cfg` | `MetadataWillExpire` | the metadata of a response to HEAD is saved without an event (`handler_helpers.go:116`) |
| `MCCacheZone_purge.cfg` | `DiskWithinCapacity` | a purge lists parts, discards, and then unlists what was saved since, which stays on disk uncounted |
| `MCLazyResponse_short.cfg` | `SentIsPrefix` | an upstream response that ends early is followed by the file of the next part: bytes are missing in the middle |
| `MCRouting_collision.cfg` | `LocationsAreKept` | "/" and "= /" have the same key in the trie, the later one replaces the earlier (`location_muxer.go:49`, `:59`) |
| `MCRouting_overflow.cfg` | `AlwaysFindsAServer`, `KeepsItsPaths` | the share of an address in a ring is a product of `uint32`: with heavy weights it overflows, and the ring has wrong shares or no point at all |
| `MCRouting_weightless.cfg` | `FindsTheWeighted` | when the first address has weight 0 the multipliers of rendezvous are 0, infinity and NaN (`rendezvous/impl.go:50`): with weights 0, 0, 1 no path finds an address |
| `MCTimeoutConn_throttled.cfg` | `PiecesAreBounded` | with throttling, one deadline covers a whole answer, not a piece of `max_io_transfer_size`, and the limit of the reader is lost |

Others were met while modelling.

- *LRU and scheduler*: a zone with fewer `storage_objects` than tiers lists up to four objects. A
  `bulk_remove_count` of 0 makes a removal sleep forever without removing. A tick that arrives while another
  case of the select is taken is read after the next `Reset` and delivers an event
  early; with a near-zero duration even between the two sends of `AddEvent`, where it loses the callback, as does a
  `Cleanup` that overtakes an `AddEvent`. `Destroy` never returns if the storage
  handler stops while the expiry handler sends to it.
- *Zone and responder*: directories without metadata are passed over by the reload and their parts take space beside a full zone.
  The metadata of a response to HEAD is saved without an event, so it is discarded
  only by a later request or after a restart. A download that outlives its
  object saves parts after the expiry, in a directory without metadata. New metadata of a changed
  object leaves the parts of its old version in place, and readers mix them (`handler_helpers.go:109`). `sort.Search`
  needs a condition that stays true once it is; that of `getContents` holds in
  the middle of the list, so with parts beyond the range on disk the search may
  miss one inside it, which is then asked of the upstream again.
  `multiReadCloser.WriteTo` closes none of the readers it has copied.
- *Disk*: a kill between the creation of the settings file and its writing leaves an empty one, which refuses
  the zone at every later start (`disk/utils.go:141`).
- *Application*: a reload that changes the pid file leaves the old one behind. A reload that fails leaves the
  zones it made with their schedulers and loaders running. The status page and `Size` of the connections read maps
  without the lock that guards them.
- *Upstreams and proxy*: a set whose weights are all 0 panics in ketama (a division by zero outside of a request).
  legacyketama gives points to weight 0, and moves paths of addresses that stay. Rendezvous finds no address for a path whose CRC with
  every address is 0. When the round-robin counter wraps, an address may be given twice in a row of as many answers as there
  are addresses, unless their number divides 2^32. Once names are resolved,
  the hashes are taken of IPs, so every path may move. A retry sends the request with a body that was
  already read. The request to the upstream is not cancelled when the client leaves: `reqDone` is closed before it is
  sent (`proxy/impl.go:96`).
- *Connections*: a `read_timeout` or `write_timeout` of 0 expires every operation at once. A throttle stays on a
  connection for the requests after it. The connection limiter does nothing, whatever `max_connections_per_server` says.

## 4. What is proved

Eight modules of proofs; every theorem holds for any values of the constants that
satisfy the named assumptions of its module. A few need one thing more; it is in their
statement, and in a note under the table with what goes wrong without it.

| module | from | theorems |
| --- | --- | --- |
| `TieredLRU_proofs` | `LRUAssumption` | `LRUTypeOK`, `LRUIndexMatchesTiers`, `LRUTiersBounded`, `LRUCapacity`, `LRUNeverDeletesCached`, `LRUImplementsRankedCache`; `LRUNoOrphanFile` (1) |
| `Scheduler_proofs` | `SchedulerAssumption` | `SchedulerTypeOK`, `SchedulerDeliversTheRoot`, `SchedulerNoMissedWakeup`, `SchedulerAnswerHasOneReader`, `SchedulerQuietOnceDestroyed`, `SchedulerAtMostOnce` |
| `CacheHandler_proofs` | `ObjectPartsAssumption`, `PartWriterAssumption`, `LazyResponseAssumption` | `WriterSavesExactParts`, `WriterLosesOnlyTheBuffer`, `WriterClosesComplete`; `LazyFetchesOnlyTheRange`; `LazySentIsPrefix`, `LazyAnswerIsComplete`, `LazyFetchesWholeParts` (2) |
| `CacheZone_proofs` | `CacheZoneAssumption` | `ZoneTypeOK`; `ZoneFilesAccounted` without purges and restarts; `ZoneMetadataWillExpire` for GET, with both |
| `DiskStorage_proofs` | `DiskAssumption` | `DiskImplementsStorage`, `DiskNoLeftovers`, `DiskRecoversExactly` |
| `Application_proofs` | `ConfigAssumption` | `AppOneConfiguration`, `AppSameZone`, `AppFindsItsConnection` |
| `TimeoutConn_proofs` | `ConnAssumption` | `ConnTypeOK`, `ConnNeverAheadOfSpeed`, `ConnOneDeadlinePerPiece`, `ConnAnswerIsWhole` |
| `Routing_proofs` | `RoutingAssumption`, `BalancingAssumption` | `RoutingRightLocation`, `RoutingAnsweredOnce`; `RoutingTakesTurns` (3); `RoutingKeepsItsPaths`, `RoutingAlwaysFindsAServer` (4) |

1. One `bulk_remove_count` in all configurations: `MCTieredLRU_bulkcount.cfg` shows that removals skip elements otherwise.
2. `Truncates = FALSE`, upstream responses do not end early: `MCLazyResponse_short.cfg` shows the bytes that are missing otherwise.
   Copies may still fail anywhere, and files may come and go.
3. `DifferentHosts`, no host is listed twice in a set (it would have two turns), and no more addresses than values of the counter.
4. `FitsWord`, each weight times the number of addresses times the points per server is below `Word`: `MCRouting_overflow.cfg` shows
   the rings without it. In the code, with 160 points and 32 bits, this is a weight times the number of addresses below some 26 million.

The arguments.

- *LRU*. `TiersBounded` is not inductive: a promotion trusts the Element of
  the object, and with a wrong one it would push into a full tier. The
  inductive invariant `IInv` is type correctness together with
  `Consistent(tiers, lookup, Bound(tierListSize))`: lists without repetitions, an
  Element for exactly the listed objects, naming their tier, and every list within the
  bound. Each operation has a lemma that takes consistent lists to
  consistent lists (`CascadeConsistent`, `SwapConsistent`, `ResizeConsistent`, ...); the
  step of the invariant cites one per action. The resize lemma needs that the
  concatenation of the tiers has no repetitions and that the ends of the pieces are
  ordered and at most `tierListSize` apart.
  For the refinement, each operation is compared with the list operation of `RankedCache` on the concatenation of
  the tiers: a cascade that pushes the last of one tier into the next only moves boundaries, a swap moves
  the promoted object ahead and the displaced one back, a resize keeps a prefix.
  `NoOrphanFile` is inductive once `PendingRemoval`, the elements that a removal has still to reach,
  is seen to lose only what the bulk deletes.
- *Scheduler*. Beside the types (`TypeInv`, which has what a waiting client waits for): `NextIsRoot`, the entry picked
  before a blocking send is still a root after it, because only the same goroutine changes the
  heap; `OnePlace`, a call is with the client that made it, in the map under its key, or has run, never in two places; `DestroyedInv`,
  the last channel is closed after the storage handler has stopped.
- *Part writer*. `BufferOK`: the buffer is the bytes of the object from the start of a part to the current
  position; `SkipOK`: without a buffer the writer is at the start of a part or in a part
  that began before the body; `CoverOK` and `ListedOK` relate what is saved and listed to the position. Chunks do not
  occur in it, which is why they may be cut anywhere.
- *Responder*. `LazyInv`: the range of bytes is that of the header (`RangeOK`); a part found for the next turn comes
  after the missing one (`NextOK`); only bytes of the range are asked of the upstream; and, as long as no response is
  cut short, `Exact`: what is sent is the range up to the current position, what is about to be copied is the bytes of
  the parts it stands for (`Contents`), and what was read of the upstream are whole parts. That the binary search finds a place
  of the list follows from the least counterexample in the length of the interval; nothing is assumed of the condition it is given.
- *Zone*. Both invariants are inductive given the types; the work is in the handing over from one goroutine to the next,
  one lemma for each kind. The first needs that the LRU evicts before it lists (`Cardinality(listed)` at most the capacity).
  The second follows what each of the two sends and each delivery does to the pair of heap entry and callback (`PushIs`, `DropLeavesExpiry`, `Ticks`): a delivery
  without a callback takes the last entry only when none is needed, or while an `AddEvent` is between its sends, which is `lost`.
- *Disk*. `StoreInv` ties a file on its way to its directory and its caller; `Made`, nothing is in a directory that does
  not exist; `TempsOwned`, a temporary file belongs to one call that is saving it, or to none after a kill or a failed closing;
  a renamed directory belongs to the call that is emptying it; `WalkInv` and `Found`, what an undisturbed walk has
  found and has still to visit are together what is there. The refinement is shown action by action: `RenameTemp`, `MoveAway` and `RemovePart` are steps of
  `ObjectStorage`, everything else, kills included, stutters.
- *Application*. `NewOK` describes the private copy at each stage: complete, on zones that were created under its IDs or kept,
  resized before the map is filled; `LockOK`: while the lock is held, hosts and configuration are those of the copy.
  `HeldOK` strengthens `SameZoneAcrossReloads` to the time of the lock. That new zones get numbers of their own
  rests on a bijection between finite sets of equal size. `WiredOK`: a client that is there is the one registered.
- *Connections*. `PaceOK`: a sleep ends in a second that has room for the minimal write, which is at most the
  speed; `RoundOK`: a piece starts with nothing sent under its deadline; `AccountsOK`: sent, in flight and
  left add up to the answer, and a limit is short of its start by what was read.
- *Routing*. For a path that no two locations contend for, the trie holds each of them under its own prefix, so the
  longest key is the longest prefix (`LongestIsFound`), and one regular expression at most accepts (`RegexIsFound`).
  `AnsweredOnce` follows from what is open at each stage of a request (`RequestOK`). `TakesTurns`: the recent answers belong to
  consecutive values of the counter (`InTurn`), which wraps at `Word`; a window of as many answers as there are addresses
  has one of each, and one in which the counter has wrapped is two such runs.
  `KeepsItsPaths`: with equal weights every address gets the same number of points, with and without the one that goes
  (`EqualShares`), so the ring without it is the ring less its points, and a path whose owner stays finds the same
  point (`KetamaKeeps`); for rendezvous the index of the best score shifts (`RendezvousKeeps`).
  `AlwaysFindsAServer`: no share overflows (`TotalFits`, `Shares`), the heaviest address has points, and the search goes around the ring
  (`KetamaServes`, `LegacyServes`); the running sums of the sorted weights reach every number that may be drawn
  (`OrderExists`, `RandomServes`); with a positive first weight all addresses of rendezvous have a score, and equal weights
  that are not all 0 are positive (`EqualIsPositive`). What `SumOf` adds up is proved by the least position at which it would differ from
  the running sum (`SumIsRunning`).

Only model-checked: the liveness properties under fairness (`OrphansEventuallyRemoved`, `EveryCallReturns`, `ScheduledEventuallyRuns`,
`WriteReturns`, `StaleIsDiscarded`, `EndsWhenAsked`, `CallsEnd`), because liveness and ENABLED are out of the prover's reach;
and the zone with HEAD, or with purges and restarts for its files, beyond what its theorems say. Every safety
property, action property and refinement of the runs is stated by a theorem.

## 5. Not modelled

- HTTP helpers (`utils/httputils` but for ranges, the flexible writer), header rewriting, pages, access logs:
  transformations of one value into another, without state that outlives a call.
- The mp4 and flv handlers: header arithmetic around a third-party library.
- Decoding and validation of the configuration, logging, contexts, mocks, generators: no behaviour over time. Of a
  configuration, `Application` and `Routing` have what the properties tell apart.
- In modelled components: requests for several ranges and metadata that does not satisfy a request (they are proxied), file descriptors,
  the fan-out directories, disks that fail in other ways than a write, headers and cancelling in the proxy handler, users and limits of the
  process, and the versions of an object, which the code does not keep apart.
