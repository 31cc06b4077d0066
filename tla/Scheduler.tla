------------------------------ MODULE Scheduler ------------------------------
(***************************************************************************)
(* The scheduler of a cache zone, storage/scheduler.go: the goroutine      *)
(* storageHandler owns the map from keys to callbacks, expiresHandler owns *)
(* the heap of expiry times and the timer, and clients talk to both over   *)
(* unbuffered channels. A send and its receive are one step; a client that *)
(* sends waits in a state named after the channel.                         *)
(*                                                                         *)
(* The timer is Go's time.Timer before Go 1.23 (.travis.yml builds with    *)
(* 1.7.4): a channel of one tick, which Reset does not drain.              *)
(* expiresDict is written and never read; it is left out.                  *)
(*                                                                         *)
(* An operator commented `Mutant' is a wrong variant of the definition     *)
(* after it, which a property must be able to tell from it.                *)
(***************************************************************************)
EXTENDS Integers, Sequences

CONSTANTS
    Keys,
    Events,     \* the AddEvent calls; each may be made once, at any time
    KeyOf,      \* the key of a call
    DelayOf,    \* its delay
    Clients,    \* goroutines that call AddEvent and Contains
    Cleaners,   \* those of them that also call Cleanup
    Destroyers, \* those of them that also call Destroy
    MaxTime,    \* bound of the clock
    None

ASSUME SchedulerAssumption ==
    /\ KeyOf \in [Events -> Keys] /\ DelayOf \in [Events -> Nat]
    /\ Cleaners \subseteq Clients /\ Destroyers \subseteq Clients
    /\ MaxTime \in Nat
    /\ None \notin Events

Never == MaxTime + 1   \* NewTimer(time.Hour) and Reset(time.Hour)

VARIABLES
    now,        \* the clock
    armed,      \* when the runtime timer fires
    tick,       \* whether timer.C holds a tick
    callbacks,  \* the map of storageHandler
    storage,    \* where storageHandler is: "select", "respond", "stopped"
    answer,     \* what it is about to send on containsResponse
    heap,       \* the calls whose expireTime is in the heap
    expirer,    \* where expiresHandler is: "reset", "select", "delete", "stopped"
    next,       \* nextExpire
    pc,         \* the channel a client waits on
    arg,        \* the call or the key of its operation
    expiresAt,  \* the Expires of every call made
    ran,        \* the goroutines started for callbacks: the call, and when it began
    closed      \* stopChan and the other channels: "no", "stop", "all"

clientVars  == <<pc, arg>>
storageVars == <<callbacks, storage, answer>>
expirerVars == <<heap, expirer, next, armed, tick>>
vars == <<now, clientVars, storageVars, expirerVars, expiresAt, ran, closed>>

NotCalled == -1
NotBegun  == -1   \* a goroutine that has not been scheduled yet
Called == {e \in Events : expiresAt[e] # NotCalled}

\* Mutant: expires is a plain list.
UnorderedRoots == heap
\* Any of the heap entries that expire first may be at its root.
Roots == {e \in heap : \A f \in heap : expiresAt[e] <= expiresAt[f]}

Goto(c, place, x) == pc' = [pc EXCEPT ![c] = place] /\ arg' = [arg EXCEPT ![c] = x]
Return(c) == Goto(c, "idle", None)

-----------------------------------------------------------------------------
(* Clients *)

\* AddEvent computes the time before it waits for expiresHandler.
AddEvent(c, e) ==
    /\ pc[c] = "idle" /\ e \notin Called
    /\ now + DelayOf[e] <= MaxTime
    /\ expiresAt' = [expiresAt EXCEPT ![e] = now + DelayOf[e]]
    /\ Goto(c, "newExpireTime", e)
    /\ UNCHANGED <<now, storageVars, expirerVars, ran, closed>>

Contains(c, k) ==
    /\ pc[c] = "idle"
    /\ Goto(c, "containsRequest", k)
    /\ UNCHANGED <<now, storageVars, expirerVars, expiresAt, ran, closed>>

Cleanup(c) ==
    /\ c \in Cleaners /\ pc[c] = "idle"
    /\ Goto(c, "cleanupRequest", None)
    /\ UNCHANGED <<now, storageVars, expirerVars, expiresAt, ran, closed>>

\* close(stopChan), then wg.Wait.
Destroy(c) ==
    /\ c \in Destroyers /\ pc[c] = "idle" /\ closed = "no"
    /\ closed' = "stop"
    /\ Goto(c, "wait", None)
    /\ UNCHANGED <<now, storageVars, expirerVars, expiresAt, ran>>

\* Mutant: wg.Add runs in the goroutines, after wg.Wait.
NothingAdded == TRUE
\* wg.Wait
HandlersDone == storage = "stopped" /\ expirer = "stopped"

\* wg.Wait returns and Destroy closes the other channels.
Destroyed(c) ==
    /\ pc[c] = "wait" /\ HandlersDone
    /\ closed' = "all"
    /\ Goto(c, "destroyed", None)
    /\ UNCHANGED <<now, storageVars, expirerVars, expiresAt, ran>>

\* A send on a closed channel panics.
SendOnClosed(c) ==
    /\ closed = "all"
    /\ pc[c] \in {"newExpireTime", "setRequest", "containsRequest",
                  "cleanupRequest", "cleanupExpiresRequest"}
    /\ Goto(c, "panicked", None)
    /\ UNCHANGED <<now, storageVars, expirerVars, expiresAt, ran, closed>>

-----------------------------------------------------------------------------
(* storageHandler *)

Set(c) ==
    /\ storage = "select" /\ pc[c] = "setRequest"
    /\ callbacks' = [callbacks EXCEPT ![KeyOf[arg[c]]] = arg[c]]
    /\ Return(c)
    /\ UNCHANGED <<now, storage, answer, expirerVars, expiresAt, ran, closed>>

CleanupCallbacks(c) ==
    /\ storage = "select" /\ pc[c] = "cleanupRequest"
    /\ callbacks' = [k \in Keys |-> None]
    /\ Goto(c, "cleanupExpiresRequest", None)
    /\ UNCHANGED <<now, storage, answer, expirerVars, expiresAt, ran, closed>>

\* Mutant: the answer is sent by a goroutine of its own.
AfterRequestAsync == "select"
AfterRequest      == "respond"

ReceiveContains(c) ==
    /\ storage = "select" /\ pc[c] = "containsRequest"
    /\ storage' = AfterRequest
    /\ answer' = (callbacks[arg[c]] # None)
    /\ Goto(c, "containsResponse", arg[c])
    /\ UNCHANGED <<now, callbacks, expirerVars, expiresAt, ran, closed>>

\* Any client that waits on containsResponse may receive the answer.
Respond(c) ==
    /\ storage = "respond" /\ pc[c] = "containsResponse"
    /\ storage' = "select"
    /\ Return(c)
    /\ UNCHANGED <<now, callbacks, answer, expirerVars, expiresAt, ran, closed>>

\* Mutant: the send on containsResponse is a case of a select with stopChan.
MayStopAnswering == storage \in {"select", "respond"}
MayStop          == storage = "select"

StopStorage ==
    /\ MayStop /\ closed # "no"
    /\ storage' = "stopped"
    /\ UNCHANGED <<now, clientVars, callbacks, answer, expirerVars, expiresAt,
                   ran, closed>>

-----------------------------------------------------------------------------
(* expiresHandler *)

\* Mutant: the time of day for the duration until it.
DeadlineLate(e) == now + expiresAt[e]
\* When timer.Reset(nextExpire.Expires.Sub(time.Now())) fires.
Deadline(e)     == expiresAt[e]

\* The head of the loop: the next expiry, and timer.Reset. What timer.C
\* already holds stays there.
ResetTimer ==
    /\ expirer = "reset"
    /\ \/ heap = {} /\ next' = None /\ armed' = Never
       \/ \E e \in Roots : next' = e /\ armed' = Deadline(e)
    /\ expirer' = "select"
    /\ UNCHANGED <<now, clientVars, storageVars, heap, tick, expiresAt, ran, closed>>

\* Mutant: an armed timer is left as it is.
AfterPushWait   == IF next = None THEN "reset" ELSE "select"
\* Mutant: a return ends the case.
AfterPushReturn == "stopped"
\* Back to the head of the loop.
AfterPush       == "reset"

\* heap.Push
PushExpire(c) ==
    /\ expirer = "select" /\ pc[c] = "newExpireTime"
    /\ heap' = heap \cup {arg[c]}
    /\ expirer' = AfterPush
    /\ Goto(c, "setRequest", arg[c])
    /\ UNCHANGED <<now, storageVars, next, armed, tick, expiresAt, ran, closed>>

CleanupExpires(c) ==
    /\ expirer = "select" /\ pc[c] = "cleanupExpiresRequest"
    /\ heap' = {}
    /\ expirer' = "reset"
    /\ Return(c)
    /\ UNCHANGED <<now, storageVars, next, armed, tick, expiresAt, ran, closed>>

\* A tick: nothing tells whether it was set for nextExpire.
ReceiveTick ==
    /\ expirer = "select" /\ tick
    /\ tick' = FALSE
    /\ expirer' = IF next = None THEN "reset" ELSE "delete"
    /\ UNCHANGED <<now, clientVars, storageVars, heap, next, armed, expiresAt,
                   ran, closed>>

\* Mutant: the callback stays in the map.
Kept(k)      == callbacks
\* delete(cache, key)
Forgotten(k) == [callbacks EXCEPT ![k] = None]

\* deleteRequest: storageHandler starts a goroutine for the callback its map has
\* for the key and deletes it; expiresHandler then removes the root of the heap.
Deliver ==
    /\ expirer = "delete" /\ storage = "select"
    /\ LET k == KeyOf[next]
       IN  /\ callbacks' = Forgotten(k)
           /\ ran' = IF callbacks[k] = None THEN ran
                     ELSE Append(ran, [event |-> callbacks[k], at |-> NotBegun])
    /\ heap' = heap \ {next}
    /\ expirer' = "reset"
    /\ UNCHANGED <<now, clientVars, storage, answer, next, armed, tick,
                   expiresAt, closed>>

\* safeExecute, in a goroutine of its own that Destroy does not wait for.
Execute(i) ==
    /\ ran[i].at = NotBegun
    /\ ran' = [ran EXCEPT ![i].at = now]
    /\ UNCHANGED <<now, clientVars, storageVars, expirerVars, expiresAt, closed>>

StopExpirer ==
    /\ expirer = "select" /\ closed # "no"
    /\ expirer' = "stopped"
    /\ UNCHANGED <<now, clientVars, storageVars, heap, next, armed, tick,
                   expiresAt, ran, closed>>

-----------------------------------------------------------------------------
(* The runtime *)

TimerFires ==
    /\ armed <= now
    /\ armed' = Never
    /\ tick' = TRUE
    /\ UNCHANGED <<now, clientVars, storageVars, heap, expirer, next, expiresAt,
                   ran, closed>>

Tick ==
    /\ now < MaxTime
    /\ now' = now + 1
    /\ UNCHANGED <<clientVars, storageVars, expirerVars, expiresAt, ran, closed>>

-----------------------------------------------------------------------------
\* NewScheduler
Init ==
    /\ now = 0 /\ armed = Never /\ tick = FALSE
    /\ callbacks = [k \in Keys |-> None]
    /\ storage = "select" /\ answer = FALSE
    /\ heap = {} /\ expirer = "reset" /\ next = None
    /\ pc = [c \in Clients |-> "idle"]
    /\ arg = [c \in Clients |-> None]
    /\ expiresAt = [e \in Events |-> NotCalled]
    /\ ran = <<>>
    /\ closed = "no"

Calls(c) ==
    \/ \E e \in Events : AddEvent(c, e)
    \/ \E k \in Keys : Contains(c, k)
    \/ Cleanup(c)
    \/ Destroy(c)

\* The steps that advance a call a client has made.
Serve(c) ==
    \/ PushExpire(c) \/ Set(c)
    \/ ReceiveContains(c) \/ Respond(c)
    \/ CleanupCallbacks(c) \/ CleanupExpires(c)
    \/ Destroyed(c) \/ SendOnClosed(c)

Next ==
    \/ \E c \in Clients : Calls(c) \/ Serve(c)
    \/ ResetTimer \/ ReceiveTick \/ Deliver \/ TimerFires \/ Tick
    \/ StopStorage \/ StopExpirer
    \/ \E i \in DOMAIN ran : Execute(i)

Spec == Init /\ [][Next]_vars

\* Goroutines and the clock run on. A channel serves its senders in order
\* and a select chooses evenly among the ready channels, so no sender and no
\* ready channel is passed over forever.
Fairness ==
    /\ WF_vars(Tick) /\ WF_vars(TimerFires) /\ WF_vars(ResetTimer)
    /\ SF_vars(ReceiveTick) /\ SF_vars(Deliver)
    /\ SF_vars(StopStorage) /\ SF_vars(StopExpirer)
    /\ \A c \in Clients : SF_vars(Serve(c))
    /\ WF_vars(\E i \in DOMAIN ran : Execute(i))

FairSpec == Spec /\ Fairness

-----------------------------------------------------------------------------
(* Properties *)

TypeOK ==
    /\ now \in 0 .. MaxTime
    /\ armed \in 0 .. Never
    /\ tick \in BOOLEAN
    /\ callbacks \in [Keys -> Events \cup {None}]
    /\ storage \in {"select", "respond", "stopped"}
    /\ answer \in BOOLEAN
    /\ heap \subseteq Called
    /\ expirer \in {"reset", "select", "delete", "stopped"}
    /\ next \in Events \cup {None}
    /\ pc \in [Clients -> {"idle", "newExpireTime", "setRequest",
                 "containsRequest", "containsResponse", "cleanupRequest",
                 "cleanupExpiresRequest", "wait", "destroyed", "panicked"}]
    /\ arg \in [Clients -> Events \cup Keys \cup {None}]
    /\ expiresAt \in [Events -> 0 .. MaxTime \cup {NotCalled}]
    /\ ran \in Seq([event : Events, at : 0 .. MaxTime \cup {NotBegun}])
    /\ closed \in {"no", "stop", "all"}

\* A callback is started at most once, though its key may be in the heap
\* several times and its call races the timer.
AtMostOnce == \A i, j \in DOMAIN ran : ran[i].event = ran[j].event => i = j

\* While expiresHandler waits, a tick is there or will come no later than the
\* first expiry of the heap: pushing an earlier event, a cleanup or a tick
\* for nothing never leaves it asleep on an older deadline.
NoMissedWakeup ==
    expirer = "select" =>
        tick \/ \A e \in heap : armed <= expiresAt[e]

\* storageHandler answers one Contains at a time and does not stop before it
\* has: the answer on the shared channel is received by the client that asked,
\* and no client waits for one that never comes.
AnswerHasOneReader ==
    LET readers == {c \in Clients : pc[c] = "containsResponse"}
    IN  IF storage = "respond" THEN \E c \in Clients : readers = {c}
        ELSE readers = {}

\* heap.Remove(expires, 0) after a delivery (scheduler.go:162) removes the
\* entry that was delivered: it is still a root of the heap, though it was
\* chosen before the select and clients have come and gone since.
DeliversTheRoot == expirer = "delete" => next \in Roots

\* A scheduler that is not destroyed serves every call: the goroutines and
\* the clients that wait on each other's channels never wait in a circle.
EveryCallReturns ==
    \A c \in Clients : pc[c] # "idle" ~> (pc[c] = "idle" \/ closed # "no")

Launched(e) == \E i \in DOMAIN ran : ran[i].event = e
Begun(e)    == \E i \in DOMAIN ran : ran[i].event = e /\ ran[i].at # NotBegun

\* Once the callback of a call is in the map while its time is in the heap,
\* it begins to run, or was replaced by a later call for the same key (without
\* Cleanup, whose two steps can leave the one and take the other).
ScheduledEventuallyRuns ==
    \A e \in Events :
        (e \in heap /\ callbacks[KeyOf[e]] = e)
            ~> \/ Begun(e)
               \/ callbacks[KeyOf[e]] # e /\ ~Launched(e)
               \/ closed # "no"

\* types/scheduler.go:7, "schedules the passed callback to be executed at the
\* supplied time": never before it.
NeverEarly ==
    \A i \in DOMAIN ran :
        ran[i].at # NotBegun => ran[i].at >= expiresAt[ran[i].event]

\* What wg.Wait is for: when Destroy has returned no goroutine is started for
\* a callback any more, whatever the handlers and the timer were doing when it
\* was called. One that was started before may still have to begin.
QuietOnceDestroyed == [][closed = "all" => Len(ran') = Len(ran)]_vars

\* The stronger reading of Destroy: when it has returned no callback begins.
NoneBeginsOnceDestroyed == [][closed = "all" => UNCHANGED ran]_vars

=============================================================================
